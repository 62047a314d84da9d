----------------------------- MODULE ContentPath -----------------------------
(***************************************************************************)
(* The way prompt and response previews take through the program: the      *)
(* privacy gate (privacy.py) decides and redacts, and what it hands on     *)
(* reaches signal extraction (signals.py), prompt assessment               *)
(* (prompt_assessment.py) and the model adapter of ModelAssist.            *)
(*                                                                         *)
(* The caller that passes records, decisions and configurations from one   *)
(* to the next is not in the repository; it is modelled from how the tests *)
(* compose them.  Each stage takes the configuration in force when it      *)
(* runs, which may be newer than the one the gate decided under.           *)
(***************************************************************************)
EXTENDS ModelAssist

CONSTANTS
  Features(_),        \* _extract_features: what the regular expressions count in a prompt
  BadPattern,         \* an exclusion rule re.compile() rejects
  Malformed,          \* content, or a preview, of the wrong type
  Marker,             \* "[REDACTED]", longer than the word it replaces
  MarkerWords,        \* of a content signal: the words its regular expression finds
  References,         \* approved_access_policies of the gate's boundary
  MaxRetention,       \* MAX_RETENTION_DAYS
  MaxInput,           \* 100000, the longest model input the oracle accepts
  Records,            \* the records the gate is given
  Configurations,     \* the configurations in force
  MaxRecords,         \* bound: authorizations in a behaviour
  LastDay             \* bound: days that pass

Fields == {"prompt_preview", "response_preview"}

\* A field name, a pattern (here: the word it matches), or what is no pattern.
Rules == Fields \cup Words \cup {BadPattern}

\* Why a dimension is not assessed.
Reasons == {"content_analysis_disabled", "content_unauthorized", "content_redaction_failed",
            "content_unavailable", "content_redacted", "content_malformed", "content_expired",
            "content_excluded", "dimension_disabled", "invalid_dimension_configuration"}

ASSUME ContentPathAssumption ==
  /\ None \notin Reasons
  /\ Marker \in Seq(Words) /\ Len(Marker) = 2
  /\ Malformed \notin Content \cup {None} /\ BadPattern \notin Words \cup Fields
  /\ MaxRetention \in Nat \ {0} /\ MaxInput \in Nat /\ MaxRecords \in Nat /\ LastDay \in Nat
  /\ None \notin Int
  /\ \A c \in Configurations :
       /\ c.rules \in Seq(Rules) /\ c.max_preview \in Int \cup {None} /\ c.model \in Policies
  /\ \A r \in Records :
       r.content \in Content \cup {None, Malformed} /\ r.day \in Int \cup {None}

INSTANCE PromptQuality

VARIABLES
  config,     \* the configuration in force
  day,        \* the clock, in days
  record,     \* the record being analysed
  decision,   \* the PrivacyDecision about it, with the configuration it was made under
  signals,    \* what extraction returned for it
  assessment, \* what the assessor returned for it
  granted,    \* history: the decisions that allowed content
  records     \* authorizations so far (bounds the model)

pathVars == <<config, day, record, decision, signals, assessment, granted, records>>

-----------------------------------------------------------------------------
(* ConfigurationSchemaOracle.validate, as far as the content path is       *)
(* concerned.                                                              *)

\* Mutant: a repeated feature name is accepted.
ModelAcceptedMutant(p) ==
  /\ Range(p.allowed) \subseteq ContentNames
  /\ p.schema # None /\ p.max_input \in 1..MaxInput
  /\ p.timeout \in 1..600 /\ p.max_attempts \in 1..3
  /\ p.enabled => p.approved /\ p.endpoint # None /\ p.model # None /\ p.allowed # <<>>

\* The model assistance policy; timeouts in tenths of a second.
ModelAccepted(p) ==
  /\ IsInjective(p.allowed) /\ Range(p.allowed) \subseteq ContentNames
  /\ p.schema # None /\ p.max_input \in 1..MaxInput
  /\ p.timeout \in 1..600 /\ p.max_attempts \in 1..3
  /\ p.enabled => p.approved /\ p.endpoint # None /\ p.model # None /\ p.allowed # <<>>

AcceptedByOracle(c) ==
  /\ c.otherwise_valid
  /\ \A d \in PromptDimensions : ValidThreshold(c.dimensions[d])
  /\ c.content =>
       /\ c.accounts # {} /\ c.regions # {} /\ c.reference # None
       /\ c.retention \in 1..MaxRetention /\ c.redaction_required
  /\ c.max_preview # None => c.max_preview > 0
  /\ ModelAccepted(c.model)

-----------------------------------------------------------------------------
(* RuleBasedRedactor.                                                      *)

Substitute(word, words) ==
  Seqs!FlattenSeq([i \in DOMAIN words |-> IF words[i] = word THEN Marker ELSE <<words[i]>>])

\* Every rule in turn, on what the one before it left.
Substituted(rules, words) ==
  LET after[n \in 0..Len(rules)] ==
        IF n = 0 THEN words ELSE Substitute(rules[n], after[n - 1])
  IN after[Len(rules)]

\* Mutant: a rule that names the other field ends the redaction.
MaskedMutant(text, field, rules) ==
  IF text = None \/ field \in Range(rules) THEN None
  ELSE IF Range(rules) \cap Fields # {} THEN text
  ELSE Substituted(rules, text)

\* A rule that names the field drops it; every other rule is applied to it.
Masked(text, field, rules) ==
  IF text = None \/ field \in Range(rules) THEN None
  ELSE Substituted(rules, text)

Bounded(text, c) ==
  IF text = None \/ c.max_preview = None THEN text ELSE Cut(text, c.max_preview)

Redactable(c) == BadPattern \notin Range(c.rules)

\* Mutant: the preview is bounded first, then redacted.
RedactMutant(previews, c) ==
  [prompt   |-> Masked(Bounded(previews.prompt, c), "prompt_preview", c.rules),
   response |-> Masked(Bounded(previews.response, c), "response_preview", c.rules),
   status   |-> "redacted"]

\* The rules first, then the bound.
Redact(previews, c) ==
  [prompt   |-> Bounded(Masked(previews.prompt, "prompt_preview", c.rules), c),
   response |-> Bounded(Masked(previews.response, "response_preview", c.rules), c),
   status   |-> "redacted"]

\* The adapter is called with no content, or with what the gate hands on.
ASSUME GateContents ==
  /\ None \in Contents
  /\ \A r \in Records, c \in Configurations :
       r.content \in {None, Malformed} \/ Redact(r.content, c) \in Contents

-----------------------------------------------------------------------------
(* DefaultPrivacyGate.                                                     *)

ContentError(previews) ==
  IF previews = None THEN "content_unavailable"
  ELSE IF previews = Malformed THEN "content_malformed"
  ELSE IF previews.status = "failed" THEN "redaction_failed"
  ELSE IF Truthy(previews.prompt) \/ Truthy(previews.response) THEN "none"
  ELSE IF previews.status = "redacted" THEN "content_redacted" ELSE "content_unavailable"

\* A record without a timestamp does not expire.
IsExpired(r, c, now) == r.day # None /\ now - r.day > c.retention

\* Why content is not handed on, in the order of the checks of authorize().
Denial(r, c, now) ==
  IF ~AcceptedByOracle(c) THEN "content_policy_blocked"
  ELSE IF ~c.enabled \/ ~c.content THEN "content_disabled"
  ELSE IF r.account \notin c.accounts \/ r.region \notin c.regions THEN "content_policy_blocked"
  ELSE IF c.reference \notin References THEN "content_policy_blocked"
  ELSE IF IsExpired(r, c, now) THEN "content_expired"
  ELSE IF ContentError(r.content) # "none" THEN ContentError(r.content)
  ELSE IF ~c.redaction_required \/ ~Redactable(c) THEN "redaction_failed"
  ELSE IF Redact(r.content, c).prompt = None /\ Redact(r.content, c).response = None
       THEN "content_excluded"
  ELSE ContentError(Redact(r.content, c))

\* Mutant: a denial hands the content on.
GateMutant(r, c, now) ==
  LET denial == Denial(r, c, now) IN
  [allowed |-> denial = "none", state |-> IF denial = "none" THEN "available" ELSE denial,
   content |-> IF r.content \in {None, Malformed} \/ ~Redactable(c) THEN None
               ELSE Redact(r.content, c)]

\* authorize(): a denied decision carries no content.
Gate(r, c, now) ==
  LET denial == Denial(r, c, now) IN
  IF denial = "none"
  THEN [allowed |-> TRUE, state |-> "available", content |-> Redact(r.content, c)]
  ELSE [allowed |-> FALSE, state |-> denial, content |-> None]

-----------------------------------------------------------------------------
(* SignalExtractor.                                                        *)

\* Mutant: the configured state is not looked at.
ContentAvailabilityMutant(previews, c) ==
  IF previews = None THEN "unavailable"
  ELSE IF previews.prompt = None THEN "unavailable"
  ELSE IF c.redaction_required /\ previews.status # "redacted" THEN "redacted"
  ELSE IF c.max_preview # None /\ Len(previews.prompt) > c.max_preview THEN "malformed"
  ELSE "available"

\* What _content_value finds: whether the prompt may be read.
ContentAvailability(previews, c) ==
  IF ~c.content \/ previews = None THEN "unavailable"
  ELSE IF previews.prompt = None THEN "unavailable"
  ELSE IF c.redaction_required /\ previews.status # "redacted" THEN "redacted"
  ELSE IF c.max_preview # None /\ Len(previews.prompt) > c.max_preview THEN "malformed"
  ELSE "available"

ContentValue(n, previews, c) ==
  LET availability == ContentAvailability(previews, c) IN
  [availability |-> availability,
   value |-> availability = "available"
               /\ Range(previews.prompt) \cap MarkerWords[n] # {}]

DirectValue(n, r) ==
  [availability |-> IF n \in r.direct THEN "available" ELSE "unavailable",
   value |-> n \in r.direct]

\* extract() of the record with previews in place of its content; c.active are the names
\* with an enabled definition that an enabled category lists.
Extracted(r, previews, c) ==
  [n \in (IF c.enabled THEN c.active ELSE {}) |->
     IF n \in ContentNames THEN ContentValue(n, previews, c) ELSE DirectValue(n, r)]

-----------------------------------------------------------------------------
(* DeterministicPromptAssessor.                                            *)

PrivacyReason(state) ==
  CASE state = "content_disabled" -> "content_analysis_disabled"
    [] state = "content_policy_blocked" -> "content_unauthorized"
    [] state = "redaction_failed" -> "content_redaction_failed"
    [] OTHER -> state

\* assess() of the decision itself, with the dimensions' settings of c.
Assessed(d, c) ==
  IF ~(c.enabled /\ c.content) THEN NotAssessedAll("content_analysis_disabled")
  ELSE IF ~d.allowed THEN NotAssessedAll(PrivacyReason(d.state))
  ELSE IF Collapsed(d.content.prompt) = <<>> THEN NotAssessedAll("content_unavailable")
  ELSE AssessedAll(d.content.prompt, c.dimensions)

-----------------------------------------------------------------------------
(* The caller.                                                             *)

PathInit ==
  /\ Init
  /\ config \in Configurations /\ day = 0
  /\ record = None /\ decision = None /\ signals = None /\ assessment = None
  /\ granted = {} /\ records = 0

Authorize(r) ==
  LET d == Gate(r, config, day) IN
  /\ pc = "idle" /\ records < MaxRecords
  /\ records' = records + 1
  /\ record' = r
  /\ decision' = [allowed |-> d.allowed, state |-> d.state, content |-> d.content,
                  under |-> config]
  /\ granted' = IF d.allowed
                THEN granted \cup {[record |-> r, content |-> d.content, under |-> config,
                                    day |-> day]}
                ELSE granted
  /\ signals' = None /\ assessment' = None
  /\ UNCHANGED <<vars, config, day>>

\* replace(decision.record, sensitive_content=decision.content)
Extract ==
  /\ pc = "idle" /\ decision # None
  /\ signals' = [of |-> Extracted(record, decision.content, config), under |-> config]
  /\ UNCHANGED <<vars, config, day, record, decision, assessment, granted, records>>

Assess ==
  /\ pc = "idle" /\ decision # None
  /\ assessment' = [of |-> Assessed(decision, config), under |-> config]
  /\ UNCHANGED <<vars, config, day, record, decision, signals, granted, records>>

Advise ==
  /\ decision # None
  /\ Refuse(decision.content, config.model) \/ Begin(decision.content, config.model)
  /\ UNCHANGED pathVars

Invocation == InvokeStep /\ UNCHANGED pathVars

\* A new configuration is stored, accepted by the oracle or not.
Reconfigure(c) ==
  /\ config # c
  /\ config' = c
  /\ UNCHANGED <<vars, day, record, decision, signals, assessment, granted, records>>

NextDay ==
  /\ day < LastDay
  /\ day' = day + 1
  /\ UNCHANGED <<vars, config, record, decision, signals, assessment, granted, records>>

PathNext ==
  \/ \E r \in Records : Authorize(r)
  \/ Extract \/ Assess \/ Advise \/ Invocation
  \/ \E c \in Configurations : Reconfigure(c)
  \/ NextDay

PathSpec == PathInit /\ [][PathNext]_<<vars, pathVars>>

-----------------------------------------------------------------------------
(* Properties.                                                             *)

Excluded(c) == Range(c.rules) \ Range(Marker)

ContentSignals(s) == ContentNames \cap DOMAIN s.of

Used(s) == {n \in ContentSignals(s) : s.of[n].availability = "available"}

Scored(a) == {d \in DOMAIN a.of : a.of[d].status = "assessed"}

\* What a model endpoint receives was allowed by the gate, for a record of an approved
\* account and region that had not expired, under a configuration the oracle accepts; it
\* holds no word an exclusion rule matches, nothing of an excluded field, and no more of
\* either preview than max_preview_length.
NothingExcludedLeaves ==
  \A d \in received : \E g \in granted :
    LET text(p) == Range(p) IN
    /\ d.content = g.content
    /\ AcceptedByOracle(g.under) /\ g.under.enabled /\ g.under.content
    /\ g.record.account \in g.under.accounts /\ g.record.region \in g.under.regions
    /\ g.record.day # None => g.day <= g.record.day + g.under.retention
    /\ (text(d.request.prompt) \cup text(d.request.response)) \cap Excluded(g.under) = {}
    /\ "prompt_preview" \in Range(g.under.rules) => d.request.prompt = <<>>
    /\ "response_preview" \in Range(g.under.rules) => d.request.response = <<>>
    /\ g.under.max_preview # None =>
         /\ Len(d.request.prompt) <= g.under.max_preview
         /\ Len(d.request.response) <= g.under.max_preview

\* A denied record is analysed as one without content: no content-derived signal is
\* available, nothing is assessed, and no model request is made; its other signals are those
\* of the record.
DeniedContentIsInvisible ==
  decision # None /\ ~decision.allowed =>
    /\ signals # None =>
         /\ Used(signals) = {}
         /\ \A n \in DOMAIN signals.of \ ContentNames :
              signals.of[n].value = (n \in record.direct)
    /\ assessment # None => Scored(assessment) = {}
    /\ pc = "idle"

\* The consumers agree with the gate and with each other under the configuration the gate
\* decided under: extraction never finds allowed content unredacted or too long, what is
\* assessed is also extracted, and the adapter never takes allowed content for unredacted.
ConsumersAgree ==
  /\ decision # None /\ decision.allowed /\ signals # None
       /\ signals.under = decision.under =>
         /\ \A n \in ContentSignals(signals) :
              signals.of[n].availability \in {"available", "unavailable"}
         /\ assessment # None /\ assessment.under = decision.under
              /\ Scored(assessment) # {} => Used(signals) = ContentSignals(signals)
  /\ answer # None /\ answer.code = "content_redacted" => content = None

\* Disabling content analysis is effective at once for signals and assessments, whatever the
\* gate decided under an earlier configuration.
DisablingIsImmediate ==
  /\ signals # None /\ ~(signals.under.enabled /\ signals.under.content) => Used(signals) = {}
  /\ assessment # None /\ ~(assessment.under.enabled /\ assessment.under.content) =>
       Scored(assessment) = {}

\* The configuration oracle and the stages agree: a policy the oracle accepts is never
\* refused by the adapter as invalid or unapproved, and under an accepted configuration the
\* gate speaks of a failed redaction only if the source's failed or a rule is no pattern.
AcceptedConfigurationsWork ==
  /\ answer # None /\ answer.code \in {"model_policy_invalid", "model_approval_required"} =>
       ~ModelAccepted(policy)
  /\ decision # None /\ decision.state = "redaction_failed" =>
       \/ record.content # Malformed /\ record.content.status = "failed"
       \/ ~Redactable(decision.under)

\* What the assessor returns is sound: the oracle finds no fault with it; the five dimensions
\* do not touch each other, so that a dimension says the same under every configuration that
\* lets the assessor run and sets that dimension alike, whatever is disabled or invalid beside
\* it; and a dimension scores nothing exactly when it has no evidence.
AssessmentsAreSound ==
  assessment # None =>
    /\ DOMAIN assessment.of = PromptDimensions /\ PromptQualityIssues(assessment.of) = {}
    /\ Scored(assessment) # {} =>
         \A c \in Configurations : c.enabled /\ c.content =>
           \A d \in PromptDimensions : c.dimensions[d] = assessment.under.dimensions[d] =>
             Assessed(decision, c)[d] = assessment.of[d]
    /\ \A d \in Scored(assessment) :
         (assessment.of[d].score = 0) = (assessment.of[d].band = "low")

=============================================================================
