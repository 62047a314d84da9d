--------------------------- MODULE ContentPath_proofs ---------------------------
(***************************************************************************)
(* For any records, configurations and prompts, whatever is reconfigured   *)
(* between the stages: what a denial and a switched-off content analysis   *)
(* do to the stages behind the gate, what an assessment says, and what of  *)
(* a preview reaches an endpoint.  The composition implements the adapter  *)
(* on its own, so its theorems hold here.                                  *)
(***************************************************************************)
EXTENDS ContentPath, ModelAssist_proofs

-----------------------------------------------------------------------------
(* The scores.                                                             *)

\* What the regular expressions count: nothing negative, and at least one sentence.
CountsAreNatural ==
  \A prompt : /\ Features(prompt) \in [FeatureNames -> Nat]
              /\ Features(prompt).sentences >= 1

LEMMA ShareFacts ==
  ASSUME NEW n \in Nat, NEW enough \in {2, 3, 4}
  PROVE  Share(n, enough) \in 0..One /\ (Share(n, enough) = 0 <=> n = 0)
BY DEF Share, AtMost, One

LEMMA ClarityFacts ==
  ASSUME NEW f \in [FeatureNames -> Nat], f.sentences >= 1
  PROVE  Clarity(f) \in 1..One /\ f.words + f.sentences \in Nat \ {0}
<1>1. f.words \in Nat /\ f.sentences \in Nat /\ f.punctuation_issues \in Nat
  BY DEF FeatureNames
<1>2. AtMost(f.words, 12) \in 0..12 /\ AtMost(f.punctuation_issues, 4) \in 0..4
  BY <1>1 DEF AtMost
<1>3. (IF GoodSentences(f) THEN 540 ELSE 378) \in {540, 378}
  OBVIOUS
<1> QED BY <1>1, <1>2, <1>3 DEF Clarity, One

\* A score is in its bounds, and nothing exactly without evidence.
LEMMA ScoreFacts ==
  ASSUME NEW f \in [FeatureNames -> Nat], f.sentences >= 1, NEW d \in PromptDimensions
  PROVE  /\ ScoreOf(d, f) \in 0..One /\ EvidenceOf(d, f) \in Nat
         /\ ScoreOf(d, f) = 0 <=> EvidenceOf(d, f) = 0
<1>1. /\ f.action_markers \in Nat /\ f.context_markers \in Nat /\ f.output_markers \in Nat
      /\ f.specificity_markers \in Nat /\ f.specificity_markers + f.context_markers \in Nat
  BY DEF FeatureNames
<1>2. CASE d = "clarity"
  BY <1>2, ClarityFacts DEF ScoreOf, EvidenceOf
<1>3. CASE d = "specificity"
  BY <1>1, <1>3, ShareFacts DEF ScoreOf, EvidenceOf
<1>4. CASE d = "context_completeness"
  BY <1>1, <1>4, ShareFacts DEF ScoreOf, EvidenceOf
<1>5. CASE d = "task_definition"
  BY <1>1, <1>5, ShareFacts DEF ScoreOf, EvidenceOf
<1>6. CASE d = "output_constraints"
  BY <1>1, <1>6, ShareFacts DEF ScoreOf, EvidenceOf
<1> QED BY <1>2, <1>3, <1>4, <1>5, <1>6 DEF PromptDimensions

LEMMA ConfidenceFacts ==
  ASSUME NEW n \in Nat
  PROVE  Confidence(n) \in {"low", "medium", "high"} /\ (Confidence(n) = "low" <=> n = 0)
BY DEF Confidence

\* What is said of one dimension, with a score or without.
SoundDimension(result) ==
  \/ /\ result.status = "assessed" /\ result.score \in 0..One
     /\ result.band \in {"low", "medium", "high"}
     /\ result.score = 0 <=> result.band = "low"
  \/ /\ result.status = "not_assessed" /\ result.score = None /\ result.band = None
     /\ result.reason # None

LEMMA DimensionIsSound ==
  ASSUME CountsAreNatural, NEW d \in PromptDimensions, NEW prompt, NEW settings
  PROVE  SoundDimension(AssessedDimension(d, prompt, settings))
<1> DEFINE f == Features(prompt)
<1>1. f \in [FeatureNames -> Nat] /\ f.sentences >= 1
  BY DEF CountsAreNatural
<1> HIDE DEF f
<1>2. /\ ScoreOf(d, f) \in 0..One /\ EvidenceOf(d, f) \in Nat
      /\ ScoreOf(d, f) = 0 <=> EvidenceOf(d, f) = 0
  BY <1>1, ScoreFacts
<1>3. /\ Confidence(EvidenceOf(d, f)) \in {"low", "medium", "high"}
      /\ Confidence(EvidenceOf(d, f)) = "low" <=> EvidenceOf(d, f) = 0
  BY <1>2, ConfidenceFacts
<1>4. None # "dimension_disabled" /\ None # "invalid_dimension_configuration"
  BY ContentPathAssumption DEF Reasons
<1> QED BY <1>2, <1>3, <1>4 DEF f, AssessedDimension, NotAssessed, SoundDimension

-----------------------------------------------------------------------------
(* The redactor.                                                           *)

\* Every word but the one a rule matches stays; what replaces it is the marker.
LEMMA SubstituteFacts ==
  ASSUME NEW word, NEW words \in Seq(Words)
  PROVE  /\ Substitute(word, words) \in Seq(Words)
         /\ Range(Substitute(word, words)) \subseteq (Range(words) \ {word}) \cup Range(Marker)
<1> DEFINE T == (Range(words) \ {word}) \cup Range(Marker)
           seqs == [i \in DOMAIN words |-> IF words[i] = word THEN Marker ELSE <<words[i]>>]
<1>1. DOMAIN words = 1..Len(words) /\ Len(words) \in Nat
  OBVIOUS
<1>2. Marker \in Seq(T) /\ Marker \in Seq(Words)
  <2>1. Marker \in Seq(Words)
    BY ContentPathAssumption
  <2>2. \A i \in 1..Len(Marker) : Marker[i] \in T
    BY <2>1 DEF Range
  <2> HIDE DEF T
  <2> QED BY <2>1, <2>2
<1>3. \A i \in DOMAIN words : words[i] # word => <<words[i]>> \in Seq(T)
  <2>1. \A i \in DOMAIN words : words[i] # word => words[i] \in T
    BY DEF Range
  <2> HIDE DEF T
  <2> QED BY <2>1
<1>4. T \subseteq Words
  BY <1>1, <1>2 DEF Range
<1> HIDE DEF T
<1>5. seqs \in Seq(Seq(T))
  BY <1>1, <1>2, <1>3
<1> HIDE DEF seqs
<1>6. Seqs!FlattenSeq(seqs) \in Seq(T)
  BY <1>5, FlattenFacts
<1>7. Substitute(word, words) \in Seq(T)
  BY <1>6 DEF Substitute, seqs
<1>8. Range(Substitute(word, words)) \subseteq T
  BY <1>7 DEF Range
<1>9. Substitute(word, words) \in Seq(Words)
  BY <1>4, <1>7, SeqMonotonic
<1> QED BY <1>8, <1>9 DEF T

\* After all rules no word one of them matches is left, but for those of the marker.
LEMMA SubstitutedFacts ==
  ASSUME NEW R, NEW rules \in Seq(R), NEW words \in Seq(Words)
  PROVE  /\ Substituted(rules, words) \in Seq(Words)
         /\ Range(Substituted(rules, words)) \cap (Range(rules) \ Range(Marker)) = {}
<1> DEFINE N == Len(rules)
           Upto(k, f) == f = [n \in 0..k |->
                                IF n = 0 THEN words ELSE Substitute(rules[n], f[n - 1])]
           after == CHOOSE f : Upto(N, f)
<1>1. Substituted(rules, words) = after[N] /\ N \in Nat
  BY DEF Substituted
<1>2. \E f : Upto(N, f)
  <2> DEFINE A == {k \in Nat : \E f : Upto(k, f)}
  <2>1. 0 \in A
    <3>1. Upto(0, [n \in 0..0 |-> words])
      OBVIOUS
    <3> HIDE DEF Upto
    <3> QED BY <3>1
  <2>2. ASSUME NEW k \in Nat, k \in A PROVE k + 1 \in A
    <3>1. PICK f : Upto(k, f)
      BY <2>2
    <3> DEFINE g == [n \in 0..(k + 1) |->
                       IF n = k + 1 THEN Substitute(rules[n], f[k]) ELSE f[n]]
    <3>2. ASSUME NEW n \in 0..(k + 1)
          PROVE  g[n] = IF n = 0 THEN words ELSE Substitute(rules[n], g[n - 1])
      <4>1. CASE n = k + 1
        <5>1. n - 1 = k /\ k \in 0..(k + 1) /\ k # k + 1 /\ n # 0
          BY <4>1
        <5>2. g[n - 1] = f[k]
          BY <5>1
        <5> QED BY <4>1, <5>1, <5>2
      <4>2. CASE n # k + 1
        <5>1. n \in 0..k /\ g[n] = f[n]
          BY <4>2
        <5>2. f[n] = IF n = 0 THEN words ELSE Substitute(rules[n], f[n - 1])
          BY <3>1, <5>1
        <5>3. CASE n # 0
          <6>1. n - 1 \in 0..(k + 1) /\ n - 1 # k + 1
            BY <5>1, <5>3
          <6> QED BY <5>1, <5>2, <5>3, <6>1
        <5> QED BY <5>1, <5>2, <5>3
      <4> QED BY <4>1, <4>2
    <3>3. Upto(k + 1, g)
      BY <3>2
    <3> HIDE DEF Upto, g
    <3> QED BY <3>3
  <2>3. Nat \subseteq A
    <3> HIDE DEF A
    <3> QED BY <2>1, <2>2, NatSetInduction
  <2> QED BY <1>1, <2>3
<1>3. Upto(N, after)
  <2> HIDE DEF Upto
  <2> QED BY <1>2
<1> HIDE DEF after
<1>4. after[0] = words /\ \A n \in 1..N : after[n] = Substitute(rules[n], after[n - 1])
  <2>1. \A n \in 0..N : after[n] = IF n = 0 THEN words ELSE Substitute(rules[n], after[n - 1])
    BY <1>3
  <2>2. 0 \in 0..N /\ \A n \in 1..N : n \in 0..N /\ n # 0
    BY <1>1
  <2> QED BY <2>1, <2>2
<1> HIDE DEF Upto
<1> DEFINE Gone(k) == \A n \in 1..k : rules[n] \in Range(after[k]) => rules[n] \in Range(Marker)
           B == {k \in Nat : k \in 0..N => after[k] \in Seq(Words) /\ Gone(k)}
<1>5. 0 \in B
  BY <1>4
<1>6. ASSUME NEW k \in Nat, k \in B PROVE k + 1 \in B
  <2> SUFFICES ASSUME k + 1 \in 0..N PROVE after[k + 1] \in Seq(Words) /\ Gone(k + 1)
    OBVIOUS
  <2>1. after[k] \in Seq(Words) /\ Gone(k)
    BY <1>1, <1>6
  <2>2. after[k + 1] = Substitute(rules[k + 1], after[k])
    <3>1. k + 1 \in 1..N /\ (k + 1) - 1 = k
      BY <1>1
    <3> QED BY <1>4, <3>1
  <2>3. /\ after[k + 1] \in Seq(Words)
        /\ Range(after[k + 1]) \subseteq (Range(after[k]) \ {rules[k + 1]}) \cup Range(Marker)
    BY <2>1, <2>2, SubstituteFacts
  <2>4. Gone(k + 1)
    BY <2>1, <2>3
  <2> QED BY <2>3, <2>4
<1>7. Nat \subseteq B
  <2> HIDE DEF B
  <2> QED BY <1>5, <1>6, NatSetInduction
<1>8. after[N] \in Seq(Words) /\ Gone(N)
  BY <1>1, <1>7
<1>9. Range(rules) = {rules[n] : n \in 1..N}
  BY DEF Range
<1> QED BY <1>1, <1>8, <1>9

\* A rule that names the field leaves nothing of it; every other rule leaves no word it matches.
LEMMA MaskedFacts ==
  ASSUME NEW c \in Configurations, NEW text \in Preview \cup {None}, NEW field
  PROVE  LET masked == Masked(text, field, c.rules) IN
         /\ masked \in Preview \cup {None}
         /\ field \in Range(c.rules) => masked = None
         /\ masked # None => Range(masked) \cap Excluded(c) = {}
<1>1. c.rules \in Seq(Rules)
  BY ContentPathAssumption
<1>2. CASE text = None \/ field \in Range(c.rules)
  BY <1>2 DEF Masked
<1>3. CASE ~(text = None \/ field \in Range(c.rules))
  <2>1. text \in Seq(Words)
    BY <1>3 DEF Preview
  <2> DEFINE left == Substituted(c.rules, text)
  <2>2. left \in Seq(Words) /\ Range(left) \cap (Range(c.rules) \ Range(Marker)) = {}
    BY <1>1, <2>1, SubstitutedFacts
  <2>3. Masked(text, field, c.rules) = left
    BY <1>3 DEF Masked
  <2> HIDE DEF left
  <2> QED BY <1>3, <2>2, <2>3 DEF Excluded, Preview
<1> QED BY <1>2, <1>3

\* The bound holds for what is left, which holds no other words.
LEMMA BoundedFacts ==
  ASSUME NEW c \in Configurations, c.max_preview # None => c.max_preview > 0,
         NEW text \in Preview \cup {None}
  PROVE  LET bounded == Bounded(text, c) IN
         /\ bounded \in Preview \cup {None}
         /\ bounded = None <=> text = None
         /\ bounded # None =>
              /\ Range(bounded) \subseteq Range(text)
              /\ c.max_preview # None => Len(bounded) <= c.max_preview
<1>1. CASE c.max_preview = None \/ text = None
  BY <1>1 DEF Bounded
<1>2. CASE c.max_preview # None /\ text # None
  <2> DEFINE n == c.max_preview
             left == Cut(text, n)
  <2>1. n \in Nat
    BY <1>2, ContentPathAssumption
  <2>2. text \in Seq(Words)
    BY <1>2 DEF Preview
  <2>3. left \in Seq(Words) /\ Len(left) <= n /\ Range(left) \subseteq Range(text)
    BY <2>1, <2>2, CutFacts
  <2>4. Bounded(text, c) = left
    BY <1>2 DEF Bounded
  <2>5. None \notin Preview
    BY ModelAssistAssumption
  <2> HIDE DEF left
  <2> QED BY <1>2, <2>3, <2>4, <2>5 DEF Preview
<1> QED BY <1>1, <1>2

\* What is left of one preview of a record.
Redacted(text, field, c) ==
  /\ text \in Preview \cup {None}
  /\ field \in Range(c.rules) => text = None
  /\ text # None =>
       /\ Range(text) \cap Excluded(c) = {}
       /\ c.max_preview # None => Len(text) <= c.max_preview

LEMMA RedactFacts ==
  ASSUME NEW c \in Configurations, c.max_preview # None => c.max_preview > 0,
         NEW previews \in Content
  PROVE  LET redacted == Redact(previews, c) IN
         /\ redacted \in Content /\ redacted.status = "redacted"
         /\ Redacted(redacted.prompt, "prompt_preview", c)
         /\ Redacted(redacted.response, "response_preview", c)
<1>1. ASSUME NEW text \in Preview \cup {None}, NEW field
      PROVE  Redacted(Bounded(Masked(text, field, c.rules), c), field, c)
  <2> DEFINE masked == Masked(text, field, c.rules)
  <2>1. /\ masked \in Preview \cup {None}
        /\ field \in Range(c.rules) => masked = None
        /\ masked # None => Range(masked) \cap Excluded(c) = {}
    BY MaskedFacts
  <2> HIDE DEF masked
  <2>2. LET bounded == Bounded(masked, c) IN
        /\ bounded \in Preview \cup {None}
        /\ bounded = None <=> masked = None
        /\ bounded # None =>
             /\ Range(bounded) \subseteq Range(masked)
             /\ c.max_preview # None => Len(bounded) <= c.max_preview
    BY <2>1, BoundedFacts
  <2> QED BY <2>1, <2>2 DEF Redacted, masked
<1>2. previews.prompt \in Preview \cup {None} /\ previews.response \in Preview \cup {None}
  BY DEF Content
<1>3. /\ Redacted(Redact(previews, c).prompt, "prompt_preview", c)
      /\ Redacted(Redact(previews, c).response, "response_preview", c)
      /\ Redact(previews, c).status = "redacted"
  BY <1>1, <1>2 DEF Redact
<1>4. Redact(previews, c) \in Content
  <2>1. \A prompt, response \in Preview \cup {None} :
          [prompt |-> prompt, response |-> response, status |-> "redacted"] \in Content
    BY DEF Content
  <2>2. /\ Redact(previews, c).prompt \in Preview \cup {None}
        /\ Redact(previews, c).response \in Preview \cup {None}
    BY <1>3 DEF Redacted
  <2> QED BY <2>1, <2>2 DEF Redact
<1> QED BY <1>3, <1>4

-----------------------------------------------------------------------------
(* The gate and the stages behind it.                                      *)

Denials == {"content_policy_blocked", "content_disabled", "content_unavailable",
            "content_malformed", "redaction_failed", "content_redacted", "content_expired",
            "content_excluded"}

LEMMA ContentErrors ==
  ASSUME NEW previews
  PROVE  /\ ContentError(previews) \in Denials \cup {"none"}
         /\ ContentError(previews) = "redaction_failed" =>
              previews # Malformed /\ previews.status = "failed"
BY DEF ContentError, Denials

\* Why content is denied; a failed redaction is the source's, or a rule is no pattern.
LEMMA DenialFacts ==
  ASSUME NEW r, NEW c, NEW now
  PROVE  /\ Denial(r, c, now) \in Denials \cup {"none"}
         /\ Denial(r, c, now) = "redaction_failed" =>
              \/ r.content # Malformed /\ r.content.status = "failed"
              \/ ~Redactable(c)
<1> DEFINE denial == Denial(r, c, now)
<1>1. CASE ~AcceptedByOracle(c)
  BY <1>1 DEF Denial, Denials
<1>2. CASE AcceptedByOracle(c) /\ ~(c.enabled /\ c.content)
  BY <1>2 DEF Denial, Denials
<1>3. CASE AcceptedByOracle(c) /\ c.enabled /\ c.content
  <2>1. c.redaction_required
    BY <1>3 DEF AcceptedByOracle
  <2>2. CASE \/ r.account \notin c.accounts \/ r.region \notin c.regions
             \/ c.reference \notin References
    BY <1>3, <2>2 DEF Denial, Denials
  <2>3. CASE /\ r.account \in c.accounts /\ r.region \in c.regions
             /\ c.reference \in References /\ IsExpired(r, c, now)
    BY <1>3, <2>3 DEF Denial, Denials
  <2>4. CASE /\ r.account \in c.accounts /\ r.region \in c.regions
             /\ c.reference \in References /\ ~IsExpired(r, c, now)
    <3>1. denial = IF ContentError(r.content) # "none" THEN ContentError(r.content)
                   ELSE IF ~Redactable(c) THEN "redaction_failed"
                   ELSE IF /\ Redact(r.content, c).prompt = None
                           /\ Redact(r.content, c).response = None
                        THEN "content_excluded"
                   ELSE ContentError(Redact(r.content, c))
      BY <1>3, <2>1, <2>4 DEF Denial
    <3>2. Redact(r.content, c).status # "failed"
      BY DEF Redact
    <3>3. /\ denial \in {ContentError(r.content), "redaction_failed", "content_excluded",
                         ContentError(Redact(r.content, c))}
      BY <3>1
    <3>4. denial \in Denials \cup {"none"}
      BY <3>3, ContentErrors DEF Denials
    <3>5. ContentError(Redact(r.content, c)) # "redaction_failed"
      BY <3>2, ContentErrors
    <3>6. ContentError(r.content) = "redaction_failed" =>
            r.content # Malformed /\ r.content.status = "failed"
      BY ContentErrors
    <3> HIDE DEF denial
    <3>7. denial = "redaction_failed" =>
            \/ r.content # Malformed /\ r.content.status = "failed"
            \/ ~Redactable(c)
      BY <3>1, <3>5, <3>6
    <3> QED BY <3>4, <3>7 DEF denial
  <2> QED BY <2>2, <2>3, <2>4
<1> QED BY <1>1, <1>2, <1>3

DecisionOK(d, r) ==
  /\ ~d.allowed => d.content = None /\ d.state \in Denials
  /\ d.state = "redaction_failed" =>
       \/ r.content # Malformed /\ r.content.status = "failed"
       \/ ~Redactable(d.under)

\* Every stage holds what it made of the decision now held; a call of the model is under way
\* only for allowed content; and an answer about the policy is about one the oracle rejects.
StagesHold ==
  /\ decision # None => DecisionOK(decision, record)
  /\ signals # None =>
       decision # None /\ signals.of = Extracted(record, decision.content, signals.under)
  /\ assessment # None =>
       decision # None /\ assessment.of = Assessed(decision, assessment.under)
  /\ pc # "idle" => decision # None /\ decision.allowed
  /\ answer # None /\ answer.code \in {"model_policy_invalid", "model_approval_required"} =>
       ~ModelAccepted(policy)

LEMMA InitEstablishes == PathInit => StagesHold
BY DEF PathInit, Init, StagesHold

LEMMA RefusedPolicies ==
  ASSUME NEW c, NEW p, Refusal(c, p) \in {"model_policy_invalid", "model_approval_required"}
  PROVE  ~ModelAccepted(p)
<1> SUFFICES ASSUME ModelAccepted(p) PROVE FALSE
  OBVIOUS
<1>1. p.enabled
  BY DEF Refusal
<1>2. /\ p.approved /\ p.endpoint # None /\ p.model # None /\ p.allowed # <<>>
      /\ p.schema # None
  BY <1>1, Zenon DEF ModelAccepted
<1>3. IsInjective(p.allowed) /\ Range(p.allowed) \subseteq ContentNames
  BY Zenon DEF ModelAccepted
<1>4. p.max_input \in 1..MaxInput /\ p.timeout \in 1..600 /\ p.max_attempts \in 1..3
  BY Zenon DEF ModelAccepted
<1>5. p.max_input >= 1 /\ p.timeout > 0 /\ p.max_attempts >= 1
  <2>1. MaxInput \in Nat
    BY ContentPathAssumption
  <2> QED BY <1>4, <2>1
<1>6. ValidPolicy(p)
  BY <1>2, <1>3, <1>5 DEF ValidPolicy
<1>7. Refusal(c, p) \in {"endpoint_rejected", "content_redacted", "none"}
  BY <1>1, <1>2, <1>6 DEF Refusal
<1> QED BY <1>7

LEMMA AuthorizeKeeps ==
  ASSUME StagesHold, NEW r \in Records, Authorize(r)
  PROVE  StagesHold'
<1>1. /\ pc' = "idle" /\ signals' = None /\ assessment' = None /\ record' = r
      /\ answer' = answer /\ policy' = policy
  BY DEF Authorize, vars
<1>2. DecisionOK(decision', r)
  <2> DEFINE d == Gate(r, config, day)
  <2>1. /\ decision'.allowed = d.allowed /\ decision'.state = d.state
        /\ decision'.content = d.content /\ decision'.under = config
    BY DEF Authorize
  <2>2. CASE Denial(r, config, day) = "none"
    BY <2>1, <2>2 DEF Gate, DecisionOK
  <2>3. CASE Denial(r, config, day) # "none"
    <3>1. d.allowed = FALSE /\ d.content = None /\ d.state = Denial(r, config, day)
      BY <2>3 DEF Gate
    <3> QED BY <2>1, <2>3, <3>1, DenialFacts DEF DecisionOK
  <2> QED BY <2>2, <2>3
<1> QED BY <1>1, <1>2 DEF StagesHold

LEMMA NextKeeps == StagesHold /\ [PathNext]_<<vars, pathVars>> => StagesHold'
<1> SUFFICES ASSUME StagesHold, [PathNext]_<<vars, pathVars>> PROVE StagesHold'
  OBVIOUS
<1>1. ASSUME NEW r \in Records, Authorize(r) PROVE StagesHold'
  BY <1>1, AuthorizeKeeps
<1>2. CASE Extract
  BY <1>2 DEF Extract, vars, StagesHold
<1>3. CASE Assess
  BY <1>3 DEF Assess, vars, StagesHold
<1>4. CASE Advise
  <2>1. /\ decision' = decision /\ record' = record /\ signals' = signals
        /\ assessment' = assessment /\ decision # None
    BY <1>4 DEF Advise, pathVars
  <2>2. CASE Refuse(decision.content, config.model)
    <3>1. /\ pc' = pc /\ policy' = config.model
          /\ answer'.code = Refusal(decision.content, config.model)
      BY <2>2 DEF Refuse, Arguments, ModelError
    <3> QED BY <2>1, <3>1, RefusedPolicies DEF StagesHold
  <2>3. CASE Begin(decision.content, config.model)
    <3>1. answer' = None /\ ValidContent(decision.content)
      BY <2>3 DEF Begin, Refusal
    <3>2. decision.allowed
      BY <2>1, <3>1 DEF StagesHold, DecisionOK, ValidContent
    <3> QED BY <2>1, <3>1, <3>2 DEF StagesHold
  <2> QED BY <1>4, <2>2, <2>3 DEF Advise
<1>5. CASE Invocation
  <2>1. /\ decision' = decision /\ record' = record /\ signals' = signals
        /\ assessment' = assessment /\ policy' = policy
        /\ pc # "idle" /\ InvokeStep
    BY <1>5 DEF Invocation, pathVars, InvokeStep, Answered, Raised, Invoke
  <2>2. \/ answer' = answer
        \/ answer'.code \notin {"model_policy_invalid", "model_approval_required"}
    <3>1. ASSUME NEW r \in Responses, Answered(r)
          PROVE  answer'.code \in ResponseCodes \cup {"features"}
      <4>1. ResponseError(r, policy, content) \in ResponseCodes \cup {"none"}
        BY DEF ResponseError, ResponseCodes
      <4> QED BY <3>1, <4>1 DEF Answered, ModelError, ProposedFeatures
    <3>2. CASE Raised
      BY <3>2 DEF Raised, ModelError
    <3> QED BY <2>1, <3>1, <3>2 DEF InvokeStep, ResponseCodes
  <2> QED BY <2>1, <2>2 DEF StagesHold
<1>6. ASSUME NEW c \in Configurations, Reconfigure(c) PROVE StagesHold'
  BY <1>6 DEF Reconfigure, vars, StagesHold
<1>7. CASE NextDay
  BY <1>7 DEF NextDay, vars, StagesHold
<1>8. CASE UNCHANGED <<vars, pathVars>>
  BY <1>8 DEF vars, pathVars, StagesHold
<1> QED BY <1>1, <1>2, <1>3, <1>4, <1>5, <1>6, <1>7, <1>8 DEF PathNext

\* What the stages hold is about the decision now held, whatever happens between them.
THEOREM StagesFollowTheDecision == PathSpec => []StagesHold
BY InitEstablishes, NextKeeps, PTL DEF PathSpec

-----------------------------------------------------------------------------
(* The adapter within the path.                                            *)

\* What the gate lets pass, spelled out.
LEMMA AllowedFacts ==
  ASSUME NEW r, NEW c, NEW now, Denial(r, c, now) = "none"
  PROVE  /\ AcceptedByOracle(c) /\ c.enabled /\ c.content
         /\ r.account \in c.accounts /\ r.region \in c.regions
         /\ ~IsExpired(r, c, now)
         /\ r.content # None /\ r.content # Malformed
         /\ ContentError(Redact(r.content, c)) = "none"
<1>1. AcceptedByOracle(c)
  BY DEF Denial
<1>2. c.enabled /\ c.content
  BY <1>1 DEF Denial
<1>3. /\ r.account \in c.accounts /\ r.region \in c.regions /\ c.reference \in References
  BY <1>1, <1>2 DEF Denial
<1>4. ~IsExpired(r, c, now)
  BY <1>1, <1>2, <1>3 DEF Denial
<1>5. ContentError(r.content) = "none"
  BY <1>1, <1>2, <1>3, <1>4 DEF Denial
<1>6. /\ c.redaction_required /\ Redactable(c)
      /\ ContentError(Redact(r.content, c)) = "none"
  BY <1>1, <1>2, <1>3, <1>4, <1>5 DEF Denial
<1>7. r.content # None /\ r.content # Malformed
  BY <1>5 DEF ContentError
<1> QED BY <1>1, <1>2, <1>3, <1>4, <1>6, <1>7

\* A decision that allowed content, and what it handed on.
IsGrant(g) ==
  /\ g.record \in Records /\ g.under \in Configurations /\ g.day \in Nat
  /\ Denial(g.record, g.under, g.day) = "none"
  /\ g.content = Redact(g.record.content, g.under)

\* What is handed on is redacted, bounded, not empty, and the adapter takes it.
LEMMA GrantFacts ==
  ASSUME NEW g, IsGrant(g)
  PROVE  /\ g.content \in Content /\ ValidContent(g.content)
         /\ Redacted(g.content.prompt, "prompt_preview", g.under)
         /\ Redacted(g.content.response, "response_preview", g.under)
<1>1. /\ AcceptedByOracle(g.under)
      /\ g.record.content # None /\ g.record.content # Malformed
      /\ ContentError(g.content) = "none"
  BY AllowedFacts DEF IsGrant
<1>2. g.record.content \in Content
  BY <1>1, ContentPathAssumption DEF IsGrant
<1>3. g.under.max_preview # None => g.under.max_preview > 0
  BY <1>1 DEF AcceptedByOracle
<1>4. /\ g.content \in Content /\ g.content.status = "redacted"
      /\ Redacted(g.content.prompt, "prompt_preview", g.under)
      /\ Redacted(g.content.response, "response_preview", g.under)
  BY <1>2, <1>3, RedactFacts DEF IsGrant
<1>5. ValidContent(g.content)
  BY <1>1, <1>4 DEF ContentError, ValidContent
<1> QED BY <1>4, <1>5

\* Allowed content is in the history of what was allowed, under the configuration it was allowed
\* under; what the adapter holds and what reached an endpoint was allowed at some time.
HistoryHolds ==
  /\ config \in Configurations /\ day \in Nat
  /\ \A g \in granted : IsGrant(g)
  /\ decision # None /\ decision.allowed =>
       \E g \in granted : g.content = decision.content /\ g.under = decision.under
  /\ pc = "invoke" =>
       /\ policy \in Policies /\ Refusal(content, policy) = "none"
       /\ \E g \in granted : g.content = content
  /\ \A d \in received :
       /\ d.request = BuildRequest(d.content, d.policy)
       /\ d.policy \in Policies /\ ValidPolicy(d.policy)
       /\ \E g \in granted : g.content = d.content
  /\ answer # None /\ answer.code = "content_redacted" => content = None

PathInv == StagesHold /\ HistoryHolds

\* What the decision holds is nothing, or was allowed.
LEMMA DecisionFacts ==
  ASSUME PathInv, decision # None
  PROVE  \/ ~decision.allowed /\ decision.content = None
         \/ /\ decision.allowed /\ ValidContent(decision.content)
            /\ \E g \in granted : g.content = decision.content
<1>1. CASE decision.allowed
  BY <1>1, GrantFacts DEF PathInv, HistoryHolds
<1>2. CASE ~decision.allowed
  BY <1>2 DEF PathInv, StagesHold, DecisionOK
<1> QED BY <1>1, <1>2

LEMMA InitHistory == PathInit => HistoryHolds
BY ContentPathAssumption DEF PathInit, Init, HistoryHolds

LEMMA AuthorizeKeepsHistory ==
  ASSUME PathInv, NEW r \in Records, Authorize(r)
  PROVE  HistoryHolds'
<1> DEFINE d == Gate(r, config, day)
           g == [record |-> r, content |-> d.content, under |-> config, day |-> day]
<1>1. /\ UNCHANGED <<vars, config, day>>
      /\ decision' = [allowed |-> d.allowed, state |-> d.state, content |-> d.content,
                      under |-> config]
      /\ granted' = IF d.allowed THEN granted \cup {g} ELSE granted
  BY DEF Authorize
<1>2. CASE Denial(r, config, day) = "none"
  <2>1. d.allowed /\ d.content = Redact(r.content, config)
    BY <1>2 DEF Gate
  <2>2. IsGrant(g)
    BY <1>2, <2>1 DEF IsGrant, PathInv, HistoryHolds
  <2> HIDE DEF d
  <2>3. /\ g \in granted' /\ g.content = decision'.content /\ g.under = decision'.under
        /\ granted \subseteq granted'
    BY <1>1, <2>1
  <2>4. \A h \in granted' : IsGrant(h)
    BY <1>1, <2>1, <2>2 DEF PathInv, HistoryHolds
  <2> HIDE DEF g
  <2> QED BY <1>1, <2>3, <2>4 DEF PathInv, HistoryHolds, vars
<1>3. CASE Denial(r, config, day) # "none"
  <2>1. ~d.allowed
    BY <1>3 DEF Gate
  <2> HIDE DEF d
  <2>2. granted' = granted /\ ~decision'.allowed
    BY <1>1, <2>1
  <2> QED BY <1>1, <2>2 DEF PathInv, HistoryHolds, vars
<1> QED BY <1>2, <1>3

LEMMA AdviseKeepsHistory ==
  ASSUME PathInv, Advise
  PROVE  HistoryHolds'
<1>1. UNCHANGED <<config, day, decision, granted>> /\ decision # None
  BY DEF Advise, pathVars
<1>2. config.model \in Policies
  BY ContentPathAssumption DEF PathInv, HistoryHolds
<1>3. CASE Refuse(decision.content, config.model)
  <2>1. /\ pc' = "idle" /\ received' = received /\ content' = decision.content
        /\ answer'.code = Refusal(decision.content, config.model)
    BY <1>3 DEF Refuse, Arguments, ModelError
  <2>2. answer'.code = "content_redacted" => content' = None
    <3> SUFFICES ASSUME Refusal(decision.content, config.model) = "content_redacted"
                 PROVE  decision.content = None
      BY <2>1
    <3>1. ~ValidContent(decision.content)
      BY DEF Refusal
    <3> QED BY <1>1, <3>1, DecisionFacts
  <2> QED BY <1>1, <2>1, <2>2 DEF PathInv, HistoryHolds
<1>4. CASE Begin(decision.content, config.model)
  <2>1. /\ received' = received /\ answer' = None
        /\ content' = decision.content /\ policy' = config.model
        /\ Refusal(decision.content, config.model) = "none"
    BY <1>4 DEF Begin, Arguments
  <2>2. \E g \in granted : g.content = decision.content
    <3>1. ValidContent(decision.content)
      BY <2>1 DEF Refusal
    <3> QED BY <1>1, <3>1, DecisionFacts DEF ValidContent
  <2> QED BY <1>1, <1>2, <2>1, <2>2 DEF PathInv, HistoryHolds
<1> QED BY <1>3, <1>4 DEF Advise

LEMMA InvocationKeepsHistory ==
  ASSUME PathInv, Invocation
  PROVE  HistoryHolds'
<1>1. /\ UNCHANGED <<config, day, decision, granted>> /\ pc = "invoke"
      /\ policy' = policy /\ content' = content
      /\ received' \in {received, received \cup {Delivery}}
  BY DEF Invocation, pathVars, InvokeStep, Answered, Raised, Invoke
<1>2. /\ policy \in Policies /\ Refusal(content, policy) = "none"
      /\ \E g \in granted : g.content = content
  BY <1>1 DEF PathInv, HistoryHolds
<1>3. ValidPolicy(policy)
  BY <1>2 DEF Refusal
<1>4. \A d \in received' :
        /\ d.request = BuildRequest(d.content, d.policy)
        /\ d.policy \in Policies /\ ValidPolicy(d.policy)
        /\ \E g \in granted : g.content = d.content
  BY <1>1, <1>2, <1>3 DEF Delivery, PathInv, HistoryHolds
<1>5. \/ answer' = answer
      \/ answer'.code # "content_redacted"
  <2>1. ASSUME NEW r \in Responses, Answered(r)
        PROVE  answer'.code # "content_redacted"
    <3>1. ResponseError(r, policy, content) \in ResponseCodes \cup {"none"}
      BY DEF ResponseError, ResponseCodes
    <3> QED BY <2>1, <3>1 DEF Answered, ModelError, ProposedFeatures, ResponseCodes
  <2>2. CASE Raised
    BY <2>2 DEF Raised, ModelError
  <2> QED BY <2>1, <2>2 DEF Invocation, InvokeStep
<1> QED BY <1>1, <1>2, <1>4, <1>5 DEF PathInv, HistoryHolds

LEMMA PathKeeps == PathInv /\ [PathNext]_<<vars, pathVars>> => PathInv'
<1> SUFFICES ASSUME PathInv, [PathNext]_<<vars, pathVars>> PROVE HistoryHolds'
  BY NextKeeps DEF PathInv
<1>1. ASSUME NEW r \in Records, Authorize(r) PROVE HistoryHolds'
  BY <1>1, AuthorizeKeepsHistory
<1>2. CASE Extract
  BY <1>2 DEF Extract, vars, PathInv, HistoryHolds
<1>3. CASE Assess
  BY <1>3 DEF Assess, vars, PathInv, HistoryHolds
<1>4. CASE Advise
  BY <1>4, AdviseKeepsHistory
<1>5. CASE Invocation
  BY <1>5, InvocationKeepsHistory
<1>6. ASSUME NEW c \in Configurations, Reconfigure(c) PROVE HistoryHolds'
  BY <1>6 DEF Reconfigure, vars, PathInv, HistoryHolds
<1>7. CASE NextDay
  BY <1>7 DEF NextDay, vars, PathInv, HistoryHolds
<1>8. CASE UNCHANGED <<vars, pathVars>>
  BY <1>8 DEF vars, pathVars, PathInv, HistoryHolds
<1> QED BY <1>1, <1>2, <1>3, <1>4, <1>5, <1>6, <1>7, <1>8 DEF PathNext

\* Whatever was allowed, held or delivered is in the history of what was allowed.
THEOREM PathInvariant == PathSpec => []PathInv
<1>1. PathInit => PathInv
  BY InitEstablishes, InitHistory DEF PathInv
<1> QED BY <1>1, PathKeeps, PTL DEF PathSpec

-----------------------------------------------------------------------------
(* What the stages do.                                                     *)

\* A policy the oracle accepts is never refused as invalid or unapproved, and under an accepted
\* configuration the gate speaks of a failed redaction only if the source's failed or a rule is
\* no pattern.
THEOREM AcceptedMeansUsable == PathSpec => []AcceptedConfigurationsWork
<1>1. StagesHold => AcceptedConfigurationsWork
  BY DEF StagesHold, DecisionOK, AcceptedConfigurationsWork
<1> QED BY <1>1, StagesFollowTheDecision, PTL

\* Without content, or with content analysis switched off, no content signal is available.
LEMMA NoContentNoSignal ==
  ASSUME NEW r, NEW previews, NEW c, previews = None \/ ~(c.enabled /\ c.content),
         NEW n \in DOMAIN Extracted(r, previews, c), n \in ContentNames
  PROVE  Extracted(r, previews, c)[n].availability = "unavailable"
<1>1. c.enabled /\ Extracted(r, previews, c)[n] = ContentValue(n, previews, c)
  BY DEF Extracted
<1> QED BY <1>1 DEF ContentValue, ContentAvailability

LEMMA DirectSignalsStay ==
  ASSUME NEW r, NEW previews, NEW c, NEW n \in DOMAIN Extracted(r, previews, c),
         n \notin ContentNames
  PROVE  Extracted(r, previews, c)[n].value = (n \in r.direct)
<1>1. Extracted(r, previews, c)[n] = DirectValue(n, r)
  BY DEF Extracted
<1> QED BY <1>1 DEF DirectValue

LEMMA NothingScored ==
  ASSUME NEW d, NEW c, ~d.allowed \/ ~(c.enabled /\ c.content), NEW n \in DOMAIN Assessed(d, c)
  PROVE  Assessed(d, c)[n].status = "not_assessed"
<1>1. PICK reason : Assessed(d, c) = NotAssessedAll(reason)
  BY DEF Assessed
<1> QED BY <1>1 DEF NotAssessedAll, NotAssessed

\* A denied record is analysed as one without content, and no model is called with it.
THEOREM DenialIsComplete == PathSpec => []DeniedContentIsInvisible
<1>1. StagesHold => DeniedContentIsInvisible
  <2> SUFFICES ASSUME StagesHold, decision # None, ~decision.allowed
               PROVE  /\ signals # None =>
                           /\ Used(signals) = {}
                           /\ \A n \in DOMAIN signals.of \ ContentNames :
                                signals.of[n].value = (n \in record.direct)
                      /\ assessment # None => Scored(assessment) = {}
                      /\ pc = "idle"
    BY DEF DeniedContentIsInvisible
  <2>1. decision.content = None /\ pc = "idle"
    BY DEF StagesHold, DecisionOK
  <2>2. ASSUME signals # None
        PROVE  /\ Used(signals) = {}
               /\ \A n \in DOMAIN signals.of \ ContentNames :
                    signals.of[n].value = (n \in record.direct)
    <3>1. signals.of = Extracted(record, decision.content, signals.under)
      BY <2>2 DEF StagesHold
    <3>2. \A n \in ContentSignals(signals) : signals.of[n].availability = "unavailable"
      BY <2>1, <3>1, NoContentNoSignal DEF ContentSignals
    <3> QED BY <3>1, <3>2, DirectSignalsStay DEF Used
  <2>3. ASSUME assessment # None PROVE Scored(assessment) = {}
    <3>1. assessment.of = Assessed(decision, assessment.under)
      BY <2>3 DEF StagesHold
    <3> QED BY <3>1, NothingScored DEF Scored
  <2> QED BY <2>1, <2>2, <2>3
<1> QED BY <1>1, StagesFollowTheDecision, PTL

\* Disabling content analysis is effective at once for signals and assessments, whatever the
\* gate decided before.
THEOREM DisablingStopsTheStages == PathSpec => []DisablingIsImmediate
<1>1. StagesHold => DisablingIsImmediate
  <2> SUFFICES ASSUME StagesHold
               PROVE  /\ signals # None /\ ~(signals.under.enabled /\ signals.under.content)
                           => Used(signals) = {}
                      /\ assessment # None
                           /\ ~(assessment.under.enabled /\ assessment.under.content)
                           => Scored(assessment) = {}
    BY DEF DisablingIsImmediate
  <2>1. ASSUME signals # None, ~(signals.under.enabled /\ signals.under.content)
        PROVE  Used(signals) = {}
    <3>1. signals.of = Extracted(record, decision.content, signals.under)
      BY <2>1 DEF StagesHold
    <3>2. \A n \in ContentSignals(signals) : signals.of[n].availability = "unavailable"
      BY <2>1, <3>1, NoContentNoSignal DEF ContentSignals
    <3> QED BY <3>2 DEF Used
  <2>2. ASSUME assessment # None, ~(assessment.under.enabled /\ assessment.under.content)
        PROVE  Scored(assessment) = {}
    <3>1. assessment.of = Assessed(decision, assessment.under)
      BY <2>2 DEF StagesHold
    <3> QED BY <2>2, <3>1, NothingScored DEF Scored
  <2> QED BY <2>1, <2>2
<1> QED BY <1>1, StagesFollowTheDecision, PTL

\* An assessment answers for all five dimensions, each soundly.
LEMMA AssessmentIsSound ==
  ASSUME CountsAreNatural, NEW d, ~d.allowed => d.state \in Denials, NEW c
  PROVE  /\ DOMAIN Assessed(d, c) = PromptDimensions
         /\ \A n \in PromptDimensions : SoundDimension(Assessed(d, c)[n])
<1>1. ASSUME NEW reason \in Reasons
      PROVE  /\ DOMAIN NotAssessedAll(reason) = PromptDimensions
             /\ \A n \in PromptDimensions : SoundDimension(NotAssessedAll(reason)[n])
  <2>1. reason # None
    BY ContentPathAssumption
  <2> QED BY <2>1 DEF NotAssessedAll, NotAssessed, SoundDimension
<1>2. ASSUME NEW state \in Denials
      PROVE  PrivacyReason(state) \in Reasons
  BY DEF PrivacyReason, Denials, Reasons
<1>3. "content_analysis_disabled" \in Reasons /\ "content_unavailable" \in Reasons
  BY DEF Reasons
<1>4. ASSUME NEW prompt, NEW settings
      PROVE  /\ DOMAIN AssessedAll(prompt, settings) = PromptDimensions
             /\ \A n \in PromptDimensions : SoundDimension(AssessedAll(prompt, settings)[n])
  BY DimensionIsSound DEF AssessedAll
<1> QED BY <1>1, <1>2, <1>3, <1>4 DEF Assessed

\* What the assessor returns is what the oracle demands; a dimension scores nothing exactly when
\* it has no evidence; and no dimension depends on the settings of another.
THEOREM AssessmentsStaySound ==
  ASSUME CountsAreNatural
  PROVE  PathSpec => []AssessmentsAreSound
<1>1. StagesHold => AssessmentsAreSound
  <2> SUFFICES ASSUME StagesHold, assessment # None
               PROVE  /\ DOMAIN assessment.of = PromptDimensions
                      /\ PromptQualityIssues(assessment.of) = {}
                      /\ Scored(assessment) # {} =>
                           \A c \in Configurations : c.enabled /\ c.content =>
                             \A d \in PromptDimensions :
                               c.dimensions[d] = assessment.under.dimensions[d] =>
                                 Assessed(decision, c)[d] = assessment.of[d]
                      /\ \A d \in Scored(assessment) :
                           (assessment.of[d].score = 0) = (assessment.of[d].band = "low")
    BY DEF AssessmentsAreSound
  <2> DEFINE u == assessment.under
  <2>1. assessment.of = Assessed(decision, u) /\ (~decision.allowed => decision.state \in Denials)
    BY DEF StagesHold, DecisionOK
  <2>2. /\ DOMAIN assessment.of = PromptDimensions
        /\ \A d \in PromptDimensions : SoundDimension(assessment.of[d])
    BY <2>1, AssessmentIsSound
  <2>3. PromptQualityIssues(assessment.of) = {}
    BY <2>2 DEF PromptQualityIssues, SoundDimension
  <2>4. \A d \in Scored(assessment) :
          (assessment.of[d].score = 0) = (assessment.of[d].band = "low")
    BY <2>2 DEF Scored, SoundDimension
  <2>5. ASSUME Scored(assessment) # {}, NEW c \in Configurations, c.enabled, c.content,
               NEW d \in PromptDimensions, c.dimensions[d] = u.dimensions[d]
        PROVE  Assessed(decision, c)[d] = assessment.of[d]
    <3>1. decision.allowed /\ u.enabled /\ u.content
      BY <2>1, <2>5, NothingScored DEF Scored
    <3>2. Assessed(decision, u) = IF Collapsed(decision.content.prompt) = <<>>
                                  THEN NotAssessedAll("content_unavailable")
                                  ELSE AssessedAll(decision.content.prompt, u.dimensions)
      BY <3>1 DEF Assessed
    <3>3. Assessed(decision, c) = IF Collapsed(decision.content.prompt) = <<>>
                                  THEN NotAssessedAll("content_unavailable")
                                  ELSE AssessedAll(decision.content.prompt, c.dimensions)
      BY <2>5, <3>1 DEF Assessed
    <3> QED BY <2>1, <2>5, <3>2, <3>3 DEF AssessedAll
  <2> QED BY <2>2, <2>3, <2>4, <2>5
<1> QED BY <1>1, StagesFollowTheDecision, PTL

-----------------------------------------------------------------------------
(* What leaves, and what the consumers see.                                *)

\* Collapsing a redacted preview adds no word.
LEMMA RedactedCollapsed ==
  ASSUME NEW c \in Configurations, NEW field, NEW text, Redacted(text, field, c)
  PROVE  /\ Collapsed(text) \in Seq(Words)
         /\ field \in Range(c.rules) => Collapsed(text) = <<>>
         /\ Range(Collapsed(text)) \cap Excluded(c) = {}
         /\ c.max_preview # None /\ c.max_preview > 0 => Len(Collapsed(text)) <= c.max_preview
<1>1. c.max_preview # None => c.max_preview \in Int
  BY ContentPathAssumption
<1>2. CASE text = None
  <2>1. Collapsed(text) = <<>> /\ Len(<<>>) = 0 /\ Range(<<>>) = {}
    BY <1>2 DEF Collapsed, Range
  <2> QED BY <1>1, <2>1
<1>3. CASE text # None
  <2>1. text \in Preview /\ Raw(text) = text
    BY <1>3 DEF Redacted, Raw
  <2>2. /\ text \in Seq(Words) /\ Collapsed(text) \in Seq(Words)
        /\ Len(Collapsed(text)) <= Len(text) /\ Range(Collapsed(text)) \subseteq Range(text)
    BY <2>1, CollapsedFacts
  <2>3. Len(text) \in Nat /\ Len(Collapsed(text)) \in Nat
    BY <2>2
  <2>4. c.max_preview # None => Len(Collapsed(text)) <= c.max_preview
    BY <1>1, <1>3, <2>2, <2>3 DEF Redacted
  <2> QED BY <1>3, <2>2, <2>4 DEF Redacted
<1> QED BY <1>2, <1>3

\* What reaches an endpoint was allowed by the gate, for an approved and unexpired record, and
\* holds nothing a rule of the configuration it was allowed under excludes.
THEOREM NothingExcludedReachesAModel == PathSpec => []NothingExcludedLeaves
<1>1. PathInv => NothingExcludedLeaves
  <2> SUFFICES ASSUME PathInv, NEW d \in received
               PROVE  \E g \in granted :
                        LET text(p) == Range(p) IN
                        /\ d.content = g.content
                        /\ AcceptedByOracle(g.under) /\ g.under.enabled /\ g.under.content
                        /\ g.record.account \in g.under.accounts
                        /\ g.record.region \in g.under.regions
                        /\ g.record.day # None => g.day <= g.record.day + g.under.retention
                        /\ (text(d.request.prompt) \cup text(d.request.response))
                             \cap Excluded(g.under) = {}
                        /\ "prompt_preview" \in Range(g.under.rules) => d.request.prompt = <<>>
                        /\ "response_preview" \in Range(g.under.rules) =>
                             d.request.response = <<>>
                        /\ g.under.max_preview # None =>
                             /\ Len(d.request.prompt) <= g.under.max_preview
                             /\ Len(d.request.response) <= g.under.max_preview
    BY DEF NothingExcludedLeaves
  <2>1. PICK g \in granted : g.content = d.content
    BY DEF PathInv, HistoryHolds
  <2>2. /\ IsGrant(g) /\ d.request = BuildRequest(d.content, d.policy)
        /\ d.policy \in Policies /\ ValidPolicy(d.policy)
    BY DEF PathInv, HistoryHolds
  <2> DEFINE c == g.under  r == g.record
  <2>3. /\ AcceptedByOracle(c) /\ c.enabled /\ c.content
        /\ r.account \in c.accounts /\ r.region \in c.regions /\ ~IsExpired(r, c, g.day)
        /\ c \in Configurations /\ r \in Records
    BY <2>2, AllowedFacts DEF IsGrant
  <2>4. r.day # None => g.day <= r.day + c.retention
    <3>1. c.retention \in 1..MaxRetention
      BY <2>3, Zenon DEF AcceptedByOracle
    <3>2. c.retention \in Int /\ g.day \in Int
      BY <2>2, <3>1, ContentPathAssumption DEF IsGrant
    <3>3. r.day # None => r.day \in Int
      BY <2>3, ContentPathAssumption
    <3> QED BY <2>3, <3>2, <3>3 DEF IsExpired
  <2>5. c.max_preview # None => c.max_preview \in Int /\ c.max_preview > 0
    BY <2>3, ContentPathAssumption DEF AcceptedByOracle
  <2> DEFINE v == Collapsed(d.content.prompt)  w == Collapsed(d.content.response)
             p == d.request.prompt  q == d.request.response
  <2>6. /\ v \in Seq(Words) /\ Range(v) \cap Excluded(c) = {}
        /\ "prompt_preview" \in Range(c.rules) => v = <<>>
        /\ c.max_preview # None => Len(v) <= c.max_preview
    BY <2>1, <2>2, <2>3, <2>5, GrantFacts, RedactedCollapsed
  <2>7. /\ w \in Seq(Words) /\ Range(w) \cap Excluded(c) = {}
        /\ "response_preview" \in Range(c.rules) => w = <<>>
        /\ c.max_preview # None => Len(w) <= c.max_preview
    BY <2>1, <2>2, <2>3, <2>5, GrantFacts, RedactedCollapsed
  <2> HIDE DEF v, w
  <2>8. d.policy.max_input \in Nat
    BY <2>2, ModelAssistAssumption DEF ValidPolicy, Policy
  <2>9. p = Cut(v, d.policy.max_input) /\ q = Cut(w, d.policy.max_input - Len(p))
    BY <2>2 DEF BuildRequest, v, w
  <2>10. /\ p \in Seq(Words) /\ Len(p) <= Len(v) /\ Range(p) \subseteq Range(v)
         /\ Len(p) <= d.policy.max_input
    BY <2>6, <2>8, <2>9, CutFacts
  <2>11. d.policy.max_input - Len(p) \in Nat
    BY <2>8, <2>10
  <2> HIDE DEF p
  <2>12. q \in Seq(Words) /\ Len(q) <= Len(w) /\ Range(q) \subseteq Range(w)
    BY <2>7, <2>9, <2>11, CutFacts
  <2> HIDE DEF q
  <2>13. /\ v = <<>> => p = <<>>
         /\ w = <<>> => q = <<>>
    BY <2>6, <2>7, <2>10, <2>12
  <2>14. c.max_preview # None => Len(p) <= c.max_preview /\ Len(q) <= c.max_preview
    BY <2>5, <2>6, <2>7, <2>10, <2>12
  <2> QED BY <2>1, <2>3, <2>4, <2>6, <2>7, <2>10, <2>12, <2>13, <2>14 DEF p, q
<1> QED BY <1>1, PathInvariant, PTL

\* What extraction finds of allowed content, under the configuration it was allowed under.
LEMMA AllowedContentIsUsable ==
  ASSUME NEW c \in Configurations, NEW previews, previews \in Content,
         previews.status = "redacted", Redacted(previews.prompt, "prompt_preview", c)
  PROVE  /\ ContentAvailability(previews, c) \in {"available", "unavailable"}
         /\ c.content /\ previews.prompt # None => ContentAvailability(previews, c) = "available"
<1>1. previews # None
  BY ModelAssistAssumption
<1>2. ASSUME previews.prompt # None, c.max_preview # None
      PROVE  ~(Len(previews.prompt) > c.max_preview)
  <2>1. Len(previews.prompt) <= c.max_preview
    BY <1>2 DEF Redacted
  <2>2. Len(previews.prompt) \in Int /\ c.max_preview \in Int
    BY <1>2, ContentPathAssumption DEF Redacted, Preview
  <2> QED BY <2>1, <2>2
<1> QED BY <1>1, <1>2 DEF ContentAvailability

\* Extraction, assessment and the adapter agree with the gate on what it allowed.
THEOREM ConsumersAlwaysAgree == PathSpec => []ConsumersAgree
<1>1. PathInv => ConsumersAgree
  <2> SUFFICES ASSUME PathInv, decision # None, decision.allowed, signals # None,
                      signals.under = decision.under
               PROVE  /\ \A n \in ContentSignals(signals) :
                           signals.of[n].availability \in {"available", "unavailable"}
                      /\ assessment # None /\ assessment.under = decision.under
                           /\ Scored(assessment) # {} =>
                           Used(signals) = ContentSignals(signals)
    BY DEF ConsumersAgree, PathInv, HistoryHolds
  <2> DEFINE c == decision.under  previews == decision.content
  <2>1. PICK g \in granted : g.content = previews /\ g.under = c
    BY DEF PathInv, HistoryHolds
  <2>2. IsGrant(g)
    BY DEF PathInv, HistoryHolds
  <2>3. /\ c \in Configurations /\ previews \in Content /\ ValidContent(previews)
        /\ Redacted(previews.prompt, "prompt_preview", c)
    BY <2>1, <2>2, GrantFacts DEF IsGrant
  <2>4. previews.status = "redacted"
    BY <2>3 DEF ValidContent
  <2>5. signals.of = Extracted(record, previews, c)
    BY DEF PathInv, StagesHold
  <2> HIDE DEF c, previews
  <2>6. \A n \in ContentSignals(signals) :
          /\ c.enabled
          /\ signals.of[n].availability = ContentAvailability(previews, c)
    BY <2>5 DEF ContentSignals, Extracted, ContentValue
  <2>7. \A n \in ContentSignals(signals) :
          signals.of[n].availability \in {"available", "unavailable"}
    BY <2>3, <2>4, <2>6, AllowedContentIsUsable
  <2>8. ASSUME assessment # None, assessment.under = c, Scored(assessment) # {}
        PROVE  Used(signals) = ContentSignals(signals)
    <3>1. assessment.of = Assessed(decision, c)
      BY <2>8 DEF PathInv, StagesHold
    <3>2. c.content
      BY <2>8, <3>1, NothingScored DEF Scored
    <3>3. previews.prompt # None
      <4> SUFFICES ASSUME previews.prompt = None PROVE FALSE
        OBVIOUS
      <4>1. PICK reason : Assessed(decision, c) = NotAssessedAll(reason)
        BY DEF Assessed, Collapsed, previews
      <4> QED BY <2>8, <3>1, <4>1 DEF Scored, NotAssessedAll, NotAssessed
    <3>4. ContentAvailability(previews, c) = "available"
      BY <2>3, <2>4, <3>2, <3>3, AllowedContentIsUsable
    <3> QED BY <2>6, <3>4 DEF Used
  <2> QED BY <2>7, <2>8 DEF c
<1> QED BY <1>1, PathInvariant, PTL

-----------------------------------------------------------------------------
(* The path implements the adapter's own specification.                    *)

\* Every step of the composition is one the adapter allows, or does not touch it.
LEMMA PathStepsAreAdapterSteps == PathInv /\ [PathNext]_<<vars, pathVars>> => [Next]_vars
<1> SUFFICES ASSUME PathInv, [PathNext]_<<vars, pathVars>> PROVE [Next]_vars
  OBVIOUS
<1>1. CASE Advise
  <2>1. config.model \in Policies
    BY ContentPathAssumption DEF PathInv, HistoryHolds
  <2>2. decision.content \in Contents
    <3>1. CASE decision.content = None
      BY <3>1, GateContents
    <3>2. CASE decision.content # None
      <4>1. PICK g \in granted : g.content = decision.content
        BY <1>1, <3>2, DecisionFacts DEF Advise
      <4>2. /\ IsGrant(g)
            /\ g.record.content # None /\ g.record.content # Malformed
        BY AllowedFacts DEF PathInv, HistoryHolds, IsGrant
      <4> QED BY <4>1, <4>2, GateContents DEF IsGrant
    <3> QED BY <3>1, <3>2
  <2> QED BY <1>1, <2>1, <2>2 DEF Advise, Next
<1>2. CASE Invocation
  BY <1>2 DEF Invocation, Next
<1>3. CASE ~Advise /\ ~Invocation
  <2>1. UNCHANGED vars
    BY <1>3 DEF PathNext, Authorize, Extract, Assess, Reconfigure, NextDay
  <2> QED BY <2>1
<1> QED BY <1>1, <1>2, <1>3

\* Behind the gate the adapter is called as its own specification says, so that everything
\* proved of it holds of the composition.
THEOREM PathImplementsAdapter == PathSpec => Spec
<1>1. PathInit => Init
  BY DEF PathInit
<1> QED BY <1>1, PathInvariant, PathStepsAreAdapterSteps, PTL DEF PathSpec, Spec

\* With the gate in front, too: only approved, redacted, bounded text reaches an endpoint.
THEOREM EndpointsAreProtectedBehindTheGate == PathSpec => []EndpointsSeeOnlyApproved
BY PathImplementsAdapter, EndpointsAreProtected, PTL

=============================================================================
