---------------------------- MODULE PromptQuality ----------------------------
(***************************************************************************)
(* The scores of prompt_assessment.py (DeterministicPromptAssessor) and    *)
(* what the oracle demands of an assessment.  Pure operators; ContentPath  *)
(* says when a prompt may be assessed.                                     *)
(*                                                                         *)
(* The regular expressions are abstract: Features says what they count in  *)
(* a prompt.  Scores are exact, in units of 1/1200, where the code rounds  *)
(* a float to six places; thresholds are in the same units.                *)
(***************************************************************************)
EXTENDS Integers

CONSTANTS
  None,
  Features(_)   \* _extract_features: what the regular expressions count in a prompt

PromptDimensions == {"clarity", "specificity", "context_completeness", "task_definition",
                     "output_constraints"}

FeatureNames == {"words", "sentences", "action_markers", "context_markers", "output_markers",
                 "specificity_markers", "punctuation_issues"}

One == 1200

AtMost(x, bound) == IF x <= bound THEN x ELSE bound

\* Between 4 and 45 words a sentence on average, none without a word.
GoodSentences(f) == 4 * f.sentences <= f.words /\ f.words <= 45 * f.sentences

\* Mutant: a share is not cut at one.
ShareMutant(count, enough) == (count * One) \div enough

\* min(1.0, count / enough).
Share(count, enough) == AtMost((count * One) \div enough, One)

\* 0.35 for twelve words, 0.45 for good sentences (0.315 for others), 0.20 less a quarter for
\* each punctuation issue.
Clarity(f) ==
  35 * AtMost(f.words, 12) + (IF GoodSentences(f) THEN 540 ELSE 378)
    + 60 * (4 - AtMost(f.punctuation_issues, 4))

ScoreOf(dimension, f) ==
  CASE dimension = "clarity"              -> Clarity(f)
    [] dimension = "specificity"          -> Share(f.specificity_markers + f.context_markers, 4)
    [] dimension = "context_completeness" -> Share(f.context_markers, 3)
    [] dimension = "task_definition"      -> Share(f.action_markers, 2)
    [] dimension = "output_constraints"   -> Share(f.output_markers, 2)

EvidenceOf(dimension, f) ==
  CASE dimension = "clarity"              -> f.words + f.sentences
    [] dimension = "specificity"          -> f.specificity_markers + f.context_markers
    [] dimension = "context_completeness" -> f.context_markers
    [] dimension = "task_definition"      -> f.action_markers
    [] dimension = "output_constraints"   -> f.output_markers

Confidence(evidence) == IF evidence >= 3 THEN "high" ELSE IF evidence >= 1 THEN "medium" ELSE "low"

NotAssessed(reason) ==
  [status |-> "not_assessed", reason |-> reason, score |-> None, band |-> None, meets |-> None]

\* settings is [enabled, threshold], threshold None if it is no number.
ValidThreshold(settings) == settings.threshold # None /\ settings.threshold \in 0..One

AssessedDimension(dimension, prompt, settings) ==
  LET score == ScoreOf(dimension, Features(prompt)) IN
  IF ~settings.enabled THEN NotAssessed("dimension_disabled")
  ELSE IF ~ValidThreshold(settings) THEN NotAssessed("invalid_dimension_configuration")
  ELSE [status |-> "assessed", reason |-> None, score |-> score,
        band |-> Confidence(EvidenceOf(dimension, Features(prompt))),
        meets |-> score >= settings.threshold]

\* Mutant: a dimension that is not configured as it should be leaves the others out.
AssessedAllMutant(prompt, dimensions) ==
  [d \in PromptDimensions |->
     IF \E other \in PromptDimensions : dimensions[other].enabled
                                          /\ ~ValidThreshold(dimensions[other])
     THEN NotAssessed("invalid_dimension_configuration")
     ELSE AssessedDimension(d, prompt, dimensions[d])]

AssessedAll(prompt, dimensions) ==
  [d \in PromptDimensions |-> AssessedDimension(d, prompt, dimensions[d])]

NotAssessedAll(reason) == [d \in PromptDimensions |-> NotAssessed(reason)]

\* CanonicalSchemaOracle.validate_prompt_quality: the dimensions it finds fault with.
PromptQualityIssues(assessment) ==
  {d \in DOMAIN assessment :
     LET result == assessment[d] IN
     ~ \/ d \in PromptDimensions /\ result.status = "assessed"
            /\ result.score \in 0..One /\ result.band \in {"low", "medium", "high"}
       \/ d \in PromptDimensions /\ result.status = "not_assessed"
            /\ result.score = None /\ result.band = None /\ result.reason # None}

=============================================================================
