---------------------------- MODULE Classification ----------------------------
(***************************************************************************)
(* classify() of classification.py, with the two oracles of oracle.py that *)
(* surround it: the configuration it is given was accepted by one, the     *)
(* result it returns is to be accepted by the other.                       *)
(*                                                                         *)
(* Thresholds are multiples of 1/Scale and scores fractions, compared      *)
(* exactly.  A signal is usable or not; an unusable one stands for every   *)
(* unavailable, redacted, malformed or non-finite value.                   *)
(***************************************************************************)
EXTENDS Integers, Sequences, FiniteSets, Functions

CONSTANTS
  Names,          \* signal names
  ContentNames,   \* CONTENT_SIGNAL_NAMES
  Ids,            \* category ids
  Conflicting,    \* _CONFLICTING_CATEGORIES
  Insufficient,   \* UsageCategory.INSUFFICIENT_EVIDENCE
  Scale,          \* thresholds are 0/Scale .. Scale/Scale
  Invalid,        \* a threshold that is no finite number in [0, 1]
  SignalLists,    \* the signals classify() is called with
  Configurations, \* the configurations it is called with
  NoId            \* None

Threshold == (0..Scale) \cup {Invalid}

Signal == [name : Names, usable : BOOLEAN]

Category == [id : Ids, signals : SUBSET Names, threshold : Threshold, range_ok : BOOLEAN,
             enabled : BOOLEAN]

\* "prefer:winner", and "winner>loser" or "winner_over_loser"; other rules never apply.
Rule == [kind : {"prefer", "over"}, winner : Ids, loser : Ids]

Configuration ==
  [enabled : BOOLEAN, categories : Seq(Category), defined : SUBSET Names,
   disabled : SUBSET Names, rules : Seq(Rule), low : Threshold, medium : Threshold,
   high : Threshold]

ASSUME ClassificationAssumption ==
  /\ Scale \in Nat \ {0} /\ Invalid \notin 0..Scale
  /\ IsFiniteSet(Names) /\ ContentNames \subseteq Names
  /\ Conflicting \subseteq Ids /\ Insufficient \in Ids \ Conflicting /\ NoId \notin Ids
  /\ SignalLists \subseteq Seq(Signal)
  /\ Configurations \subseteq Configuration

VARIABLE last   \* the latest call of classify(): its arguments and its result

-----------------------------------------------------------------------------
(* Signals and scores.                                                     *)

\* The first signal of a name counts; a later one is dropped, even if it alone is usable.
Usable(n, signals) ==
  \E i \in DOMAIN signals :
    /\ signals[i].name = n /\ signals[i].usable
    /\ \A j \in DOMAIN signals : j < i => signals[j].name # n

Definitions(c) == c.defined \ c.disabled

\* The first enabled category of each id; the fallback category never takes part.
Active(c) ==
  {i \in DOMAIN c.categories :
     /\ c.categories[i].enabled /\ c.categories[i].id # Insufficient
     /\ \A j \in DOMAIN c.categories :
          j < i /\ c.categories[j].enabled => c.categories[j].id # c.categories[i].id}

Ordered(t) == t.low <= t.medium /\ t.medium <= t.high

ThresholdError(c) ==
  \/ \E i \in Active(c) : c.categories[i].threshold = Invalid \/ ~c.categories[i].range_ok
  \/ Invalid \in {c.low, c.medium, c.high}
  \/ ~Ordered(c)

\* Mutant: the evidence of disabled definitions still counts.
ContributingMutant(category, signals, c) ==
  {n \in category.signals \cap c.defined : Usable(n, signals)}

Contributing(category, signals, c) ==
  {n \in category.signals \cap Definitions(c) : Usable(n, signals)}

\* Mutant: the share is of the signals that arrived.
ScoreMutant(category, signals, c) ==
  LET names == {n \in category.signals \cap Definitions(c) :
                  \E i \in DOMAIN signals : signals[i].name = n}
  IN  IF names = {} THEN [hits |-> 0, of |-> 1]
      ELSE [hits |-> Cardinality(Contributing(category, signals, c)),
            of |-> Cardinality(names)]

\* The share of a category's configured signals that are usable.
Score(category, signals, c) ==
  LET names == category.signals \cap Definitions(c) IN
  IF names = {} THEN [hits |-> 0, of |-> 1]
  ELSE [hits |-> Cardinality(Contributing(category, signals, c)), of |-> Cardinality(names)]

\* Mutant: compared the wrong way round.
ReachesMutant(score, threshold) == score.hits * Scale <= threshold * score.of

Reaches(score, threshold) == score.hits * Scale >= threshold * score.of

Candidates(signals, c) ==
  {i \in Active(c) :
     /\ c.categories[i].signals # {}
     /\ Reaches(Score(c.categories[i], signals, c), c.categories[i].threshold)}

IdsOf(positions, c) == {c.categories[i].id : i \in positions}

-----------------------------------------------------------------------------
(* Conflicts and precedence.                                               *)

HasConflict(ids) == \E x, y \in ids \cap Conflicting : x # y

Applies(rule, ids) == rule.winner \in ids /\ (rule.kind = "over" => rule.loser \in ids)

\* Mutant: the last rule that applies has its way.
PrecedenceWinnerMutant(ids, rules) ==
  LET applying == {k \in DOMAIN rules : Applies(rules[k], ids)} IN
  IF applying = {} THEN NoId
  ELSE rules[CHOOSE k \in applying : \A j \in applying : k >= j].winner

\* Of the first rule that applies.
PrecedenceWinner(ids, rules) ==
  LET applying == {k \in DOMAIN rules : Applies(rules[k], ids)} IN
  IF applying = {} THEN NoId
  ELSE rules[CHOOSE k \in applying : \A j \in applying : k <= j].winner

\* Mutant: precedence is asked for whether there is a conflict or not.
PrimaryMutant(positions, c) ==
  LET winner == PrecedenceWinner(IdsOf(positions, c), c.rules) IN
  IF HasConflict(IdsOf(positions, c)) \/ winner # NoId THEN winner
  ELSE c.categories[CHOOSE i \in positions : \A j \in positions : i <= j].id

\* Without a conflict the first candidate in the order of the configuration.
Primary(positions, c) ==
  IF HasConflict(IdsOf(positions, c)) THEN PrecedenceWinner(IdsOf(positions, c), c.rules)
  ELSE c.categories[CHOOSE i \in positions : \A j \in positions : i <= j].id

Band(score, c) ==
  IF Reaches(score, c.high) THEN "high" ELSE IF Reaches(score, c.medium) THEN "medium"
  ELSE "low"

-----------------------------------------------------------------------------
(* classify().                                                             *)

\* Names of active categories' signals that are configured and usable.
Relevant(signals, c) ==
  UNION {Contributing(c.categories[i], signals, c) : i \in Active(c)}

\* A result: candidates are the categories it names, secondary ones and, for a conflict,
\* the retained ones of the limitations included.
Unknown(reason, candidates, scores, evidence) ==
  [primary |-> NoId, candidates |-> candidates, scores |-> scores, confidence |-> "none",
   unknown_reason |-> reason, evidence |-> evidence]

Scores(signals, c) ==
  [x \in IdsOf(Active(c), c) |->
     Score(c.categories[CHOOSE i \in Active(c) : c.categories[i].id = x], signals, c)]

NoScores == [x \in {} |-> 0]

Classified(signals, c) ==
  LET positions == Candidates(signals, c)
      ids       == IdsOf(positions, c)
      primary   == Primary(positions, c)
      scores    == Scores(signals, c)
      evidence  == UNION {Contributing(c.categories[i], signals, c) : i \in positions}
      fallback  == IF evidence = {} THEN Relevant(signals, c) ELSE evidence
  IN  IF positions = {} THEN Unknown("insufficient_evidence", {}, scores, fallback)
      ELSE IF primary = NoId THEN Unknown("conflicting_evidence", ids, scores, fallback)
      ELSE [primary |-> primary, candidates |-> ids, scores |-> scores,
            confidence |-> Band(scores[primary], c), unknown_reason |-> "none",
            evidence |-> evidence]

Classify(signals, c) ==
  IF ~c.enabled THEN Unknown("out_of_scope", {}, NoScores, {})
  ELSE IF ThresholdError(c) THEN Unknown("analysis_error", {}, NoScores, {})
  ELSE Classified(signals, c)

-----------------------------------------------------------------------------
(* The oracles.                                                            *)

\* Mutant: the order of the confidence thresholds is not checked.
AcceptedMutant(c) ==
  /\ c.categories # <<>>
  /\ \A i, j \in DOMAIN c.categories : c.categories[i].id = c.categories[j].id => i = j
  /\ \A i \in DOMAIN c.categories :
       /\ c.categories[i].threshold # Invalid /\ c.categories[i].range_ok
       /\ c.categories[i].signals = {} => c.categories[i].id = Insufficient
       /\ c.categories[i].signals \subseteq c.defined
  /\ Invalid \notin {c.low, c.medium, c.high}

\* ConfigurationSchemaOracle.validate, as far as classify() depends on it.
Accepted(c) ==
  /\ c.categories # <<>>
  /\ \A i, j \in DOMAIN c.categories : c.categories[i].id = c.categories[j].id => i = j
  /\ \A i \in DOMAIN c.categories :
       /\ c.categories[i].threshold # Invalid /\ c.categories[i].range_ok
       /\ c.categories[i].signals = {} => c.categories[i].id = Insufficient
       /\ c.categories[i].signals \subseteq c.defined
  /\ Invalid \notin {c.low, c.medium, c.high}
  /\ Ordered(c)

\* CanonicalSchemaOracle.validate_classification: what it has against a result.
Issues(r, c) ==
  LET allowed == IdsOf(DOMAIN c.categories, c)
      found ==
        [primary_category     |-> r.primary \notin (allowed \cup {NoId}) \ {Insufficient},
         secondary_categories |-> r.primary # NoId /\ ~(r.candidates \subseteq allowed),
         confidence_band      |-> r.primary # NoId /\ r.confidence = "none",
         category_scores      |-> \E x \in DOMAIN r.scores :
           x \notin allowed \/ r.scores[x].hits \notin 0..r.scores[x].of,
         \* the summaries of content-derived signals begin with "prompt_"
         summaries            |-> r.evidence \cap ContentNames # {}]
  IN  {x \in DOMAIN found : found[x]}

-----------------------------------------------------------------------------
(* The caller: one record analysed again, with other evidence or under     *)
(* another configuration.                                                  *)

Analysis(signals, c) ==
  [signals |-> signals, configuration |-> c, result |-> Classify(signals, c)]

Init == last \in {Analysis(s, c) : s \in SignalLists, c \in Configurations}

Reanalyse == \E s \in SignalLists : last' = Analysis(s, last.configuration)

Reconfigure == \E c \in Configurations : last' = Analysis(last.signals, c)

Next == Reanalyse \/ Reconfigure

Spec == Init /\ [][Next]_last

-----------------------------------------------------------------------------
(* Properties.                                                             *)

Known(r) == r.primary # NoId

AsFraction(s, t) == s.hits * t.of <= t.hits * s.of

\* Evidence that becomes usable never lowers a score and never removes a candidate (it may
\* add one, and so turn a known category into a conflict).
MoreEvidenceKeepsCandidates ==
  [][LET c == last.configuration IN
     last'.configuration = c /\ Relevant(last.signals, c) \subseteq Relevant(last'.signals, c)
       => /\ last.result.candidates \subseteq last'.result.candidates
          /\ \A x \in DOMAIN last.result.scores :
               AsFraction(last.result.scores[x], last'.result.scores[x])]_last

\* Only the usable signals that an enabled definition and an active category name influence
\* a result: not others, not their order, not repeated ones.
OnlyConfiguredSignalsMatter ==
  [][LET c == last.configuration IN
     last'.configuration = c /\ Relevant(last.signals, c) = Relevant(last'.signals, c)
       => last'.result = last.result]_last

\* c is d with some evidence thresholds raised.
Raises(c, d) ==
  /\ Len(c.categories) = Len(d.categories)
  /\ c = [d EXCEPT !.categories = c.categories]
  /\ \A i \in DOMAIN c.categories :
       /\ c.categories[i] = [d.categories[i] EXCEPT !.threshold = c.categories[i].threshold]
       /\ Invalid \notin {c.categories[i].threshold, d.categories[i].threshold}
       /\ c.categories[i].threshold >= d.categories[i].threshold

\* Raising evidence thresholds never makes a category a candidate, whatever the evidence.
HigherThresholdsMatchLess ==
  [][last'.signals = last.signals /\ Raises(last'.configuration, last.configuration)
       => last'.result.candidates \subseteq last.result.candidates]_last

\* d has the precedence rules of c and perhaps more behind them.
AddsRules(d, c) ==
  \A k \in DOMAIN c.rules : k \in DOMAIN d.rules /\ d.rules[k] = c.rules[k]

\* Precedence rules only settle conflicts: changing them changes nothing else, a primary
\* category that competes with a conflicting one is the winner of a rule in force, and rules
\* added behind those that settle a conflict change nothing.
RulesOnlySettleConflicts ==
  [][/\ last'.signals = last.signals
     /\ last'.configuration = [last.configuration EXCEPT !.rules = last'.configuration.rules]
     => /\ last'.result.candidates = last.result.candidates
        /\ ~HasConflict(last.result.candidates) => last'.result = last.result
        /\ HasConflict(last.result.candidates) /\ Known(last'.result) =>
             \E k \in DOMAIN last'.configuration.rules :
               last'.configuration.rules[k].winner = last'.result.primary
        /\ Known(last.result) /\ AddsRules(last'.configuration, last.configuration) =>
             last'.result = last.result]_last

\* c is d with more signal definitions disabled.
Disables(c, d) ==
  /\ c = [d EXCEPT !.disabled = c.disabled]
  /\ d.disabled \subseteq c.disabled

SwitchedOff(c, d) == Definitions(d) \ Definitions(c)

\* Disabling definitions takes their signals out of the evidence and out of what is asked
\* for: where none of them was usable no score falls and no candidate is lost, where all of
\* them were no score rises and no candidate is won.
DisablingMovesScoresFairly ==
  [][LET c   == last.configuration
         d   == last'.configuration
         off == SwitchedOff(d, c)
         old == last.result.scores
         new == last'.result.scores
     IN  last'.signals = last.signals /\ Disables(d, c) =>
           /\ (\A n \in off : ~Usable(n, last.signals)) =>
                /\ last.result.candidates \subseteq last'.result.candidates
                /\ \A x \in DOMAIN old : x \in DOMAIN new /\ AsFraction(old[x], new[x])
           /\ (\A n \in off : Usable(n, last.signals)) =>
                /\ last'.result.candidates \subseteq last.result.candidates
                /\ \A x \in DOMAIN old : x \in DOMAIN new /\ AsFraction(new[x], old[x])]_last

\* The two oracles and the classifier agree: under an accepted, enabled configuration the
\* classifier never fails, and its results pass the result oracle unless they rest on
\* content-derived signals.
AcceptedConfigurationsClassify ==
  Accepted(last.configuration) /\ last.configuration.enabled =>
    /\ last.result.unknown_reason # "analysis_error"
    /\ Issues(last.result, last.configuration) \subseteq {"summaries"}
    /\ last.result.evidence \cap ContentNames = {} =>
         Issues(last.result, last.configuration) = {}

\* The classifier's results pass the result oracle.
ResultsPassTheOracle ==
  Accepted(last.configuration) => Issues(last.result, last.configuration) = {}

\* Losing evidence is conservative: what was unknown does not become known.
EvidenceLossIsConservative ==
  [][LET c == last.configuration IN
     last'.configuration = c /\ Relevant(last'.signals, c) \subseteq Relevant(last.signals, c)
       => (Known(last'.result) => Known(last.result))]_last

=============================================================================
