------------------------- MODULE Classification_proofs -------------------------
(***************************************************************************)
(* For every catalog, configuration and list of signals: how the results   *)
(* of two calls of classify() relate when the evidence, the thresholds or  *)
(* the precedence rules differ.                                            *)
(***************************************************************************)
EXTENDS Classification, TLAPS, FiniteSetTheorems, WellFoundedInduction

\* The latest call is a call: its result is what classify() returns for its arguments.
IInv ==
  /\ last.signals \in SignalLists /\ last.configuration \in Configurations
  /\ last.result = Classify(last.signals, last.configuration)

LEMMA CategoryType ==
  ASSUME NEW c \in Configurations, NEW i \in DOMAIN c.categories
  PROVE  c.categories[i] \in Category
<1>1. c \in Configuration
  BY ClassificationAssumption
<1>2. c.categories \in Seq(Category)
  BY <1>1 DEF Configuration
<1> QED BY <1>2

-----------------------------------------------------------------------------
(* Scores.                                                                 *)

\* A score is a fraction between 0 and 1.
LEMMA ScoreFacts ==
  ASSUME NEW c \in Configurations, NEW i \in DOMAIN c.categories, NEW s \in SignalLists
  PROVE  LET score == Score(c.categories[i], s, c) IN
         score.hits \in Nat /\ score.of \in Nat /\ score.hits <= score.of
<1> DEFINE k == c.categories[i]
           names == k.signals \cap Definitions(c)
           contributing == Contributing(k, s, c)
<1>1. k.signals \subseteq Names
  BY CategoryType DEF Category
<1>2. IsFiniteSet(names)
  BY <1>1, ClassificationAssumption, FS_Subset
<1>3. contributing \subseteq names
  BY DEF Contributing
<1>4. IsFiniteSet(contributing) /\ Cardinality(contributing) <= Cardinality(names)
  BY <1>2, <1>3, FS_Subset
<1>5. Cardinality(contributing) \in Nat /\ Cardinality(names) \in Nat
  BY <1>2, <1>4, FS_CardinalityType
<1> HIDE DEF names, contributing
<1>6. Score(k, s, c) = IF names = {} THEN [hits |-> 0, of |-> 1]
                       ELSE [hits |-> Cardinality(contributing), of |-> Cardinality(names)]
  BY DEF Score, names, contributing
<1>7. CASE names = {}
  BY <1>6, <1>7
<1>8. CASE names # {}
  BY <1>4, <1>5, <1>6, <1>8
<1> QED BY <1>7, <1>8

\* More contributing signals, over the same configured ones, are a score no lower.
LEMMA ScoreGrows ==
  ASSUME NEW c \in Configurations, NEW i \in DOMAIN c.categories,
         NEW s \in SignalLists, NEW t \in SignalLists,
         Contributing(c.categories[i], s, c) \subseteq Contributing(c.categories[i], t, c)
  PROVE  /\ Score(c.categories[i], s, c).of = Score(c.categories[i], t, c).of
         /\ Score(c.categories[i], s, c).hits <= Score(c.categories[i], t, c).hits
<1> DEFINE k == c.categories[i]
           names == k.signals \cap Definitions(c)
           before == Contributing(k, s, c)
           after == Contributing(k, t, c)
<1>1. k.signals \subseteq Names
  BY CategoryType DEF Category
<1>2. IsFiniteSet(names) /\ after \subseteq names /\ before \subseteq after
  BY <1>1, ClassificationAssumption, FS_Subset DEF Contributing
<1>3. IsFiniteSet(after)
  BY <1>2, FS_Subset
<1>4. Cardinality(before) <= Cardinality(after)
  BY <1>2, <1>3, FS_Subset
<1> HIDE DEF names, before, after
<1>5. /\ Score(k, s, c) = IF names = {} THEN [hits |-> 0, of |-> 1]
                          ELSE [hits |-> Cardinality(before), of |-> Cardinality(names)]
      /\ Score(k, t, c) = IF names = {} THEN [hits |-> 0, of |-> 1]
                          ELSE [hits |-> Cardinality(after), of |-> Cardinality(names)]
  BY DEF Score, names, before, after
<1>6. CASE names = {}
  BY <1>5, <1>6
<1>7. CASE names # {}
  BY <1>4, <1>5, <1>7
<1> QED BY <1>6, <1>7

\* Relevant evidence decides what contributes to an active category.
LEMMA RelevantDecides ==
  ASSUME NEW c \in Configurations, NEW s \in SignalLists, NEW t \in SignalLists,
         Relevant(s, c) \subseteq Relevant(t, c), NEW i \in Active(c)
  PROVE  Contributing(c.categories[i], s, c) \subseteq Contributing(c.categories[i], t, c)
<1> SUFFICES ASSUME NEW n \in Contributing(c.categories[i], s, c)
             PROVE  n \in Contributing(c.categories[i], t, c)
  OBVIOUS
<1>1. n \in Relevant(t, c)
  BY DEF Relevant
<1>2. PICK j \in Active(c) : n \in Contributing(c.categories[j], t, c)
  BY <1>1 DEF Relevant
<1> QED BY <1>2 DEF Contributing

\* Multiplying by a natural number keeps the order.
LEMMA Times ==
  ASSUME NEW a \in Nat, NEW b \in Nat, NEW n \in Nat, a <= b
  PROVE  a * n <= b * n
<1>1. b - a \in Nat /\ (b - a) * n \in Nat
  OBVIOUS
<1>2. b * n = a * n + (b - a) * n
  OBVIOUS
<1> QED BY <1>1, <1>2

LEMMA ActiveIsPosition == \A c : Active(c) \subseteq DOMAIN c.categories
BY DEF Active

\* What is compared with a threshold is a number once ThresholdError is ruled out.
LEMMA ThresholdIsNumber ==
  ASSUME NEW c \in Configurations, ~ThresholdError(c), NEW i \in Active(c)
  PROVE  c.categories[i].threshold \in Nat
<1>1. c.categories[i].threshold \in Threshold /\ c.categories[i].threshold # Invalid
  BY ActiveIsPosition, CategoryType DEF Category, ThresholdError
<1> QED BY <1>1, ClassificationAssumption DEF Threshold

-----------------------------------------------------------------------------
(* Results.                                                                *)

\* The categories a result names are the candidates.
LEMMA ResultFacts ==
  ASSUME NEW s, NEW c
  PROVE  /\ Classified(s, c).candidates = IdsOf(Candidates(s, c), c)
         /\ Classified(s, c).scores = Scores(s, c)
<1> DEFINE positions == Candidates(s, c)
<1>1. CASE positions = {}
  BY <1>1 DEF Classified, Unknown, IdsOf
<1>2. CASE positions # {} /\ Primary(positions, c) = NoId
  BY <1>2 DEF Classified, Unknown
<1>3. CASE positions # {} /\ Primary(positions, c) # NoId
  BY <1>3 DEF Classified
<1> QED BY <1>1, <1>2, <1>3

LEMMA UnclassifiedFacts ==
  ASSUME NEW s, NEW t, NEW c, ~c.enabled \/ ThresholdError(c)
  PROVE  /\ Classify(s, c) = Classify(t, c)
         /\ Classify(s, c).candidates = {} /\ DOMAIN Classify(s, c).scores = {}
BY DEF Classify, Unknown, NoScores

\* An id that is scored is scored at an active category.
LEMMA ScoredPosition ==
  ASSUME NEW c, NEW x \in IdsOf(Active(c), c)
  PROVE  (CHOOSE i \in Active(c) : c.categories[i].id = x) \in Active(c)
BY DEF IdsOf

LEMMA CandidatesGrow ==
  ASSUME NEW c \in Configurations, NEW s \in SignalLists, NEW t \in SignalLists,
         ~ThresholdError(c), Relevant(s, c) \subseteq Relevant(t, c)
  PROVE  Candidates(s, c) \subseteq Candidates(t, c)
<1> SUFFICES ASSUME NEW i \in Candidates(s, c) PROVE i \in Candidates(t, c)
  OBVIOUS
<1> DEFINE k == c.categories[i]
           u == Score(k, s, c)
           v == Score(k, t, c)
<1>1. i \in Active(c) /\ i \in DOMAIN c.categories /\ k.signals # {}
      /\ Reaches(u, k.threshold)
  BY ActiveIsPosition DEF Candidates
<1>2. u.of = v.of /\ u.hits <= v.hits
  BY <1>1, RelevantDecides, ScoreGrows
<1>3. u.hits \in Nat /\ v.hits \in Nat /\ u.of \in Nat
  BY <1>1, ScoreFacts
<1>4. k.threshold \in Nat /\ Scale \in Nat
  BY <1>1, ThresholdIsNumber, ClassificationAssumption
<1> HIDE DEF u, v
<1>5. u.hits * Scale <= v.hits * Scale
  BY <1>2, <1>3, <1>4, Times
<1>6. u.hits * Scale \in Nat /\ v.hits * Scale \in Nat /\ k.threshold * u.of \in Nat
  BY <1>3, <1>4
<1>7. Reaches(v, k.threshold)
  BY <1>1, <1>2, <1>5, <1>6 DEF Reaches
<1> QED BY <1>1, <1>7 DEF Candidates, v

\* The score of every category grows with the evidence.
LEMMA ScoresGrow ==
  ASSUME NEW c \in Configurations, NEW s \in SignalLists, NEW t \in SignalLists,
         Relevant(s, c) \subseteq Relevant(t, c)
  PROVE  /\ DOMAIN Scores(s, c) = IdsOf(Active(c), c)
         /\ \A x \in IdsOf(Active(c), c) : AsFraction(Scores(s, c)[x], Scores(t, c)[x])
<1>1. DOMAIN Scores(s, c) = IdsOf(Active(c), c)
  BY DEF Scores
<1>2. ASSUME NEW x \in IdsOf(Active(c), c)
      PROVE  AsFraction(Scores(s, c)[x], Scores(t, c)[x])
  <2> DEFINE i == CHOOSE i \in Active(c) : c.categories[i].id = x
             u == Score(c.categories[i], s, c)
             v == Score(c.categories[i], t, c)
  <2>1. i \in Active(c)
    BY <1>2, ScoredPosition
  <2>2. Scores(s, c)[x] = u /\ Scores(t, c)[x] = v
    BY <1>2 DEF Scores
  <2> HIDE DEF i
  <2>3. i \in DOMAIN c.categories
    BY <2>1, ActiveIsPosition
  <2>4. u.of = v.of /\ u.hits <= v.hits
    BY <2>1, <2>3, RelevantDecides, ScoreGrows
  <2>5. u.hits \in Nat /\ v.hits \in Nat /\ u.of \in Nat
    BY <2>3, ScoreFacts
  <2> HIDE DEF u, v
  <2>6. u.hits * v.of <= v.hits * u.of
    BY <2>4, <2>5, Times
  <2> QED BY <2>2, <2>6 DEF AsFraction
<1> QED BY <1>1, <1>2

-----------------------------------------------------------------------------
(* Steps.                                                                  *)

LEMMA CallIsCall ==
  ASSUME NEW s \in SignalLists, NEW c \in Configurations, last = Analysis(s, c)
  PROVE  IInv
BY DEF IInv, Analysis

LEMMA StepIsCall == IInv /\ [Next]_last => IInv'
<1> SUFFICES ASSUME IInv, [Next]_last PROVE IInv'
  OBVIOUS
<1>1. CASE Reanalyse
  BY <1>1 DEF Reanalyse, IInv, Analysis
<1>2. CASE Reconfigure
  BY <1>2 DEF Reconfigure, IInv, Analysis
<1>3. CASE UNCHANGED last
  BY <1>3 DEF IInv
<1> QED BY <1>1, <1>2, <1>3 DEF Next

THEOREM ResultIsClassified == Spec => []IInv
<1>1. Init => IInv
  BY DEF Init, IInv, Analysis
<1> QED BY <1>1, StepIsCall, PTL DEF Spec

-----------------------------------------------------------------------------
(* Evidence.                                                               *)

\* Evidence that becomes usable never lowers a score and never removes a candidate category
\* from what classify() returns.
THEOREM EvidenceIsMonotonic == Spec => MoreEvidenceKeepsCandidates
<1> DEFINE Step ==
      LET c == last.configuration IN
      last'.configuration = c /\ Relevant(last.signals, c) \subseteq Relevant(last'.signals, c)
        => /\ last.result.candidates \subseteq last'.result.candidates
           /\ \A x \in DOMAIN last.result.scores :
                AsFraction(last.result.scores[x], last'.result.scores[x])
<1>1. ASSUME IInv, IInv' PROVE Step
  <2> DEFINE c == last.configuration
             s == last.signals
             t == last'.signals
  <2> SUFFICES ASSUME last'.configuration = c, Relevant(s, c) \subseteq Relevant(t, c)
               PROVE  /\ last.result.candidates \subseteq last'.result.candidates
                      /\ \A x \in DOMAIN last.result.scores :
                           AsFraction(last.result.scores[x], last'.result.scores[x])
    OBVIOUS
  <2>1. /\ c \in Configurations /\ s \in SignalLists /\ t \in SignalLists
        /\ last.result = Classify(s, c) /\ last'.result = Classify(t, c)
    BY <1>1 DEF IInv
  <2> HIDE DEF c, s, t
  <2>2. CASE ~c.enabled \/ ThresholdError(c)
    BY <2>1, <2>2, UnclassifiedFacts
  <2>3. CASE c.enabled /\ ~ThresholdError(c)
    <3>1. last.result = Classified(s, c) /\ last'.result = Classified(t, c)
      BY <2>1, <2>3 DEF Classify
    <3>2. Candidates(s, c) \subseteq Candidates(t, c)
      BY <2>1, <2>3, CandidatesGrow
    <3>3. last.result.candidates \subseteq last'.result.candidates
      BY <3>1, <3>2, ResultFacts DEF IdsOf
    <3>4. last.result.scores = Scores(s, c) /\ last'.result.scores = Scores(t, c)
      BY <3>1, ResultFacts
    <3> QED BY <2>1, <3>3, <3>4, ScoresGrow
  <2> QED BY <2>2, <2>3
<1>2. IInv /\ [Next]_last => [Step]_last
  BY <1>1, StepIsCall
<1> QED BY <1>2, ResultIsClassified, PTL DEF Spec, MoreEvidenceKeepsCandidates

\* Equal relevant evidence is an equal result.
LEMMA RelevantDetermines ==
  ASSUME NEW c \in Configurations, NEW s \in SignalLists, NEW t \in SignalLists,
         ~ThresholdError(c), Relevant(s, c) = Relevant(t, c)
  PROVE  Classified(s, c) = Classified(t, c)
<1>1. \A i \in Active(c) :
        Contributing(c.categories[i], s, c) = Contributing(c.categories[i], t, c)
  BY RelevantDecides
<1>2. \A i \in Active(c) : Score(c.categories[i], s, c) = Score(c.categories[i], t, c)
  BY <1>1 DEF Score
<1>3. Candidates(s, c) = Candidates(t, c)
  <2>1. Candidates(s, c) \subseteq Candidates(t, c)
    BY CandidatesGrow
  <2>2. Candidates(t, c) \subseteq Candidates(s, c)
    <3>1. Relevant(t, c) \subseteq Relevant(s, c)
      OBVIOUS
    <3> QED BY <3>1, CandidatesGrow
  <2> QED BY <2>1, <2>2
<1>4. \A x \in IdsOf(Active(c), c) :
        Score(c.categories[CHOOSE i \in Active(c) : c.categories[i].id = x], s, c)
          = Score(c.categories[CHOOSE i \in Active(c) : c.categories[i].id = x], t, c)
  BY <1>2, ScoredPosition
<1>5. Scores(s, c) = Scores(t, c)
  BY <1>4 DEF Scores
<1>6. UNION {Contributing(c.categories[i], s, c) : i \in Candidates(s, c)}
        = UNION {Contributing(c.categories[i], t, c) : i \in Candidates(t, c)}
  <2>1. Candidates(s, c) \subseteq Active(c)
    BY DEF Candidates
  <2> QED BY <1>1, <1>3, <2>1
<1> QED BY <1>3, <1>5, <1>6 DEF Classified

\* Only usable signals that an enabled definition and an active category name influence
\* what classify() returns.
THEOREM OtherSignalsAreIgnored == Spec => OnlyConfiguredSignalsMatter
<1> DEFINE Step ==
      LET c == last.configuration IN
      last'.configuration = c /\ Relevant(last.signals, c) = Relevant(last'.signals, c)
        => last'.result = last.result
<1>1. ASSUME IInv, IInv' PROVE Step
  <2> DEFINE c == last.configuration
             s == last.signals
             t == last'.signals
  <2> SUFFICES ASSUME last'.configuration = c, Relevant(s, c) = Relevant(t, c)
               PROVE  last'.result = last.result
    OBVIOUS
  <2>1. /\ c \in Configurations /\ s \in SignalLists /\ t \in SignalLists
        /\ last.result = Classify(s, c) /\ last'.result = Classify(t, c)
    BY <1>1 DEF IInv
  <2> HIDE DEF c, s, t
  <2>2. CASE ~c.enabled \/ ThresholdError(c)
    BY <2>1, <2>2, UnclassifiedFacts
  <2>3. CASE c.enabled /\ ~ThresholdError(c)
    BY <2>1, <2>3, RelevantDetermines DEF Classify
  <2> QED BY <2>2, <2>3
<1>2. IInv /\ [Next]_last => [Step]_last
  BY <1>1, StepIsCall
<1> QED BY <1>2, ResultIsClassified, PTL DEF Spec, OnlyConfiguredSignalsMatter

-----------------------------------------------------------------------------
(* Precedence rules.                                                       *)

\* Configurations that differ in their rules only.
LEMMA RulesApart ==
  ASSUME NEW c \in Configurations, NEW d \in Configurations, d = [c EXCEPT !.rules = d.rules]
  PROVE  /\ d.enabled = c.enabled /\ d.categories = c.categories
         /\ Definitions(d) = Definitions(c) /\ Active(d) = Active(c)
         /\ ThresholdError(d) <=> ThresholdError(c)
         /\ \A score : Band(score, d) = Band(score, c)
         /\ \A positions : IdsOf(positions, d) = IdsOf(positions, c)
         /\ \A k, s : Contributing(k, s, d) = Contributing(k, s, c)
         /\ \A k, s : Score(k, s, d) = Score(k, s, c)
<1>1. c \in Configuration
  BY ClassificationAssumption
<1>2. /\ d.enabled = c.enabled /\ d.categories = c.categories /\ d.defined = c.defined
      /\ d.disabled = c.disabled /\ d.low = c.low /\ d.medium = c.medium /\ d.high = c.high
  BY <1>1 DEF Configuration
<1>3. Definitions(d) = Definitions(c)
  BY <1>2 DEF Definitions
<1>4. Active(d) = Active(c)
  BY <1>2 DEF Active
<1>5. ThresholdError(d) <=> ThresholdError(c)
  BY <1>2, <1>4 DEF ThresholdError, Ordered
<1>6. \A score : Band(score, d) = Band(score, c)
  BY <1>2 DEF Band
<1>7. \A positions : IdsOf(positions, d) = IdsOf(positions, c)
  BY <1>2 DEF IdsOf
<1>8. \A k, s : Contributing(k, s, d) = Contributing(k, s, c)
  BY <1>3 DEF Contributing
<1>9. \A k, s : Score(k, s, d) = Score(k, s, c)
  BY <1>3, <1>8 DEF Score
<1> QED BY <1>2, <1>3, <1>4, <1>5, <1>6, <1>7, <1>8, <1>9

\* A rule that applies, before every other that does, gives the winner.
LEMMA FirstRuleWins ==
  ASSUME NEW ids, NEW rules, DOMAIN rules \subseteq Nat, NEW k \in DOMAIN rules,
         Applies(rules[k], ids), \A j \in DOMAIN rules : Applies(rules[j], ids) => k <= j
  PROVE  PrecedenceWinner(ids, rules) = rules[k].winner
<1> DEFINE applying == {j \in DOMAIN rules : Applies(rules[j], ids)}
           first == CHOOSE n \in applying : \A j \in applying : n <= j
<1>1. k \in applying /\ \A j \in applying : k <= j
  OBVIOUS
<1>2. first \in applying /\ \A j \in applying : first <= j
  BY <1>1
<1>3. first = k
  <2>1. first \in Nat /\ k \in Nat /\ first <= k /\ k <= first
    BY <1>1, <1>2
  <2> HIDE DEF first
  <2> QED BY <2>1
<1>4. PrecedenceWinner(ids, rules) = rules[first].winner
  BY <1>1 DEF PrecedenceWinner
<1> HIDE DEF first
<1> QED BY <1>3, <1>4

\* A winner is the winner of a rule, the first that applies.
LEMMA WinnerHasRule ==
  ASSUME NEW ids, NEW rules, DOMAIN rules \subseteq Nat, PrecedenceWinner(ids, rules) # NoId
  PROVE  \E k \in DOMAIN rules :
           /\ Applies(rules[k], ids) /\ rules[k].winner = PrecedenceWinner(ids, rules)
           /\ \A j \in DOMAIN rules : Applies(rules[j], ids) => k <= j
<1> DEFINE applying == {k \in DOMAIN rules : Applies(rules[k], ids)}
<1>1. applying # {}
  BY DEF PrecedenceWinner
<1>2. PICK k \in applying : \A j \in applying : k <= j
  <2> DEFINE R == {ss \in Nat \X Nat : ss[1] < ss[2]}
  <2>1. IsWellFoundedOn(R, Nat)
    BY NatLessThanWellFounded DEF OpToRel
  <2>2. applying \subseteq Nat
    OBVIOUS
  <2> HIDE DEF R, applying
  <2>3. PICK k \in applying : \A j \in applying : <<j, k>> \notin R
    BY <1>1, <2>1, <2>2, WFMin
  <2>4. ASSUME NEW j \in applying PROVE k <= j
    <3>1. j \in Nat /\ k \in Nat /\ <<j, k>> \notin R
      BY <2>2, <2>3
    <3>2. ~ (j < k)
      BY <3>1 DEF R
    <3> QED BY <3>1, <3>2
  <2> QED BY <2>4
<1> QED BY <1>2, FirstRuleWins

\* Rules behind one that applies do not matter.
LEMMA LaterRulesDoNotMatter ==
  ASSUME NEW c \in Configuration, NEW d \in Configuration, AddsRules(d, c), NEW ids,
         PrecedenceWinner(ids, c.rules) # NoId
  PROVE  PrecedenceWinner(ids, d.rules) = PrecedenceWinner(ids, c.rules)
<1>1. c.rules \in Seq(Rule) /\ d.rules \in Seq(Rule)
  BY DEF Configuration
<1>2. /\ DOMAIN c.rules = 1..Len(c.rules) /\ Len(c.rules) \in Nat
      /\ DOMAIN d.rules = 1..Len(d.rules) /\ Len(d.rules) \in Nat
  BY <1>1
<1>3. DOMAIN c.rules \subseteq Nat /\ DOMAIN d.rules \subseteq Nat
  BY <1>2
<1>4. PICK k \in DOMAIN c.rules :
        /\ Applies(c.rules[k], ids) /\ c.rules[k].winner = PrecedenceWinner(ids, c.rules)
        /\ \A j \in DOMAIN c.rules : Applies(c.rules[j], ids) => k <= j
  BY <1>3, WinnerHasRule
<1>5. k \in DOMAIN d.rules /\ d.rules[k] = c.rules[k]
  BY DEF AddsRules
<1>6. ASSUME NEW j \in DOMAIN d.rules, Applies(d.rules[j], ids) PROVE k <= j
  <2>1. SUFFICES ASSUME j < k PROVE FALSE
    BY <1>2
  <2>2. j \in DOMAIN c.rules /\ c.rules[j] = d.rules[j]
    BY <1>2, <2>1 DEF AddsRules
  <2> QED BY <1>2, <1>4, <1>6, <2>1, <2>2
<1>7. PrecedenceWinner(ids, d.rules) = d.rules[k].winner
  BY <1>3, <1>4, <1>5, <1>6, FirstRuleWins
<1> QED BY <1>4, <1>5, <1>7

\* What does not depend on the rules, and what does.
LEMMA RulesSettle ==
  ASSUME NEW c \in Configurations, NEW d \in Configurations, d = [c EXCEPT !.rules = d.rules],
         NEW s
  PROVE  /\ Classify(s, d).candidates = Classify(s, c).candidates
         /\ ~HasConflict(Classify(s, c).candidates) => Classify(s, d) = Classify(s, c)
         /\ HasConflict(Classify(s, c).candidates) /\ Known(Classify(s, d)) =>
              \E k \in DOMAIN d.rules : d.rules[k].winner = Classify(s, d).primary
         /\ Known(Classify(s, c)) /\ AddsRules(d, c) => Classify(s, d) = Classify(s, c)
<1>1. CASE ~c.enabled \/ ThresholdError(c)
  <2>1. Classify(s, d) = Classify(s, c) /\ Classify(s, c).candidates = {}
    BY <1>1, RulesApart DEF Classify, Unknown
  <2> QED BY <2>1 DEF HasConflict
<1>2. CASE c.enabled /\ ~ThresholdError(c)
  <2> DEFINE positions == Candidates(s, c)
             ids == IdsOf(positions, c)
  <2>1. Classify(s, c) = Classified(s, c) /\ Classify(s, d) = Classified(s, d)
    BY <1>2, RulesApart DEF Classify
  <2>2. Candidates(s, d) = positions /\ IdsOf(positions, d) = ids
    BY RulesApart DEF Candidates
  <2>3. Classified(s, c).candidates = ids /\ Classified(s, d).candidates = ids
    BY <2>2, ResultFacts
  <2>4. ASSUME Primary(positions, d) = Primary(positions, c)
        PROVE  Classified(s, d) = Classified(s, c)
    <3>1. Scores(s, d) = Scores(s, c) /\ Relevant(s, d) = Relevant(s, c)
      <4>1. /\ d.categories = c.categories /\ Active(d) = Active(c)
            /\ IdsOf(Active(c), d) = IdsOf(Active(c), c)
            /\ \A k : Contributing(k, s, d) = Contributing(k, s, c)
            /\ \A k : Score(k, s, d) = Score(k, s, c)
        BY RulesApart
      <4> HIDE DEF positions, ids
      <4>2. Scores(s, d) = Scores(s, c)
        BY <4>1, Zenon DEF Scores
      <4>3. Relevant(s, d) = Relevant(s, c)
        BY <4>1 DEF Relevant
      <4> QED BY <4>2, <4>3
    <3>2. UNION {Contributing(d.categories[i], s, d) : i \in positions}
            = UNION {Contributing(c.categories[i], s, c) : i \in positions}
      BY RulesApart
    <3>3. \A score : Band(score, d) = Band(score, c)
      BY RulesApart
    <3> HIDE DEF positions, ids
    <3> QED BY <2>2, <2>4, <3>1, <3>2, <3>3 DEF Classified, positions, ids
  <2>5. ASSUME HasConflict(ids), Known(Classified(s, d))
        PROVE  \E k \in DOMAIN d.rules : d.rules[k].winner = Classified(s, d).primary
    <3>1. positions # {} /\ Primary(positions, d) # NoId
          /\ Classified(s, d).primary = Primary(positions, d)
      BY <2>2, <2>5 DEF Classified, Unknown, Known
    <3>2. Primary(positions, d) = PrecedenceWinner(ids, d.rules)
      BY <2>2, <2>5 DEF Primary
    <3>3. DOMAIN d.rules \subseteq Nat
      <4>1. d \in Configuration
        BY ClassificationAssumption
      <4>2. d.rules \in Seq(Rule)
        BY <4>1 DEF Configuration
      <4> QED BY <4>2
    <3> HIDE DEF positions, ids
    <3> QED BY <3>1, <3>2, <3>3, WinnerHasRule
  <2>6. ~HasConflict(ids) => Primary(positions, d) = Primary(positions, c)
    BY <2>2, RulesApart DEF Primary
  <2>7. ASSUME HasConflict(ids), Known(Classified(s, c)), AddsRules(d, c)
        PROVE  Primary(positions, d) = Primary(positions, c)
    <3>1. Primary(positions, c) # NoId /\ Primary(positions, c) = PrecedenceWinner(ids, c.rules)
      BY <2>7 DEF Classified, Unknown, Known, Primary
    <3>2. Primary(positions, d) = PrecedenceWinner(ids, d.rules)
      BY <2>2, <2>7 DEF Primary
    <3> HIDE DEF positions, ids
    <3> QED BY <2>7, <3>1, <3>2, LaterRulesDoNotMatter, ClassificationAssumption
  <2> HIDE DEF positions, ids
  <2> QED BY <2>1, <2>3, <2>4, <2>5, <2>6, <2>7
<1> QED BY <1>1, <1>2

\* Precedence rules only settle conflicts in what classify() returns.
THEOREM RulesAreForConflicts == Spec => RulesOnlySettleConflicts
<1> DEFINE Step ==
      /\ last'.signals = last.signals
      /\ last'.configuration = [last.configuration EXCEPT !.rules = last'.configuration.rules]
      => /\ last'.result.candidates = last.result.candidates
         /\ ~HasConflict(last.result.candidates) => last'.result = last.result
         /\ HasConflict(last.result.candidates) /\ Known(last'.result) =>
              \E k \in DOMAIN last'.configuration.rules :
                last'.configuration.rules[k].winner = last'.result.primary
         /\ Known(last.result) /\ AddsRules(last'.configuration, last.configuration) =>
              last'.result = last.result
<1>1. ASSUME IInv, IInv' PROVE Step
  BY <1>1, RulesSettle DEF IInv
<1>2. IInv /\ [Next]_last => [Step]_last
  BY <1>1, StepIsCall
<1> QED BY <1>2, ResultIsClassified, PTL DEF Spec, RulesOnlySettleConflicts

-----------------------------------------------------------------------------
(* Evidence thresholds.                                                    *)

\* Configurations that differ in evidence thresholds only, c having the higher ones.
LEMMA ThresholdsApart ==
  ASSUME NEW c \in Configurations, NEW d \in Configurations, Raises(c, d)
  PROVE  /\ c.enabled = d.enabled /\ DOMAIN c.categories = DOMAIN d.categories
         /\ Definitions(c) = Definitions(d) /\ Active(c) = Active(d)
         /\ ThresholdError(c) <=> ThresholdError(d)
         /\ \A i \in DOMAIN d.categories :
              /\ c.categories[i].id = d.categories[i].id
              /\ c.categories[i].signals = d.categories[i].signals
              /\ c.categories[i].threshold \in Nat /\ d.categories[i].threshold \in Nat
              /\ d.categories[i].threshold <= c.categories[i].threshold
<1>1. c \in Configuration /\ d \in Configuration
  BY ClassificationAssumption
<1>2. /\ c.enabled = d.enabled /\ c.defined = d.defined /\ c.disabled = d.disabled
      /\ c.low = d.low /\ c.medium = d.medium /\ c.high = d.high
  BY <1>1 DEF Raises, Configuration
<1>3. DOMAIN c.categories = DOMAIN d.categories
  <2>1. c.categories \in Seq(Category) /\ d.categories \in Seq(Category)
    BY <1>1 DEF Configuration
  <2>2. Len(c.categories) = Len(d.categories)
    BY DEF Raises
  <2> QED BY <2>1, <2>2
<1>4. ASSUME NEW i \in DOMAIN d.categories
      PROVE  /\ c.categories[i].id = d.categories[i].id
             /\ c.categories[i].signals = d.categories[i].signals
             /\ c.categories[i].range_ok = d.categories[i].range_ok
             /\ c.categories[i].enabled = d.categories[i].enabled
             /\ c.categories[i].threshold \in Nat /\ d.categories[i].threshold \in Nat
             /\ c.categories[i].threshold # Invalid /\ d.categories[i].threshold # Invalid
             /\ d.categories[i].threshold <= c.categories[i].threshold
  <2>1. c.categories[i] \in Category /\ d.categories[i] \in Category
    BY <1>3, CategoryType
  <2>2. /\ c.categories[i] = [d.categories[i] EXCEPT !.threshold = c.categories[i].threshold]
        /\ Invalid \notin {c.categories[i].threshold, d.categories[i].threshold}
        /\ c.categories[i].threshold >= d.categories[i].threshold
    BY <1>3 DEF Raises
  <2>3. c.categories[i].threshold \in Nat /\ d.categories[i].threshold \in Nat
    BY <2>1, <2>2, ClassificationAssumption DEF Category, Threshold
  <2>4. /\ c.categories[i].id = d.categories[i].id
        /\ c.categories[i].signals = d.categories[i].signals
        /\ c.categories[i].range_ok = d.categories[i].range_ok
        /\ c.categories[i].enabled = d.categories[i].enabled
    BY <2>1, <2>2 DEF Category
  <2> QED BY <2>2, <2>3, <2>4
<1>5. Definitions(c) = Definitions(d)
  BY <1>2 DEF Definitions
<1>6. Active(c) = Active(d)
  BY <1>3, <1>4 DEF Active
<1>7. ThresholdError(c) <=> ThresholdError(d)
  <2>1. Active(d) \subseteq DOMAIN d.categories
    BY ActiveIsPosition
  <2> QED BY <1>2, <1>4, <1>6, <2>1 DEF ThresholdError, Ordered
<1> QED BY <1>2, <1>3, <1>4, <1>5, <1>6, <1>7

LEMMA RaisedCandidates ==
  ASSUME NEW c \in Configurations, NEW d \in Configurations, Raises(c, d),
         NEW s \in SignalLists
  PROVE  Candidates(s, c) \subseteq Candidates(s, d)
<1> SUFFICES ASSUME NEW i \in Candidates(s, c) PROVE i \in Candidates(s, d)
  OBVIOUS
<1> DEFINE u == Score(c.categories[i], s, c)
           low == d.categories[i].threshold
           high == c.categories[i].threshold
<1>1. /\ i \in Active(d) /\ i \in DOMAIN d.categories /\ i \in DOMAIN c.categories
      /\ d.categories[i].signals # {} /\ Reaches(u, high)
  BY ActiveIsPosition, ThresholdsApart DEF Candidates
<1>2. Score(d.categories[i], s, d) = u
  BY <1>1, ThresholdsApart DEF Score, Contributing
<1>3. u.hits \in Nat /\ u.of \in Nat
  BY <1>1, ScoreFacts
<1>4. low \in Nat /\ high \in Nat /\ low <= high /\ Scale \in Nat
  BY <1>1, ThresholdsApart, ClassificationAssumption
<1> HIDE DEF u, low, high
<1>5. low * u.of <= high * u.of
  BY <1>3, <1>4, Times
<1>6. u.hits * Scale \in Nat /\ low * u.of \in Nat /\ high * u.of \in Nat
  BY <1>3, <1>4
<1>7. Reaches(u, low)
  BY <1>1, <1>5, <1>6 DEF Reaches
<1> QED BY <1>1, <1>2, <1>7 DEF Candidates, low

\* Raising evidence thresholds adds no candidate category to what classify() returns.
THEOREM ThresholdsAreMonotonic == Spec => HigherThresholdsMatchLess
<1> DEFINE Step ==
      last'.signals = last.signals /\ Raises(last'.configuration, last.configuration)
        => last'.result.candidates \subseteq last.result.candidates
<1>1. ASSUME IInv, IInv' PROVE Step
  <2> DEFINE c == last'.configuration
             d == last.configuration
             s == last.signals
  <2> SUFFICES ASSUME last'.signals = s, Raises(c, d)
               PROVE  last'.result.candidates \subseteq last.result.candidates
    OBVIOUS
  <2>1. /\ c \in Configurations /\ d \in Configurations /\ s \in SignalLists
        /\ last.result = Classify(s, d) /\ last'.result = Classify(s, c)
    BY <1>1 DEF IInv
  <2> HIDE DEF c, d, s
  <2>2. CASE ~c.enabled \/ ThresholdError(c)
    BY <2>1, <2>2, UnclassifiedFacts
  <2>3. CASE c.enabled /\ ~ThresholdError(c)
    <3>1. last.result = Classified(s, d) /\ last'.result = Classified(s, c)
      BY <2>1, <2>3, ThresholdsApart DEF Classify
    <3>2. Candidates(s, c) \subseteq Candidates(s, d)
      BY <2>1, RaisedCandidates
    <3>3. Candidates(s, c) \subseteq DOMAIN d.categories
      BY <2>1, ThresholdsApart, ActiveIsPosition DEF Candidates
    <3>4. IdsOf(Candidates(s, c), c) \subseteq IdsOf(Candidates(s, d), d)
      BY <2>1, <3>2, <3>3, ThresholdsApart DEF IdsOf
    <3> QED BY <3>1, <3>4, ResultFacts
  <2> QED BY <2>2, <2>3
<1>2. IInv /\ [Next]_last => [Step]_last
  BY <1>1, StepIsCall
<1> QED BY <1>2, ResultIsClassified, PTL DEF Spec, HigherThresholdsMatchLess

-----------------------------------------------------------------------------
(* Disabled definitions.                                                   *)

\* Configurations that differ in their disabled definitions only.
LEMMA DisabledApart ==
  ASSUME NEW c \in Configurations, NEW d \in Configurations, Disables(c, d)
  PROVE  /\ c.enabled = d.enabled /\ c.categories = d.categories
         /\ Definitions(c) \subseteq Definitions(d)
         /\ Active(c) = Active(d) /\ (ThresholdError(c) <=> ThresholdError(d))
         /\ \A positions : IdsOf(positions, c) = IdsOf(positions, d)
<1>1. c \in Configuration /\ d \in Configuration
  BY ClassificationAssumption
<1>2. /\ c.enabled = d.enabled /\ c.categories = d.categories /\ c.defined = d.defined
      /\ d.disabled \subseteq c.disabled
      /\ c.low = d.low /\ c.medium = d.medium /\ c.high = d.high
  BY <1>1 DEF Disables, Configuration
<1>3. Definitions(c) \subseteq Definitions(d)
  BY <1>2 DEF Definitions
<1>4. Active(c) = Active(d)
  BY <1>2 DEF Active
<1>5. ThresholdError(c) <=> ThresholdError(d)
  BY <1>2, <1>4 DEF ThresholdError, Ordered
<1>6. \A positions : IdsOf(positions, c) = IdsOf(positions, d)
  BY <1>2 DEF IdsOf
<1> QED BY <1>2, <1>3, <1>4, <1>5, <1>6

\* What a score counts, in numbers.
LEMMA ScoreCounts ==
  ASSUME NEW c \in Configurations, NEW i \in DOMAIN c.categories, NEW s \in SignalLists
  PROVE  LET k     == c.categories[i]
             names == k.signals \cap Definitions(c)
         IN  /\ IsFiniteSet(names) /\ Contributing(k, s, c) \subseteq names
             /\ Score(k, s, c).of > 0
             /\ names = {} => Score(k, s, c) = [hits |-> 0, of |-> 1]
             /\ names # {} => /\ Score(k, s, c).hits = Cardinality(Contributing(k, s, c))
                              /\ Score(k, s, c).of = Cardinality(names)
<1> DEFINE k == c.categories[i]
           names == k.signals \cap Definitions(c)
<1>1. k.signals \subseteq Names
  BY CategoryType DEF Category
<1>2. IsFiniteSet(names)
  BY <1>1, ClassificationAssumption, FS_Subset
<1>3. Contributing(k, s, c) \subseteq names
  BY DEF Contributing
<1>4. names # {} => Cardinality(names) \in Nat /\ Cardinality(names) # 0
  BY <1>2, FS_CardinalityType, FS_EmptySet
<1>5. /\ names = {} => Score(k, s, c) = [hits |-> 0, of |-> 1]
      /\ names # {} => /\ Score(k, s, c).hits = Cardinality(Contributing(k, s, c))
                       /\ Score(k, s, c).of = Cardinality(names)
  BY DEF Score
<1> HIDE DEF names
<1>6. Score(k, s, c).of > 0
  BY <1>4, <1>5
<1> QED BY <1>2, <1>3, <1>5, <1>6 DEF names

\* Where none of the signals switched off was usable, the same hits are of fewer signals.
LEMMA UnusedSignalsOff ==
  ASSUME NEW c \in Configurations, NEW d \in Configurations, Disables(c, d),
         NEW i \in DOMAIN d.categories, NEW s \in SignalLists,
         \A n \in SwitchedOff(c, d) : ~Usable(n, s)
  PROVE  AsFraction(Score(d.categories[i], s, d), Score(d.categories[i], s, c))
<1> DEFINE k == d.categories[i]
           few == k.signals \cap Definitions(c)
           many == k.signals \cap Definitions(d)
           u == Score(k, s, d)
           v == Score(k, s, c)
<1>1. c.categories = d.categories /\ few \subseteq many
  BY DisabledApart
<1>2. Contributing(k, s, c) = Contributing(k, s, d)
  BY DisabledApart DEF Contributing, SwitchedOff
<1>3. /\ IsFiniteSet(few) /\ IsFiniteSet(many)
      /\ Contributing(k, s, c) \subseteq few
      /\ few = {} => v = [hits |-> 0, of |-> 1]
      /\ few # {} => v.hits = Cardinality(Contributing(k, s, c)) /\ v.of = Cardinality(few)
      /\ many = {} => u = [hits |-> 0, of |-> 1]
      /\ many # {} => u.hits = Cardinality(Contributing(k, s, d)) /\ u.of = Cardinality(many)
  BY <1>1, ScoreCounts
<1>4. u.hits \in Nat /\ u.of \in Nat /\ v.hits \in Nat /\ v.of \in Nat
  BY <1>1, ScoreFacts
<1>5. Cardinality(few) <= Cardinality(many) /\ Cardinality({}) = 0
      /\ Cardinality(few) \in Nat /\ Cardinality(many) \in Nat
  BY <1>1, <1>3, FS_Subset, FS_CardinalityType, FS_EmptySet
<1>6. CASE few = {}
  <2>1. Contributing(k, s, d) = {}
    BY <1>2, <1>3, <1>6
  <2>2. u.hits = 0 /\ v.hits = 0
    BY <1>3, <1>5, <1>6, <2>1
  <2> QED BY <1>4, <2>2 DEF AsFraction
<1>7. CASE few # {}
  <2>1. many # {}
    BY <1>1, <1>7
  <2>2. u.hits = v.hits /\ v.of <= u.of
    BY <1>2, <1>3, <1>5, <1>7, <2>1
  <2> HIDE DEF u, v
  <2>3. v.of * u.hits <= u.of * u.hits
    BY <1>4, <2>2, Times
  <2>4. u.hits * v.of <= v.hits * u.of
    BY <1>4, <2>2, <2>3
  <2> QED BY <2>4 DEF AsFraction, u, v
<1> QED BY <1>6, <1>7

\* Where all the signals switched off were usable, hits and signals shrink by as many.
LEMMA UsedSignalsOff ==
  ASSUME NEW c \in Configurations, NEW d \in Configurations, Disables(c, d),
         NEW i \in DOMAIN d.categories, NEW s \in SignalLists,
         \A n \in SwitchedOff(c, d) : Usable(n, s)
  PROVE  AsFraction(Score(d.categories[i], s, c), Score(d.categories[i], s, d))
<1> DEFINE k == d.categories[i]
           few == k.signals \cap Definitions(c)
           many == k.signals \cap Definitions(d)
           off == many \ few
           hits == Contributing(k, s, c)
           all == Contributing(k, s, d)
           u == Score(k, s, d)
           v == Score(k, s, c)
<1>1. c.categories = d.categories /\ few \subseteq many
  BY DisabledApart
<1>2. all = hits \cup off /\ hits \cap off = {}
  BY DisabledApart DEF Contributing, SwitchedOff
<1>3. /\ IsFiniteSet(few) /\ IsFiniteSet(many) /\ hits \subseteq few
      /\ few = {} => v = [hits |-> 0, of |-> 1]
      /\ few # {} => v.hits = Cardinality(hits) /\ v.of = Cardinality(few)
      /\ many # {} => u.hits = Cardinality(all) /\ u.of = Cardinality(many)
  BY <1>1, ScoreCounts
<1>4. u.hits \in Nat /\ u.of \in Nat /\ v.hits \in Nat /\ v.of \in Nat
      /\ v.hits <= v.of
  BY <1>1, ScoreFacts
<1>5. CASE few = {}
  <2> HIDE DEF u, v
  <2>1. v.hits = 0 /\ v.of = 1
    BY <1>3, <1>5
  <2>2. v.hits * u.of <= u.hits * v.of
    BY <1>4, <2>1
  <2> QED BY <2>2 DEF AsFraction, u, v
<1>6. CASE few # {}
  <2>1. many # {}
    BY <1>1, <1>6
  <2>2. IsFiniteSet(off) /\ IsFiniteSet(hits) /\ few \cap off = {} /\ few \cup off = many
    BY <1>1, <1>3, FS_Subset
  <2> DEFINE m == Cardinality(off)
  <2>3. m \in Nat /\ Cardinality({}) = 0
    BY <2>2, FS_CardinalityType, FS_EmptySet
  <2>4. Cardinality(hits) \in Nat /\ Cardinality(few) \in Nat
    BY <1>3, <2>2, FS_CardinalityType
  <2>5. Cardinality(all) = Cardinality(hits) + m - Cardinality({})
    BY <1>2, <2>2, FS_Union
  <2>6. Cardinality(many) = Cardinality(few) + m - Cardinality({})
    BY <1>3, <2>2, FS_Union
  <2> HIDE DEF m, u, v
  <2>7. u.hits = v.hits + m /\ u.of = v.of + m
    BY <1>3, <1>6, <2>1, <2>3, <2>4, <2>5, <2>6
  <2>8. v.hits * m <= v.of * m
    BY <1>4, <2>3, Times
  <2>9. /\ v.hits * (v.of + m) = v.hits * v.of + v.hits * m
        /\ (v.hits + m) * v.of = v.hits * v.of + v.of * m
    BY <1>4, <2>3
  <2>10. v.hits * u.of <= u.hits * v.of
    <3>1. v.hits * v.of \in Nat /\ v.hits * m \in Nat /\ v.of * m \in Nat
      BY <1>4, <2>3
    <3> QED BY <2>7, <2>8, <2>9, <3>1
  <2> QED BY <2>10 DEF AsFraction, u, v
<1> QED BY <1>5, <1>6

\* A fraction no lower reaches what the other reaches.
LEMMA HigherFractionReaches ==
  ASSUME NEW a \in Nat, NEW b \in Nat, NEW p \in Nat, NEW q \in Nat, NEW t \in Nat,
         b > 0, q > 0, a * q <= p * b, a * Scale >= t * b
  PROVE  p * Scale >= t * q
<1>1. Scale \in Nat
  BY ClassificationAssumption
<1>2. (t * b) * q <= (a * Scale) * q
  BY <1>1, Times
<1>3. (a * q) * Scale <= (p * b) * Scale
  <2>1. a * q \in Nat /\ p * b \in Nat
    OBVIOUS
  <2> QED BY <1>1, <2>1, Times
<1>4. /\ (a * Scale) * q = (a * q) * Scale /\ (t * b) * q = (t * q) * b
      /\ (p * b) * Scale = (p * Scale) * b
  BY <1>1
<1> DEFINE x == t * q
           y == p * Scale
<1>5. x \in Nat /\ y \in Nat
  BY <1>1
<1>6. x * b <= y * b
  <2>1. (a * q) * Scale \in Nat /\ x * b \in Nat /\ y * b \in Nat
    BY <1>1, <1>5
  <2> QED BY <1>2, <1>3, <1>4, <2>1
<1> HIDE DEF x, y
<1>7. ASSUME ~(x <= y) PROVE FALSE
  <2>1. x - y - 1 \in Nat
    BY <1>5, <1>7
  <2>2. x * b = y * b + (x - y - 1) * b + b /\ (x - y - 1) * b \in Nat /\ y * b \in Nat
    BY <1>5, <2>1
  <2> QED BY <1>6, <2>2
<1> QED BY <1>5, <1>7 DEF x, y

\* A candidate stays one under a score that is no lower.
LEMMA CandidatesFollow ==
  ASSUME NEW c \in Configurations, NEW d \in Configurations, c.categories = d.categories,
         Active(c) = Active(d), ~ThresholdError(c), NEW s \in SignalLists,
         \A i \in DOMAIN c.categories :
           AsFraction(Score(c.categories[i], s, c), Score(c.categories[i], s, d))
  PROVE  Candidates(s, c) \subseteq Candidates(s, d)
<1> SUFFICES ASSUME NEW i \in Candidates(s, c) PROVE i \in Candidates(s, d)
  OBVIOUS
<1> DEFINE k == c.categories[i]
           u == Score(k, s, c)
           v == Score(k, s, d)
<1>1. /\ i \in Active(c) /\ i \in DOMAIN c.categories /\ k.signals # {}
      /\ Reaches(u, k.threshold)
  BY ActiveIsPosition DEF Candidates
<1>2. u.hits \in Nat /\ u.of \in Nat /\ v.hits \in Nat /\ v.of \in Nat
  BY <1>1, ScoreFacts
<1>3. u.of > 0 /\ v.of > 0
  BY <1>1, ScoreCounts
<1>4. k.threshold \in Nat
  BY <1>1, ThresholdIsNumber
<1>5. AsFraction(u, v)
  BY <1>1
<1> HIDE DEF u, v, k
<1>6. Reaches(v, k.threshold)
  BY <1>1, <1>2, <1>3, <1>4, <1>5, HigherFractionReaches DEF Reaches, AsFraction
<1> QED BY <1>1, <1>6 DEF Candidates, k, v

\* Every score of one configuration is no lower under the other.
LEMMA ScoresFollow ==
  ASSUME NEW c \in Configurations, NEW d \in Configurations, c.categories = d.categories,
         Active(c) = Active(d), NEW s \in SignalLists,
         \A i \in DOMAIN c.categories :
           AsFraction(Score(c.categories[i], s, c), Score(c.categories[i], s, d))
  PROVE  /\ DOMAIN Scores(s, c) = DOMAIN Scores(s, d)
         /\ \A x \in DOMAIN Scores(s, c) : AsFraction(Scores(s, c)[x], Scores(s, d)[x])
<1>1. /\ DOMAIN Scores(s, c) = IdsOf(Active(c), c)
      /\ DOMAIN Scores(s, d) = IdsOf(Active(c), c)
  BY DEF Scores, IdsOf
<1>2. ASSUME NEW x \in IdsOf(Active(c), c)
      PROVE  AsFraction(Scores(s, c)[x], Scores(s, d)[x])
  <2> DEFINE i == CHOOSE i \in Active(c) : c.categories[i].id = x
  <2>1. i \in DOMAIN c.categories
    BY <1>2, ScoredPosition, ActiveIsPosition
  <2>2. /\ Scores(s, c)[x] = Score(c.categories[i], s, c)
        /\ Scores(s, d)[x] = Score(c.categories[i], s, d)
    BY <1>2 DEF Scores, IdsOf
  <2> HIDE DEF i
  <2> QED BY <2>1, <2>2
<1> QED BY <1>1, <1>2

\* Disabling definitions none of which was usable lowers no score and loses no candidate;
\* disabling usable ones raises no score and wins no candidate.
THEOREM DisablingIsFair == Spec => DisablingMovesScoresFairly
<1> DEFINE Lower(x, y) ==
      /\ x.candidates \subseteq y.candidates
      /\ \A n \in DOMAIN x.scores :
           n \in DOMAIN y.scores /\ AsFraction(x.scores[n], y.scores[n])
<1>1. ASSUME NEW c \in Configurations, NEW d \in Configurations, NEW s \in SignalLists,
             Disables(c, d)
      PROVE  /\ (\A n \in SwitchedOff(c, d) : ~Usable(n, s)) =>
                  Lower(Classify(s, d), Classify(s, c))
             /\ (\A n \in SwitchedOff(c, d) : Usable(n, s)) =>
                  /\ Lower(Classify(s, c), Classify(s, d))
                  /\ DOMAIN Classify(s, c).scores = DOMAIN Classify(s, d).scores
  <2>1. /\ c.enabled = d.enabled /\ c.categories = d.categories
        /\ Active(c) = Active(d) /\ (ThresholdError(c) <=> ThresholdError(d))
        /\ \A positions : IdsOf(positions, c) = IdsOf(positions, d)
    BY <1>1, DisabledApart
  <2>2. CASE ~c.enabled \/ ThresholdError(c)
    <3>1. /\ Classify(s, c).candidates = {} /\ DOMAIN Classify(s, c).scores = {}
          /\ Classify(s, d).candidates = {} /\ DOMAIN Classify(s, d).scores = {}
      BY <2>1, <2>2, UnclassifiedFacts
    <3> QED BY <3>1
  <2>3. CASE c.enabled /\ ~ThresholdError(c)
    <3>1. /\ Classify(s, c).candidates = IdsOf(Candidates(s, c), d)
          /\ Classify(s, c).scores = Scores(s, c)
          /\ Classify(s, d).candidates = IdsOf(Candidates(s, d), d)
          /\ Classify(s, d).scores = Scores(s, d)
      BY <2>1, <2>3, ResultFacts DEF Classify
    <3>2. ASSUME \A n \in SwitchedOff(c, d) : ~Usable(n, s)
          PROVE  Lower(Classify(s, d), Classify(s, c))
      <4>1. \A i \in DOMAIN d.categories :
              AsFraction(Score(d.categories[i], s, d), Score(d.categories[i], s, c))
        BY <1>1, <3>2, UnusedSignalsOff
      <4>2. Candidates(s, d) \subseteq Candidates(s, c)
        BY <2>1, <2>3, <4>1, CandidatesFollow
      <4>3. /\ DOMAIN Scores(s, d) = DOMAIN Scores(s, c)
            /\ \A x \in DOMAIN Scores(s, d) : AsFraction(Scores(s, d)[x], Scores(s, c)[x])
        BY <2>1, <4>1, ScoresFollow
      <4> QED BY <3>1, <4>2, <4>3 DEF IdsOf
    <3>3. ASSUME \A n \in SwitchedOff(c, d) : Usable(n, s)
          PROVE  /\ Lower(Classify(s, c), Classify(s, d))
                 /\ DOMAIN Classify(s, c).scores = DOMAIN Classify(s, d).scores
      <4>1. \A i \in DOMAIN c.categories :
              AsFraction(Score(c.categories[i], s, c), Score(c.categories[i], s, d))
        BY <1>1, <2>1, <3>3, UsedSignalsOff
      <4>2. Candidates(s, c) \subseteq Candidates(s, d)
        BY <2>1, <2>3, <4>1, CandidatesFollow
      <4>3. /\ DOMAIN Scores(s, c) = DOMAIN Scores(s, d)
            /\ \A x \in DOMAIN Scores(s, c) : AsFraction(Scores(s, c)[x], Scores(s, d)[x])
        BY <2>1, <4>1, ScoresFollow
      <4> QED BY <3>1, <4>2, <4>3 DEF IdsOf
    <3> QED BY <3>2, <3>3
  <2> QED BY <2>2, <2>3
<1> DEFINE Step ==
      LET c   == last.configuration
          d   == last'.configuration
          off == SwitchedOff(d, c)
          old == last.result.scores
          new == last'.result.scores
      IN  last'.signals = last.signals /\ Disables(d, c) =>
            /\ (\A n \in off : ~Usable(n, last.signals)) =>
                 /\ last.result.candidates \subseteq last'.result.candidates
                 /\ \A x \in DOMAIN old : x \in DOMAIN new /\ AsFraction(old[x], new[x])
            /\ (\A n \in off : Usable(n, last.signals)) =>
                 /\ last'.result.candidates \subseteq last.result.candidates
                 /\ \A x \in DOMAIN old : x \in DOMAIN new /\ AsFraction(new[x], old[x])
<1>2. ASSUME IInv, IInv' PROVE Step
  <2> DEFINE c == last'.configuration
             d == last.configuration
             s == last.signals
             r == Classify(s, c)
             b == Classify(s, d)
  <2> SUFFICES ASSUME last'.signals = s, Disables(c, d) PROVE Step
    OBVIOUS
  <2>1. /\ c \in Configurations /\ d \in Configurations /\ s \in SignalLists
        /\ last.result = b /\ last'.result = r
    BY <1>2 DEF IInv
  <2>2. /\ (\A n \in SwitchedOff(c, d) : ~Usable(n, s)) => Lower(b, r)
        /\ (\A n \in SwitchedOff(c, d) : Usable(n, s)) =>
             Lower(r, b) /\ DOMAIN r.scores = DOMAIN b.scores
    BY <1>1, <2>1
  <2> HIDE DEF r, b
  <2> QED BY <2>1, <2>2
<1>3. IInv /\ [Next]_last => [Step]_last
  BY <1>2, StepIsCall
<1> QED BY <1>3, ResultIsClassified, PTL DEF Spec, DisablingMovesScoresFairly

-----------------------------------------------------------------------------
(* The oracles.                                                            *)

LEMMA LeastIsThere ==
  ASSUME NEW S \in SUBSET Nat, S # {}
  PROVE  (CHOOSE i \in S : \A j \in S : i <= j) \in S
<1> DEFINE R == {ss \in Nat \X Nat : ss[1] < ss[2]}
<1>1. IsWellFoundedOn(R, Nat)
  BY NatLessThanWellFounded DEF OpToRel
<1> HIDE DEF R
<1>2. PICK k \in S : \A j \in S : <<j, k>> \notin R
  BY <1>1, WFMin
<1>3. ASSUME NEW j \in S PROVE k <= j
  <2>1. j \in Nat /\ k \in Nat /\ <<j, k>> \notin R
    BY <1>2
  <2>2. ~ (j < k)
    BY <2>1 DEF R
  <2> QED BY <2>1, <2>2
<1> QED BY <1>3

\* The primary category is one of the candidates.
LEMMA PrimaryIsCandidate ==
  ASSUME NEW c \in Configurations, NEW positions \in SUBSET Active(c), positions # {},
         Primary(positions, c) # NoId
  PROVE  Primary(positions, c) \in IdsOf(positions, c)
<1> DEFINE ids == IdsOf(positions, c)
<1>1. /\ c.categories \in Seq(Category) /\ c.rules \in Seq(Rule)
  BY ClassificationAssumption DEF Configuration
<1>2. DOMAIN c.categories \subseteq Nat /\ DOMAIN c.rules \subseteq Nat
  BY <1>1
<1>3. CASE HasConflict(ids)
  <2> DEFINE applying == {k \in DOMAIN c.rules : Applies(c.rules[k], ids)}
  <2>1. /\ applying # {} /\ applying \in SUBSET Nat
        /\ Primary(positions, c)
             = c.rules[CHOOSE k \in applying : \A j \in applying : k <= j].winner
    BY <1>2, <1>3 DEF Primary, PrecedenceWinner
  <2>2. (CHOOSE k \in applying : \A j \in applying : k <= j) \in applying
    <3> HIDE DEF applying
    <3> QED BY <2>1, LeastIsThere
  <2> QED BY <2>1, <2>2 DEF Applies
<1>4. CASE ~HasConflict(ids)
  <2>1. positions \in SUBSET Nat
    BY <1>2, ActiveIsPosition
  <2>2. (CHOOSE i \in positions : \A j \in positions : i <= j) \in positions
    BY <2>1, LeastIsThere
  <2> QED BY <1>4, <2>2 DEF Primary, IdsOf
<1> QED BY <1>3, <1>4

LEMMA AcceptedThresholds ==
  ASSUME NEW c \in Configurations, Accepted(c)
  PROVE  ~ThresholdError(c)
BY ActiveIsPosition DEF Accepted, ThresholdError

\* What the result oracle may have against what classify() found.
LEMMA OnlySummaries ==
  ASSUME NEW c \in Configurations, NEW s \in SignalLists
  PROVE  LET r == Classified(s, c) IN
         /\ r.unknown_reason # "analysis_error"
         /\ Issues(r, c) \subseteq {"summaries"}
         /\ r.evidence \cap ContentNames = {} => Issues(r, c) = {}
<1> DEFINE r         == Classified(s, c)
           allowed   == IdsOf(DOMAIN c.categories, c)
           positions == Candidates(s, c)
<1>1. positions \subseteq Active(c) /\ Active(c) \subseteq DOMAIN c.categories
  BY ActiveIsPosition DEF Candidates
<1>2. /\ r.candidates = IdsOf(positions, c)
      /\ r.scores = Scores(s, c)
  BY ResultFacts
<1>3. /\ r.unknown_reason # "analysis_error"
      /\ r.primary # NoId =>
           /\ positions # {} /\ r.primary = Primary(positions, c)
           /\ r.confidence \in {"high", "medium", "low"}
  <2>1. CASE positions = {}
    BY <2>1 DEF Classified, Unknown
  <2>2. CASE positions # {} /\ Primary(positions, c) = NoId
    BY <2>2 DEF Classified, Unknown
  <2>3. CASE positions # {} /\ Primary(positions, c) # NoId
    BY <2>3 DEF Classified, Band
  <2> QED BY <2>1, <2>2, <2>3
<1> HIDE DEF r, positions
<1>4. r.candidates \subseteq allowed
  BY <1>1, <1>2 DEF IdsOf
<1>5. r.primary \in (allowed \cup {NoId}) \ {Insufficient}
  <2>1. CASE r.primary = NoId
    BY <2>1, ClassificationAssumption
  <2>2. CASE r.primary # NoId
    <3>1. r.primary \in IdsOf(positions, c)
      BY <1>1, <1>3, <2>2, PrimaryIsCandidate
    <3>2. \A i \in Active(c) : c.categories[i].id # Insufficient
      BY DEF Active
    <3> QED BY <1>1, <3>1, <3>2 DEF IdsOf
  <2> QED BY <2>1, <2>2
<1>6. \A x \in DOMAIN r.scores : x \in allowed /\ r.scores[x].hits \in 0..r.scores[x].of
  <2>1. SUFFICES ASSUME NEW x \in IdsOf(Active(c), c)
                 PROVE  x \in allowed /\ r.scores[x].hits \in 0..r.scores[x].of
    BY <1>2 DEF Scores
  <2>2. PICK i \in Active(c) : r.scores[x] = Score(c.categories[i], s, c)
    <3> DEFINE i == CHOOSE i \in Active(c) : c.categories[i].id = x
    <3>1. i \in Active(c) /\ r.scores[x] = Score(c.categories[i], s, c)
      BY <1>2, ScoredPosition DEF Scores
    <3> HIDE DEF i
    <3> QED BY <3>1
  <2>3. x \in allowed
    BY <1>1 DEF IdsOf
  <2> DEFINE score == r.scores[x]
  <2>4. score.hits \in Nat /\ score.of \in Nat /\ score.hits <= score.of
    BY <1>1, <2>2, ScoreFacts
  <2> HIDE DEF score
  <2>5. score.hits \in 0..score.of
    BY <2>4
  <2> QED BY <2>3, <2>5 DEF score
<1>7. ASSUME NEW x \in Issues(r, c)
      PROVE  x = "summaries" /\ r.evidence \cap ContentNames # {}
  <2> DEFINE found ==
        [primary_category     |-> r.primary \notin (allowed \cup {NoId}) \ {Insufficient},
         secondary_categories |-> r.primary # NoId /\ ~(r.candidates \subseteq allowed),
         confidence_band      |-> r.primary # NoId /\ r.confidence = "none",
         category_scores      |-> \E y \in DOMAIN r.scores :
           y \notin allowed \/ r.scores[y].hits \notin 0..r.scores[y].of,
         summaries            |-> r.evidence \cap ContentNames # {}]
  <2>1. x \in DOMAIN found /\ found[x]
    BY <1>7 DEF Issues
  <2>2. /\ ~found["primary_category"] /\ ~found["secondary_categories"]
        /\ ~found["confidence_band"] /\ ~found["category_scores"]
        /\ found["summaries"] => r.evidence \cap ContentNames # {}
    BY <1>3, <1>4, <1>5, <1>6
  <2>3. x \in {"primary_category", "secondary_categories", "confidence_band",
               "category_scores", "summaries"}
    BY <2>1
  <2> HIDE DEF found
  <2>4. CASE x = "summaries"
    BY <2>1, <2>2, <2>4, Zenon
  <2>5. CASE x # "summaries"
    BY <2>1, <2>2, <2>3, <2>5, Zenon
  <2> QED BY <2>4, <2>5
<1> QED BY <1>3, <1>7 DEF r

\* Under a configuration the configuration oracle accepts the classifier never fails, and the
\* result oracle has nothing against its results but the summaries of content-derived signals.
THEOREM AcceptedMeansClassifiable == Spec => []AcceptedConfigurationsClassify
<1>1. ASSUME IInv, Accepted(last.configuration), last.configuration.enabled
      PROVE  /\ last.result.unknown_reason # "analysis_error"
             /\ Issues(last.result, last.configuration) \subseteq {"summaries"}
             /\ last.result.evidence \cap ContentNames = {} =>
                  Issues(last.result, last.configuration) = {}
  <2>1. /\ last.signals \in SignalLists /\ last.configuration \in Configurations
        /\ last.result = Classified(last.signals, last.configuration)
    BY <1>1, AcceptedThresholds DEF IInv, Classify
  <2> QED BY <2>1, OnlySummaries
<1>2. IInv => AcceptedConfigurationsClassify
  BY <1>1 DEF AcceptedConfigurationsClassify
<1> QED BY <1>2, ResultIsClassified, PTL

=============================================================================
