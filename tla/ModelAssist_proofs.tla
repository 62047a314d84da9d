-------------------------- MODULE ModelAssist_proofs --------------------------
(***************************************************************************)
(* For every set of policies, contents and responses, and any number of    *)
(* calls: what reaches an endpoint is approved, redacted and bounded, the  *)
(* attempts reported are the invocations made, and proposals are advice    *)
(* about allowed features only that hands back no word and no unbroken     *)
(* passage of what an endpoint was sent.                                   *)
(***************************************************************************)
EXTENDS ModelAssist, TLAPS, FiniteSetTheorems, FunctionTheorems, SequenceTheorems, Induction

\* While the client is being called the arguments are the ones that passed every check, and
\* all earlier attempts of the call were invocations.
CallIsApproved ==
  pc = "invoke" =>
    /\ policy \in Policies /\ content \in Contents
    /\ Refusal(content, policy) = "none"
    /\ sent = attempt - 1
    /\ answer = None

\* Whatever was sent begins as its content does once collapsed.
RequestsAreCuts ==
  \A d \in received :
    /\ d.content \in Content
    /\ \E n, m \in Nat : /\ d.request.prompt = Cut(Collapsed(d.content.prompt), n)
                         /\ d.request.response = Cut(Collapsed(d.content.response), m)

IInv ==
  /\ TypeOK /\ CallIsApproved /\ RequestsAreCuts
  /\ EndpointsSeeOnlyApproved /\ AttemptsAreInvocations /\ ProposalsAreAdvice

-----------------------------------------------------------------------------
(* Sequences one after the other.                                          *)

\* What FlattenSeq does: it adds one sequence after the other.
LEMMA FlattenSteps ==
  ASSUME NEW seqs, Len(seqs) \in Nat \ {0}
  PROVE  \E f : /\ Seqs!FlattenSeq(seqs) = f[Len(seqs)]
                /\ f[1] = seqs[1]
                /\ \A i \in 2..Len(seqs) : f[i] = f[i - 1] \o seqs[i]
<1> DEFINE N == Len(seqs)
           Upto(k, f) == f = [i \in 1..k |-> IF i = 1 THEN seqs[i] ELSE f[i - 1] \o seqs[i]]
           flatten == CHOOSE f : Upto(N, f)
<1>1. Seqs!FlattenSeq(seqs) = flatten[N]
  BY DEF Seqs!FlattenSeq
<1>2. \E f : Upto(N, f)
  <2> DEFINE A == {k \in Nat : \E f : Upto(k, f)}
  <2>1. 0 \in A
    <3>1. Upto(0, [i \in 1..0 |-> 0])
      OBVIOUS
    <3> HIDE DEF Upto
    <3> QED BY <3>1
  <2>2. ASSUME NEW k \in Nat, k \in A PROVE k + 1 \in A
    <3>1. PICK f : Upto(k, f)
      BY <2>2
    <3> DEFINE g == [i \in 1..(k + 1) |->
                       IF i = k + 1 THEN IF i = 1 THEN seqs[i] ELSE f[k] \o seqs[i] ELSE f[i]]
    <3>2. ASSUME NEW i \in 1..(k + 1)
          PROVE  g[i] = IF i = 1 THEN seqs[i] ELSE g[i - 1] \o seqs[i]
      <4>1. CASE i = k + 1
        <5>1. CASE i = 1
          BY <4>1, <5>1
        <5>2. CASE i # 1
          <6>1. i - 1 \in 1..(k + 1) /\ i - 1 # k + 1 /\ i - 1 = k
            BY <4>1, <5>2
          <6> QED BY <4>1, <5>2, <6>1
        <5> QED BY <5>1, <5>2
      <4>2. CASE i # k + 1
        <5>1. i \in 1..k /\ g[i] = f[i]
          BY <4>2
        <5>2. f[i] = IF i = 1 THEN seqs[i] ELSE f[i - 1] \o seqs[i]
          BY <3>1, <5>1
        <5>3. CASE i # 1
          <6>1. i - 1 \in 1..(k + 1) /\ i - 1 # k + 1
            BY <5>1, <5>3
          <6> QED BY <5>1, <5>2, <5>3, <6>1
        <5> QED BY <5>1, <5>2, <5>3
      <4> QED BY <4>1, <4>2
    <3>3. Upto(k + 1, g)
      BY <3>2
    <3> HIDE DEF Upto, g
    <3> QED BY <3>3
  <2>3. Nat \subseteq A
    <3> HIDE DEF A
    <3> QED BY <2>1, <2>2, NatSetInduction
  <2> QED BY <2>3
<1>3. Upto(N, flatten)
  <2> HIDE DEF Upto
  <2> QED BY <1>2
<1> HIDE DEF flatten
<1>4. \A i \in 1..N : flatten[i] = IF i = 1 THEN seqs[i] ELSE flatten[i - 1] \o seqs[i]
  BY <1>3
<1>5. flatten[1] = seqs[1] /\ \A i \in 2..N : flatten[i] = flatten[i - 1] \o seqs[i]
  <2>1. 1 \in 1..N /\ \A i \in 2..N : i \in 1..N /\ i # 1
    OBVIOUS
  <2> QED BY <1>4, <2>1
<1> QED BY <1>1, <1>5

\* What holds of the first sequence, and of every next one after those before, holds of all.
LEMMA FlattenInduction ==
  ASSUME NEW seqs, Len(seqs) \in Nat \ {0},
         NEW Good, seqs[1] \in Good[1],
         \A i \in 2..Len(seqs) : \A s \in Good[i - 1] : s \o seqs[i] \in Good[i]
  PROVE  Seqs!FlattenSeq(seqs) \in Good[Len(seqs)]
<1> DEFINE N == Len(seqs)
<1>1. PICK f : /\ Seqs!FlattenSeq(seqs) = f[N]
               /\ f[1] = seqs[1]
               /\ \A i \in 2..N : f[i] = f[i - 1] \o seqs[i]
  BY FlattenSteps
<1> DEFINE B == {k \in Nat : k + 1 \in 1..N => f[k + 1] \in Good[k + 1]}
<1>2. 0 \in B
  BY <1>1
<1>3. ASSUME NEW k \in Nat, k \in B PROVE k + 1 \in B
  <2> SUFFICES ASSUME k + 2 \in 1..N PROVE f[k + 2] \in Good[k + 2]
    OBVIOUS
  <2>1. k + 1 \in 1..N /\ k + 2 \in 2..N /\ (k + 2) - 1 = k + 1
    OBVIOUS
  <2>2. f[k + 1] \in Good[k + 1] /\ f[k + 2] = f[k + 1] \o seqs[k + 2]
    BY <1>1, <1>3, <2>1
  <2> QED BY <2>1, <2>2
<1>4. Nat \subseteq B
  <2> HIDE DEF B
  <2> QED BY <1>2, <1>3, NatSetInduction
<1>5. N - 1 \in Nat /\ (N - 1) + 1 = N /\ N \in 1..N
  OBVIOUS
<1>6. f[N] \in Good[N]
  <2>1. N - 1 \in B
    <3> HIDE DEF B
    <3> QED BY <1>4, <1>5
  <2>2. (N - 1) + 1 \in 1..N => f[(N - 1) + 1] \in Good[(N - 1) + 1]
    BY <2>1
  <2> QED BY <1>5, <2>1, <2>2
<1> QED BY <1>1, <1>6

\* Sequences over T, one after the other, are a sequence over T.
LEMMA FlattenFacts ==
  ASSUME NEW T, NEW seqs \in Seq(Seq(T))
  PROVE  Seqs!FlattenSeq(seqs) \in Seq(T)
<1>1. CASE Len(seqs) = 0
  BY <1>1 DEF Seqs!FlattenSeq
<1>2. CASE Len(seqs) # 0
  <2> DEFINE Good == [i \in 1..Len(seqs) |-> Seq(T)]
  <2>1. Len(seqs) \in Nat \ {0} /\ \A i \in 1..Len(seqs) : seqs[i] \in Seq(T)
    BY <1>2
  <2>2. \A i \in 1..Len(seqs) : Good[i] = Seq(T)
    OBVIOUS
  <2>3. 1 \in 1..Len(seqs) /\ Len(seqs) \in 1..Len(seqs)
    BY <2>1
  <2>4. \A i \in 2..Len(seqs) : i \in 1..Len(seqs) /\ i - 1 \in 1..Len(seqs)
    BY <2>1
  <2> HIDE DEF Good
  <2>5. ASSUME NEW i \in 2..Len(seqs), NEW s \in Good[i - 1] PROVE s \o seqs[i] \in Good[i]
    <3>1. s \in Seq(T) /\ seqs[i] \in Seq(T)
      BY <2>1, <2>2, <2>4
    <3>2. s \o seqs[i] \in Seq(T)
      BY <3>1
    <3> QED BY <2>2, <2>4, <3>2
  <2> QED BY <2>1, <2>2, <2>3, <2>5, FlattenInduction
<1> QED BY <1>1, <1>2

-----------------------------------------------------------------------------
(* The pure operators.                                                     *)

\* Cutting a text keeps a prefix of at most n words.
LEMMA CutFacts ==
  ASSUME NEW S, NEW w \in Seq(S), NEW n \in Nat
  PROVE  /\ Cut(w, n) \in Seq(S)
         /\ Len(Cut(w, n)) <= n /\ Len(Cut(w, n)) <= Len(w)
         /\ Range(Cut(w, n)) \subseteq Range(w)
<1>1. CASE n >= Len(w)
  BY <1>1 DEF Cut
<1>2. CASE ~(n >= Len(w))
  <2>1. Cut(w, n) = SubSeq(w, 1, n)
    BY <1>2 DEF Cut
  <2>2. /\ SubSeq(w, 1, n) \in Seq(S)
        /\ Len(SubSeq(w, 1, n)) = n
        /\ \A i \in 1..n : SubSeq(w, 1, n)[i] = w[i]
    BY <1>2
  <2>3. Range(SubSeq(w, 1, n)) \subseteq Range(w)
    <3>1. DOMAIN SubSeq(w, 1, n) = 1..n /\ DOMAIN w = 1..Len(w)
      BY <2>2
    <3> QED BY <1>2, <2>2, <3>1 DEF Range
  <2> QED BY <1>2, <2>1, <2>2, <2>3
<1> QED BY <1>1, <1>2

\* Collapsing adds no word and keeps a text without breaks as it is.
LEMMA CollapsedFacts ==
  ASSUME NEW v \in Preview \cup {None}
  PROVE  /\ Raw(v) \in Seq(Words) /\ Collapsed(v) \in Seq(Words)
         /\ Len(Collapsed(v)) <= Len(Raw(v))
         /\ Range(Collapsed(v)) \subseteq Range(Raw(v))
         /\ Break \notin Range(Raw(v)) => Collapsed(v) = Raw(v)
<1>1. CASE v = None
  BY <1>1 DEF Collapsed, Raw
<1>2. CASE v # None /\ v = <<>>
  <2>1. Seqs!FlattenSeq([i \in DOMAIN v |-> IF v[i] = Break THEN <<>> ELSE <<v[i]>>]) = <<>>
    <3>1. Len([i \in DOMAIN v |-> IF v[i] = Break THEN <<>> ELSE <<v[i]>>]) = 0
      BY <1>2
    <3> QED BY <3>1 DEF Seqs!FlattenSeq
  <2>2. Collapsed(v) = <<>> /\ Raw(v) = <<>>
    BY <1>2, <2>1 DEF Collapsed, Raw
  <2> QED BY <2>2
<1>3. CASE v # None /\ v # <<>>
  <2> DEFINE T == Range(v)
             N == Len(v)
             seqs == [i \in DOMAIN v |-> IF v[i] = Break THEN <<>> ELSE <<v[i]>>]
             Good == [i \in 1..N |->
                        {s \in Seq(T) :
                           /\ Len(s) <= i
                           /\ Break \notin T => Len(s) = i /\ \A j \in 1..i : s[j] = v[j]}]
  <2>1. /\ v \in Seq(Words) /\ N \in Nat \ {0} /\ DOMAIN v = 1..N
        /\ \A i \in 1..N : v[i] \in T
    BY <1>3 DEF Preview, Range
  <2>2. Len(seqs) = N /\ \A i \in 1..N : seqs[i] = IF v[i] = Break THEN <<>> ELSE <<v[i]>>
    BY <2>1
  <2>3. Collapsed(v) = Seqs!FlattenSeq(seqs) /\ Raw(v) = v
    BY <1>3 DEF Collapsed, Raw
  <2>4. Break \notin T => \A i \in 1..N : v[i] # Break
    BY <2>1
  <2> HIDE DEF T, seqs, N
  <2>5. seqs[1] \in Good[1]
    <3>1. 1 \in 1..N /\ v[1] \in T
      BY <2>1
    <3>2. CASE v[1] = Break
      <4>1. seqs[1] = <<>> /\ Len(<<>>) <= 1 /\ <<>> \in Seq(T) /\ Break \in T
        BY <2>2, <3>1, <3>2
      <4> QED BY <3>1, <4>1
    <3>3. CASE v[1] # Break
      <4>1. seqs[1] = <<v[1]>>
        BY <2>2, <3>1, <3>3
      <4>2. /\ <<v[1]>> \in Seq(T) /\ Len(<<v[1]>>) = 1
            /\ \A j \in 1..1 : <<v[1]>>[j] = v[j]
        BY <3>1
      <4> QED BY <3>1, <4>1, <4>2
    <3> QED BY <3>2, <3>3
  <2>6. ASSUME NEW i \in 2..N, NEW s \in Good[i - 1] PROVE s \o seqs[i] \in Good[i]
    <3>1. i \in 1..N /\ i - 1 \in 1..N /\ i - 1 \in Nat
      BY <2>1
    <3>2. /\ s \in Seq(T) /\ Len(s) <= i - 1
          /\ Break \notin T => Len(s) = i - 1 /\ \A j \in 1..(i - 1) : s[j] = v[j]
      BY <3>1
    <3>3. CASE v[i] = Break
      <4>1. seqs[i] = <<>> /\ Break \in T
        BY <2>1, <2>2, <3>1, <3>3
      <4>2. s \o <<>> = s /\ Len(s) \in Nat
        BY <3>2
      <4>3. Len(s) <= i
        BY <3>1, <3>2, <4>2
      <4> QED BY <3>1, <3>2, <4>1, <4>2, <4>3
    <3>4. CASE v[i] # Break
      <4>1. seqs[i] = <<v[i]>> /\ v[i] \in T
        BY <2>1, <2>2, <3>1, <3>4
      <4>2. s \o <<v[i]>> \in Seq(T) /\ Len(s \o <<v[i]>>) = Len(s) + 1
        BY <3>2, <4>1
      <4>3. Break \notin T => \A j \in 1..i : (s \o <<v[i]>>)[j] = v[j]
        BY <3>1, <3>2, <4>1
      <4>4. Len(s) \in Nat
        BY <3>2
      <4> DEFINE t == s \o <<v[i]>>
      <4>5. Len(t) <= i /\ (Break \notin T => Len(t) = i)
        BY <3>1, <3>2, <4>2, <4>4
      <4>6. s \o seqs[i] = t /\ t \in Seq(T) /\ (Break \notin T => \A j \in 1..i : t[j] = v[j])
        BY <4>1, <4>2, <4>3
      <4> HIDE DEF t
      <4> QED BY <3>1, <4>5, <4>6
    <3> QED BY <3>3, <3>4
  <2>7. Collapsed(v) \in Good[N]
    <3> HIDE DEF Good
    <3> QED BY <2>1, <2>2, <2>3, <2>5, <2>6, FlattenInduction
  <2>8. /\ Collapsed(v) \in Seq(T) /\ Len(Collapsed(v)) <= N
        /\ Break \notin T => Len(Collapsed(v)) = N /\ \A j \in 1..N : Collapsed(v)[j] = v[j]
    BY <2>1, <2>7
  <2>9. T \subseteq Words /\ T = Range(v)
    BY <2>1 DEF T, Range
  <2>10. Range(Collapsed(v)) \subseteq T /\ Collapsed(v) \in Seq(Words)
    BY <2>8, <2>9, SeqMonotonic DEF Range
  <2>11. Break \notin T => Collapsed(v) = v
    BY <2>1, <2>8
  <2> QED BY <2>1, <2>3, <2>8, <2>9, <2>10, <2>11
<1> QED BY <1>1, <1>2, <1>3

\* A text in the beginning of a text is in that text.
LEMMA PassageOfCut ==
  ASSUME NEW s \in Seq(Words), NEW w \in Seq(Words), NEW n \in Nat, Passage(s, Cut(w, n))
  PROVE  Passage(s, w)
<1>1. CASE n >= Len(w)
  BY <1>1 DEF Cut
<1>2. CASE ~(n >= Len(w))
  <2>1. /\ Cut(w, n) = SubSeq(w, 1, n) /\ Len(SubSeq(w, 1, n)) = n
        /\ \A i \in 1..n : SubSeq(w, 1, n)[i] = w[i]
    BY <1>2 DEF Cut
  <2>2. PICK k \in 0..(n - Len(s)) : \A i \in DOMAIN s : s[i] = SubSeq(w, 1, n)[k + i]
    BY <2>1 DEF Passage
  <2>3. \A i \in DOMAIN s : k + i \in 1..n
    BY <2>2
  <2>4. k \in 0..(Len(w) - Len(s)) /\ \A i \in DOMAIN s : s[i] = w[k + i]
    BY <1>2, <2>1, <2>2, <2>3
  <2> QED BY <2>4 DEF Passage
<1> QED BY <1>1, <1>2

\* A text in one of two texts is in the two together.
LEMMA PassageOfPart ==
  ASSUME NEW s \in Seq(Words), NEW v \in Seq(Words), NEW w \in Seq(Words),
         Passage(s, v) \/ Passage(s, w)
  PROVE  Passage(s, v \o w)
<1>1. /\ Len(v) \in Nat /\ Len(w) \in Nat /\ Len(s) \in Nat /\ DOMAIN s = 1..Len(s)
      /\ Len(v \o w) = Len(v) + Len(w)
      /\ \A i \in 1..Len(v) : (v \o w)[i] = v[i]
      /\ \A i \in 1..Len(w) : (v \o w)[Len(v) + i] = w[i]
  OBVIOUS
<1>2. CASE Passage(s, v)
  <2>1. PICK k \in 0..(Len(v) - Len(s)) : \A i \in DOMAIN s : s[i] = v[k + i]
    BY <1>2 DEF Passage
  <2>2. k \in 0..(Len(v \o w) - Len(s)) /\ \A i \in DOMAIN s : k + i \in 1..Len(v)
    BY <1>1, <2>1
  <2>3. \A i \in DOMAIN s : s[i] = (v \o w)[k + i]
    BY <1>1, <2>1, <2>2
  <2> QED BY <2>2, <2>3 DEF Passage
<1>3. CASE Passage(s, w)
  <2>1. PICK k \in 0..(Len(w) - Len(s)) : \A i \in DOMAIN s : s[i] = w[k + i]
    BY <1>3 DEF Passage
  <2>2. /\ Len(v) + k \in 0..(Len(v \o w) - Len(s))
        /\ \A i \in DOMAIN s : k + i \in 1..Len(w) /\ (Len(v) + k) + i = Len(v) + (k + i)
    BY <1>1, <2>1
  <2>3. \A i \in DOMAIN s : s[i] = (v \o w)[(Len(v) + k) + i]
    BY <1>1, <2>1, <2>2
  <2> QED BY <2>2, <2>3 DEF Passage
<1> QED BY <1>2, <1>3

\* Of a word, or of a preview without breaks, nothing comes back that is not in the raw text.
LEMMA HandedBackIsRaw ==
  ASSUME NEW s \in Seq(Words), NEW v \in Preview \cup {None}, NEW n \in Nat,
         HandsBack(s, Cut(Collapsed(v), n), v)
  PROVE  Passage(s, Raw(v))
<1>1. /\ Raw(v) \in Seq(Words) /\ Collapsed(v) \in Seq(Words)
      /\ Range(Collapsed(v)) \subseteq Range(Raw(v))
      /\ Break \notin Range(Raw(v)) => Collapsed(v) = Raw(v)
  BY CollapsedFacts
<1>2. Passage(s, Collapsed(v))
  BY <1>1, PassageOfCut DEF HandsBack
<1>3. CASE Break \notin Range(Raw(v))
  BY <1>1, <1>2, <1>3
<1>4. CASE Len(s) = 1
  <2> DEFINE w == Collapsed(v)  t == Raw(v)
  <2>1. PICK k \in 0..(Len(w) - 1) : s[1] = w[k + 1]
    BY <1>2, <1>4 DEF Passage
  <2> HIDE DEF w, t
  <2>2. w[k + 1] \in Range(w)
    <3>1. k + 1 \in DOMAIN w
      BY <1>1, <2>1 DEF w
    <3> QED BY <3>1 DEF Range
  <2>3. PICK j \in DOMAIN t : t[j] = s[1]
    BY <1>1, <2>1, <2>2 DEF w, t, Range
  <2>4. j - 1 \in 0..(Len(t) - 1) /\ (j - 1) + 1 = j /\ DOMAIN s = {1}
    BY <1>1, <1>4, <2>3 DEF t
  <2>5. \A i \in DOMAIN s : s[i] = t[(j - 1) + i]
    BY <2>3, <2>4
  <2> QED BY <1>4, <2>4, <2>5 DEF t, Passage
<1> QED BY <1>3, <1>4 DEF HandsBack

\* What passed every check, spelled out.
LEMMA PassedChecks ==
  ASSUME NEW c \in Contents, NEW p \in Policies, Refusal(c, p) = "none"
  PROVE  /\ p.enabled /\ p.approved /\ ValidPolicy(p) /\ EndpointAllowed(p)
         /\ c \in Content /\ c.status = "redacted"
         /\ p \in Policy /\ p.max_input \in Nat /\ p.max_attempts \in Nat \ {0}
         /\ p.endpoint \in Endpoints /\ p.model \in Models
<1>1. /\ p.enabled /\ p.approved /\ ValidPolicy(p) /\ EndpointAllowed(p) /\ ValidContent(c)
  BY DEF Refusal
<1>2. c \in Content /\ c.status = "redacted" /\ p \in Policy
  BY <1>1, ModelAssistAssumption DEF ValidContent
<1> QED BY <1>1, <1>2 DEF ValidPolicy, Policy

\* A request built from what passed the checks is bounded and holds nothing else.
LEMMA RequestFacts ==
  ASSUME NEW c \in Contents, NEW p \in Policies, Refusal(c, p) = "none"
  PROVE  LET q == BuildRequest(c, p) IN
         /\ q \in Request
         /\ q.endpoint = p.endpoint
         /\ Range(q.prompt) \cup Range(q.response) \subseteq SourceWords(c)
         /\ Len(q.prompt) + Len(q.response) <= p.max_input
         /\ \E n, m \in Nat : /\ q.prompt = Cut(Collapsed(c.prompt), n)
                              /\ q.response = Cut(Collapsed(c.response), m)
<1>1. /\ c \in Content /\ p.max_input \in Nat
      /\ p.endpoint \in Endpoints /\ p.model \in Models
  BY PassedChecks
<1>2. Collapsed(c.prompt) \in Seq(Words) /\ Collapsed(c.response) \in Seq(Words)
  BY <1>1, CollapsedFacts DEF Content
<1> DEFINE v == Cut(Collapsed(c.prompt), p.max_input)
           w == Cut(Collapsed(c.response), p.max_input - Len(v))
<1>3. /\ v \in Seq(Words) /\ Len(v) <= p.max_input
      /\ Range(v) \subseteq Range(Collapsed(c.prompt))
  BY <1>1, <1>2, CutFacts
<1>4. p.max_input - Len(v) \in Nat
  BY <1>1, <1>3
<1>8. \E n, m \in Nat : /\ v = Cut(Collapsed(c.prompt), n)
                        /\ w = Cut(Collapsed(c.response), m)
  BY <1>1, <1>4
<1> HIDE DEF v
<1>5. /\ w \in Seq(Words) /\ Len(w) <= p.max_input - Len(v)
      /\ Range(w) \subseteq Range(Collapsed(c.response))
  BY <1>2, <1>4, CutFacts
<1>6. BuildRequest(c, p) =
        [endpoint |-> p.endpoint, model |-> p.model, prompt |-> v, response |-> w]
  BY DEF BuildRequest, v
<1> HIDE DEF w
<1>7. Len(v) \in Nat /\ Len(w) \in Nat
  BY <1>3, <1>5
<1>9. LET q == BuildRequest(c, p) IN
      /\ q \in Request /\ q.endpoint = p.endpoint /\ q.prompt = v /\ q.response = w
  BY <1>1, <1>3, <1>5, <1>6 DEF Request
<1>10. Range(v) \cup Range(w) \subseteq SourceWords(c) /\ Len(v) + Len(w) <= p.max_input
  BY <1>1, <1>3, <1>5, <1>7 DEF SourceWords
<1> QED BY <1>8, <1>9, <1>10

\* Unique names: as many as there are features.
LEMMA NamesCount ==
  ASSUME NEW F \in Seq(Feature), UniqueNames(F)
  PROVE  Cardinality({F[i].name : i \in DOMAIN F}) = Len(F)
<1> DEFINE N == {F[i].name : i \in 1..Len(F)}
           g == [i \in 1..Len(F) |-> F[i].name]
<1>1. Len(F) \in Nat /\ DOMAIN F = 1..Len(F)
  OBVIOUS
<1>2. g \in Bijection(1..Len(F), N)
  <2>1. g \in [1..Len(F) -> N]
    OBVIOUS
  <2>2. \A i, j \in 1..Len(F) : g[i] = g[j] => i = j
    BY <1>1 DEF UniqueNames
  <2>3. \A x \in N : \E i \in 1..Len(F) : g[i] = x
    OBVIOUS
  <2> QED BY <2>1, <2>2, <2>3, Fun_IsBij
<1>3. Cardinality(1..Len(F)) = Len(F) /\ IsFiniteSet(1..Len(F))
  BY <1>1, FS_Interval
<1>4. Cardinality(N) = Cardinality(1..Len(F))
  BY <1>2, <1>3, FS_Bijection DEF ExistsBijection
<1> QED BY <1>1, <1>3, <1>4

\* A response without error holds advice about allowed features.
LEMMA ResponseFacts ==
  ASSUME NEW c \in Contents, NEW p \in Policies, ValidPolicy(p),
         NEW r \in Responses, ResponseError(r, p, c) = "none"
  PROVE  /\ r.features \in Seq(Feature)
         /\ \A i \in DOMAIN r.features :
              LET f == r.features[i] IN
              /\ f.name \in ContentNames \cap Range(p.allowed)
              /\ f.evidence.signal_names \subseteq ContentNames
              /\ f.evidence.summaries \subseteq Seq(Words)
              /\ \A s \in f.evidence.summaries \ Short : ~Passage(s, SourceText(c))
         /\ Cardinality({r.features[i].name : i \in DOMAIN r.features}) = Len(r.features)
<1>1. /\ r # None /\ UniqueNames(r.features)
      /\ \A i \in DOMAIN r.features : ValidFeature(r.features[i], p, c)
  BY DEF ResponseError
<1>2. r.features \in Seq(Feature)
  BY <1>1, ModelAssistAssumption DEF Response
<1>3. Range(p.allowed) \subseteq ContentNames
  BY DEF ValidPolicy
<1>4. ASSUME NEW i \in DOMAIN r.features
      PROVE  LET f == r.features[i] IN
             /\ f.name \in ContentNames \cap Range(p.allowed)
             /\ f.evidence.signal_names \subseteq ContentNames
             /\ f.evidence.summaries \subseteq Seq(Words)
             /\ \A s \in f.evidence.summaries \ Short : ~Passage(s, SourceText(c))
  <2>1. ValidFeature(r.features[i], p, c)
    BY <1>1
  <2>2. r.features[i] \in Feature
    BY <1>2
  <2>3. r.features[i].evidence.summaries \subseteq Seq(Words)
    BY <2>2 DEF Feature, Evidence
  <2> QED BY <2>1, <2>3, <1>3 DEF ValidFeature, ValidEvidence
<1>5. Cardinality({r.features[i].name : i \in DOMAIN r.features}) = Len(r.features)
  BY <1>1, <1>2, NamesCount
<1> QED BY <1>2, <1>4, <1>5

-----------------------------------------------------------------------------
(* The steps.                                                              *)

LEMMA InitOK == Init => IInv
BY ModelAssistAssumption
   DEF Init, IInv, TypeOK, CallIsApproved, RequestsAreCuts, EndpointsSeeOnlyApproved,
       AttemptsAreInvocations, ProposalsAreAdvice, Answer

LEMMA RefuseOK ==
  ASSUME IInv, NEW c \in Contents, NEW p \in Policies, Refuse(c, p)
  PROVE  IInv'
<1>1. /\ pc = "idle" /\ pc' = "idle" /\ policy' = p /\ content' = c /\ sent' = 0
      /\ attempt' = 0 /\ received' = received /\ calls' = calls + 1 /\ calls < MaxCalls
      /\ answer' = ModelError(Refusal(c, p), 0)
  BY DEF Refuse, Arguments
<1>2. Refusal(c, p) \in RefusalCodes
  BY DEF Refuse, Refusal, RefusalCodes
<1>3. /\ answer'.code \in RefusalCodes /\ answer' \in Answer
  BY <1>1, <1>2 DEF ModelError, Answer, Codes
<1>4. TypeOK'
  BY <1>1, <1>3, ModelAssistAssumption DEF IInv, TypeOK
<1>5. AttemptsAreInvocations' /\ ProposalsAreAdvice'
  BY <1>1, <1>3 DEF AttemptsAreInvocations, ProposalsAreAdvice, RefusalCodes
<1>6. EndpointsSeeOnlyApproved' /\ RequestsAreCuts'
  BY <1>1 DEF IInv, EndpointsSeeOnlyApproved, RequestsAreCuts
<1> QED BY <1>1, <1>4, <1>5, <1>6 DEF IInv, CallIsApproved

LEMMA BeginOK ==
  ASSUME IInv, NEW c \in Contents, NEW p \in Policies, Begin(c, p)
  PROVE  IInv'
<1>1. /\ pc = "idle" /\ pc' = "invoke" /\ policy' = p /\ content' = c /\ sent' = 0
      /\ attempt' = 1 /\ received' = received /\ calls' = calls + 1 /\ calls < MaxCalls
      /\ answer' = None /\ Refusal(c, p) = "none"
  BY DEF Begin, Arguments
<1>2. p.max_attempts \in Nat \ {0}
  BY <1>1, PassedChecks
<1>3. TypeOK'
  BY <1>1, <1>2, ModelAssistAssumption DEF IInv, TypeOK
<1>4. EndpointsSeeOnlyApproved' /\ RequestsAreCuts'
  BY <1>1 DEF IInv, EndpointsSeeOnlyApproved, RequestsAreCuts
<1>5. CallIsApproved' /\ AttemptsAreInvocations' /\ ProposalsAreAdvice'
  BY <1>1 DEF CallIsApproved, AttemptsAreInvocations, ProposalsAreAdvice
<1> QED BY <1>3, <1>4, <1>5 DEF IInv

\* What the call in progress delivers is approved.
LEMMA DeliveryOK ==
  ASSUME IInv, pc = "invoke", received' \in {received, received \cup {Delivery}}
  PROVE  /\ EndpointsSeeOnlyApproved' /\ RequestsAreCuts'
         /\ received' \subseteq [policy : Policies, content : Contents, request : Request]
<1>1. /\ policy \in Policies /\ content \in Contents /\ Refusal(content, policy) = "none"
  BY DEF IInv, CallIsApproved
<1> DEFINE q == BuildRequest(content, policy)
<1>2. /\ q \in Request
      /\ q.endpoint = policy.endpoint
      /\ Range(q.prompt) \cup Range(q.response) \subseteq SourceWords(content)
      /\ Len(q.prompt) + Len(q.response) <= policy.max_input
      /\ \E n, m \in Nat : /\ q.prompt = Cut(Collapsed(content.prompt), n)
                           /\ q.response = Cut(Collapsed(content.response), m)
  BY <1>1, RequestFacts
<1>3. /\ policy.enabled /\ policy.approved /\ content.status = "redacted" /\ content \in Content
      /\ ApprovedEndpoints # {} => policy.endpoint \in ApprovedEndpoints
  BY <1>1, PassedChecks DEF EndpointAllowed
<1> HIDE DEF q
<1>4. Delivery = [policy |-> policy, content |-> content, request |-> q]
  BY DEF Delivery, q
<1>5. Delivery \in [policy : Policies, content : Contents, request : Request]
  BY <1>1, <1>2, <1>4
<1>6. ASSUME NEW d \in received'
      PROVE  /\ d.policy.enabled /\ d.policy.approved
             /\ d.request.endpoint = d.policy.endpoint
             /\ ApprovedEndpoints # {} => d.request.endpoint \in ApprovedEndpoints
             /\ d.content.status = "redacted"
             /\ Range(d.request.prompt) \cup Range(d.request.response)
                  \subseteq SourceWords(d.content)
             /\ Len(d.request.prompt) + Len(d.request.response) <= d.policy.max_input
  <2>1. CASE d \in received
    BY <2>1 DEF IInv, EndpointsSeeOnlyApproved
  <2>2. CASE d = Delivery
    <3>1. d.policy = policy /\ d.content = content /\ d.request = q
      BY <2>2, <1>4
    <3> QED BY <3>1, <1>2, <1>3
  <2> QED BY <2>1, <2>2
<1>7. EndpointsSeeOnlyApproved'
  BY <1>6 DEF EndpointsSeeOnlyApproved
<1>8. received \subseteq [policy : Policies, content : Contents, request : Request]
  BY DEF IInv, TypeOK
<1>9. RequestsAreCuts'
  <2>1. ASSUME NEW d \in received'
        PROVE  /\ d.content \in Content
               /\ \E n, m \in Nat : /\ d.request.prompt = Cut(Collapsed(d.content.prompt), n)
                                    /\ d.request.response = Cut(Collapsed(d.content.response), m)
    <3>1. CASE d \in received
      BY <3>1 DEF IInv, RequestsAreCuts
    <3>2. CASE d = Delivery
      <4>1. d.content = content /\ d.request = q
        BY <3>2, <1>4
      <4> QED BY <4>1, <1>2, <1>3
    <3> QED BY <3>1, <3>2
  <2> QED BY <2>1 DEF RequestsAreCuts
<1> QED BY <1>5, <1>7, <1>8, <1>9

LEMMA AnsweredOK ==
  ASSUME IInv, NEW r \in Responses, Answered(r)
  PROVE  IInv'
<1> DEFINE e == ResponseError(r, policy, content)
<1>1. /\ pc = "invoke" /\ pc' = "idle" /\ policy' = policy /\ content' = content
      /\ sent' = sent + 1 /\ attempt' = attempt /\ calls' = calls
      /\ received' = received \cup {Delivery}
      /\ answer' = IF e = "none" THEN ProposedFeatures(r.features) ELSE ModelError(e, 0)
  BY DEF Answered, Invoke
<1>2. /\ policy \in Policies /\ content \in Contents /\ Refusal(content, policy) = "none"
      /\ sent = attempt - 1 /\ attempt \in 1..policy.max_attempts /\ attempt \in Nat
      /\ calls \in 0..MaxCalls
  BY <1>1 DEF IInv, TypeOK, CallIsApproved
<1>3. ValidPolicy(policy) /\ policy.max_attempts \in Nat
  BY <1>2, PassedChecks
<1>4. /\ EndpointsSeeOnlyApproved' /\ RequestsAreCuts'
      /\ received' \subseteq [policy : Policies, content : Contents, request : Request]
  BY <1>1, DeliveryOK
<1>5. CASE e = "none"
  <2>1. /\ answer' = ProposedFeatures(r.features)
        /\ answer'.code = "features" /\ answer'.features = r.features
    BY <1>1, <1>5 DEF ProposedFeatures
  <2>2. r.features \in Seq(Feature) /\ answer' \in Answer
    BY <1>2, <1>3, <1>5, <2>1, ResponseFacts DEF ProposedFeatures, Answer
  <2>3. ProposalsAreAdvice'
    <3>1. /\ \A i \in DOMAIN r.features :
               LET f == r.features[i] IN
               /\ f.name \in ContentNames \cap Range(policy.allowed)
               /\ f.evidence.signal_names \subseteq ContentNames
               /\ f.evidence.summaries \subseteq Seq(Words)
               /\ \A s \in f.evidence.summaries \ Short : ~Passage(s, SourceText(content))
          /\ Cardinality({r.features[i].name : i \in DOMAIN r.features}) = Len(r.features)
      BY <1>2, <1>3, <1>5, ResponseFacts
    <3>2. ASSUME NEW i \in DOMAIN r.features, NEW d \in received',
                 NEW s \in r.features[i].evidence.summaries \ Short, d.content = content
          PROVE  /\ ~HandsBack(s, d.request.prompt, content.prompt)
                 /\ ~HandsBack(s, d.request.response, content.response)
      <4>1. s \in Seq(Words) /\ ~Passage(s, SourceText(content))
        BY <3>1
      <4>2. PICK n, m \in Nat : /\ d.request.prompt = Cut(Collapsed(content.prompt), n)
                                /\ d.request.response = Cut(Collapsed(content.response), m)
        BY <1>4, <3>2 DEF RequestsAreCuts
      <4>3. content.prompt \in Preview \cup {None} /\ content.response \in Preview \cup {None}
        BY <1>4, <3>2 DEF RequestsAreCuts, Content
      <4>4. ~Passage(s, Raw(content.prompt)) /\ ~Passage(s, Raw(content.response))
        BY <4>1, <4>3, PassageOfPart, CollapsedFacts DEF SourceText
      <4> QED BY <4>1, <4>2, <4>3, <4>4, HandedBackIsRaw
    <3> QED BY <1>1, <2>1, <3>1, <3>2 DEF ProposalsAreAdvice
  <2>4. AttemptsAreInvocations'
    BY <1>1, <1>2, <1>3, <2>1 DEF AttemptsAreInvocations
  <2> QED BY <1>1, <1>2, <1>4, <2>2, <2>3, <2>4 DEF IInv, TypeOK, CallIsApproved
<1>6. CASE e # "none"
  <2>1. e \in ResponseCodes
    BY <1>6 DEF ResponseError, ResponseCodes
  <2>2. /\ answer' = ModelError(e, 0) /\ answer'.code = e
    BY <1>1, <1>6 DEF ModelError
  <2>3. answer' \in Answer
    BY <2>1, <2>2 DEF ModelError, Answer, Codes
  <2>4. e # "features" /\ e # "model_retry_exhausted"
    BY <2>1 DEF ResponseCodes
  <2> HIDE DEF e
  <2>5. ProposalsAreAdvice' /\ AttemptsAreInvocations'
    BY <1>1, <1>2, <1>3, <2>2, <2>4 DEF ProposalsAreAdvice, AttemptsAreInvocations
  <2> QED BY <1>1, <1>2, <1>4, <2>3, <2>5 DEF IInv, TypeOK, CallIsApproved
<1> QED BY <1>5, <1>6

LEMMA RaisedOK ==
  ASSUME IInv, Raised
  PROVE  IInv'
<1>1. /\ pc = "invoke" /\ policy' = policy /\ content' = content
      /\ sent' = sent + 1 /\ calls' = calls
      /\ received' \in {received, received \cup {Delivery}}
  BY DEF Raised, Invoke
<1>2. /\ policy \in Policies /\ content \in Contents /\ Refusal(content, policy) = "none"
      /\ sent = attempt - 1 /\ attempt \in 1..policy.max_attempts /\ attempt \in Nat
      /\ calls \in 0..MaxCalls /\ answer = None
  BY <1>1 DEF IInv, TypeOK, CallIsApproved
<1>3. policy.max_attempts \in Nat
  BY <1>2, PassedChecks
<1>4. /\ EndpointsSeeOnlyApproved' /\ RequestsAreCuts'
      /\ received' \subseteq [policy : Policies, content : Contents, request : Request]
  BY <1>1, DeliveryOK
<1>5. CASE attempt < policy.max_attempts
  <2>1. attempt' = attempt + 1 /\ pc' = "invoke" /\ answer' = None
    BY <1>1, <1>2, <1>5 DEF Raised
  <2>2. TypeOK'
    BY <1>1, <1>2, <1>3, <1>4, <1>5, <2>1 DEF TypeOK
  <2>3. CallIsApproved' /\ AttemptsAreInvocations' /\ ProposalsAreAdvice'
    BY <1>1, <1>2, <1>3, <1>5, <2>1
       DEF CallIsApproved, AttemptsAreInvocations, ProposalsAreAdvice
  <2> QED BY <1>4, <2>2, <2>3 DEF IInv
<1>6. CASE ~(attempt < policy.max_attempts)
  <2>1. /\ attempt' = attempt /\ pc' = "idle"
        /\ answer' = ModelError("model_retry_exhausted", attempt)
    BY <1>6 DEF Raised
  <2>2. /\ answer'.code = "model_retry_exhausted" /\ answer'.attempts = attempt
        /\ answer' \in Answer
    BY <1>2, <2>1 DEF ModelError, Answer, Codes
  <2>3. attempt = policy.max_attempts
    BY <1>2, <1>3, <1>6
  <2>4. TypeOK'
    BY <1>1, <1>2, <1>4, <2>1, <2>2 DEF TypeOK
  <2>5. CallIsApproved' /\ AttemptsAreInvocations' /\ ProposalsAreAdvice'
    BY <1>1, <1>2, <1>3, <2>1, <2>2, <2>3
       DEF CallIsApproved, AttemptsAreInvocations, ProposalsAreAdvice
  <2> QED BY <1>4, <2>4, <2>5 DEF IInv
<1> QED BY <1>5, <1>6

LEMMA NextOK == IInv /\ [Next]_vars => IInv'
<1> SUFFICES ASSUME IInv, [Next]_vars PROVE IInv'
  OBVIOUS
<1>1. ASSUME NEW c \in Contents, NEW p \in Policies, Refuse(c, p) \/ Begin(c, p)
      PROVE  IInv'
  BY <1>1, RefuseOK, BeginOK
<1>2. CASE InvokeStep
  BY <1>2, AnsweredOK, RaisedOK DEF InvokeStep
<1>3. CASE UNCHANGED vars
  BY <1>3 DEF vars, IInv, TypeOK, CallIsApproved, RequestsAreCuts, EndpointsSeeOnlyApproved,
              AttemptsAreInvocations, ProposalsAreAdvice
<1> QED BY <1>1, <1>2, <1>3 DEF Next

-----------------------------------------------------------------------------
(* The results.                                                            *)

\* The invariant that makes the others inductive: what a call in progress may rely on.
THEOREM AdapterInvariant == Spec => []IInv
<1>1. Init => IInv
  BY InitOK
<1>2. IInv /\ [Next]_vars => IInv'
  BY NextOK
<1> QED BY <1>1, <1>2, PTL DEF Spec

\* Every variable keeps its type, and the attempt counter its bound.
THEOREM AdapterTypes == Spec => []TypeOK
BY AdapterInvariant, PTL DEF IInv

\* extract_features() lets nothing reach an endpoint but approved, redacted, bounded text.
THEOREM EndpointsAreProtected == Spec => []EndpointsSeeOnlyApproved
BY AdapterInvariant, PTL DEF IInv

\* The attempt loop makes at most max_attempts invocations and reports their true number.
THEOREM AttemptsAreTrue == Spec => []AttemptsAreInvocations
BY AdapterInvariant, PTL DEF IInv

\* _validate_response lets only unique proposals about allowed features through, whose
\* summaries hand back no word and no unbroken passage of what was sent, unless they are short.
THEOREM ProposalsAreBounded == Spec => []ProposalsAreAdvice
BY AdapterInvariant, PTL DEF IInv

=============================================================================
