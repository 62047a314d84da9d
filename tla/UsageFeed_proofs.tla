---------------------------- MODULE UsageFeed_proofs ----------------------------
(***************************************************************************)
(* For any invocations, requests and loaders, however long the clock runs  *)
(* and however many copies are delivered: what a read of the data lake     *)
(* finds, what two reads find between them, that content changes nothing   *)
(* else in a record, that a column the loader spoils costs no more than    *)
(* the fields it decides, and that the stages behind can use every record. *)
(***************************************************************************)
EXTENDS UsageFeed, Induction, FiniteSetTheorems, FunctionTheorems, TLAPS

-----------------------------------------------------------------------------
(* Days and ticks.                                                         *)

LEMMA ConstantTypes ==
  /\ TicksPerDay \in Nat /\ TicksPerDay > 0
  /\ WindowDays \in Nat /\ WindowDays > 0 /\ WindowDays * TicksPerDay \in Nat
<1>1. TicksPerDay \in Nat /\ TicksPerDay > 0 /\ WindowDays \in Nat /\ WindowDays > 0
  BY DataLakeAssumption
<1> QED BY <1>1

LEMMA DayBounds ==
  ASSUME NEW t \in Nat
  PROVE  /\ DayOf(t) \in Nat
         /\ TicksPerDay * DayOf(t) <= t
         /\ t < TicksPerDay * DayOf(t) + TicksPerDay
<1>1. TicksPerDay \in Nat /\ TicksPerDay > 0
  BY ConstantTypes
<1>2. /\ t = TicksPerDay * (t \div TicksPerDay) + (t % TicksPerDay)
      /\ t % TicksPerDay \in 0 .. (TicksPerDay - 1)
  BY <1>1, Z3
<1>3. t \div TicksPerDay \in Int /\ TicksPerDay * (t \div TicksPerDay) \in Int
  BY <1>1
<1> QED BY <1>1, <1>2, <1>3 DEF DayOf

LEMMA MultiplesGrow ==
  ASSUME NEW k \in Nat, k > 0, NEW a \in Int, NEW b \in Int, a < b
  PROVE  k * a \in Int /\ k * b \in Int /\ k * a + k <= k * b
OBVIOUS

LEMMA DayIsMonotone ==
  ASSUME NEW t \in Nat, NEW u \in Nat, t <= u
  PROVE  DayOf(t) <= DayOf(u)
<1>1. SUFFICES ASSUME DayOf(u) < DayOf(t) PROVE FALSE
  BY DayBounds
<1>2. TicksPerDay * DayOf(u) + TicksPerDay <= TicksPerDay * DayOf(t)
  BY <1>1, ConstantTypes, DayBounds, MultiplesGrow
<1> QED BY <1>2, ConstantTypes, DayBounds

\* What happens within 24 hours happens on the same day or the next.
LEMMA NextDayAtMost ==
  ASSUME NEW t \in Nat, NEW u \in Nat, u <= t + TicksPerDay
  PROVE  DayOf(u) <= DayOf(t) + 1
<1>1. SUFFICES ASSUME DayOf(t) + 1 < DayOf(u) PROVE FALSE
  BY DayBounds
<1>2. /\ DayOf(t) \in Int /\ DayOf(t) + 1 \in Int /\ DayOf(u) \in Int
      /\ DayOf(t) < DayOf(t) + 1
  BY DayBounds
<1>3. TicksPerDay * DayOf(t) + TicksPerDay <= TicksPerDay * (DayOf(t) + 1)
  BY <1>2, ConstantTypes, MultiplesGrow
<1>4. TicksPerDay * (DayOf(t) + 1) + TicksPerDay <= TicksPerDay * DayOf(u)
  BY <1>1, <1>2, ConstantTypes, MultiplesGrow
<1>5. /\ TicksPerDay * DayOf(t) \in Int /\ TicksPerDay * (DayOf(t) + 1) \in Int
      /\ TicksPerDay * DayOf(u) \in Int
  BY <1>2, ConstantTypes
<1> QED BY <1>3, <1>4, <1>5, ConstantTypes, DayBounds

\* A copy stored on a day after the window's first two is shown by the view.
LEMMA LaterDaysAreInView ==
  ASSUME NEW time \in Nat, NEW arrival \in Nat, NEW at \in Nat,
         arrival <= time + TicksPerDay, DayOf(arrival) > DayOf(at) - WindowDays + 1
  PROVE  time >= at - WindowDays * TicksPerDay
<1> DEFINE first == DayOf(at) - WindowDays
<1>1. /\ DayOf(time) \in Nat /\ DayOf(at) \in Nat /\ DayOf(arrival) \in Nat /\ first \in Int
      /\ WindowDays \in Int /\ TicksPerDay \in Int
  BY ConstantTypes, DayBounds
<1>2. first < DayOf(time)
  BY <1>1, NextDayAtMost
<1>3. TicksPerDay * first = TicksPerDay * DayOf(at) - WindowDays * TicksPerDay
  BY <1>1
<1> HIDE DEF first
<1>4. TicksPerDay * first + TicksPerDay <= TicksPerDay * DayOf(time)
  BY <1>1, <1>2, ConstantTypes, MultiplesGrow
<1>5. /\ TicksPerDay * DayOf(at) \in Int /\ TicksPerDay * DayOf(time) \in Int
      /\ TicksPerDay * first \in Int
  BY <1>1
<1> QED BY <1>3, <1>4, <1>5, ConstantTypes, DayBounds

-----------------------------------------------------------------------------
(* The inductive invariant: what is stored, and what a read found.         *)

Admits(filters, c) ==
  \A d \in Dimensions : /\ Entry[c.of][Column[d]] # None
                        /\ Entry[c.of][Column[d]].text \in filters[d]

WindowAt(tick) == [first |-> DayOf(tick) - WindowDays, last |-> DayOf(tick)]

\* What the query of a request selects of the lake.
Queried(c, r) ==
  /\ Partition(c) \in batches[r].days
  /\ Admits(r.scope.filters, c)
  /\ InView(c, batches[r].at)

LakeOK ==
  /\ now \in Nat
  /\ invoked \in [Invocations -> Nat \cup {Nobody}]
  /\ \A i \in Invocations : invoked[i] # Nobody => invoked[i] <= now

\* A copy is of an invocation that happened at most a day before the copy arrived.
CopyOK(c) ==
  /\ c.of \in Invocations /\ c.time = invoked[c.of]
  /\ c.time \in Nat /\ c.arrival \in Nat
  /\ c.time <= c.arrival /\ c.arrival <= c.time + TicksPerDay /\ c.arrival <= now

\* A read found what it asked for, and all of it that was stored before the tick of the read.
ReadOK(r) ==
  /\ Bounded(r.scope)
  /\ batches[r].at \in Nat /\ batches[r].at <= now
  /\ batches[r].days = EffectiveDays(r.scope, WindowAt(batches[r].at))
  /\ \A c \in Rows(r) : /\ c \in stored /\ Queried(c, r)
                        /\ batches[r].results[c] = NormalizedBy(c, r, loader)
  /\ \A c \in stored : c.arrival < batches[r].at /\ Queried(c, r) => c \in Rows(r)

IInv ==
  /\ LakeOK
  /\ batches = [r \in Requests |-> batches[r]]
  /\ \A c \in stored : CopyOK(c)
  /\ \A r \in Done : ReadOK(r)

LEMMA InitEstablishes == FeedInit => IInv
<1> SUFFICES ASSUME FeedInit PROVE IInv
  OBVIOUS
<1>1. LakeOK
  BY DataLakeAssumption DEF FeedInit, LakeInit, LakeOK
<1>2. stored = {} /\ Done = {} /\ batches = [r \in Requests |-> batches[r]]
  BY DEF FeedInit, LakeInit, Done
<1> QED BY <1>1, <1>2 DEF IInv

\* A read stays what it was while only copies that arrive now or later are added.
LEMMA ReadsKeep ==
  ASSUME NEW r \in Requests, ReadOK(r), LakeOK, now' \in Nat, now <= now',
         batches'[r] = batches[r], loader' = loader,
         stored \subseteq stored', \A c \in stored' \ stored : c.arrival = now
  PROVE  ReadOK(r)'
<1>1. Rows(r)' = Rows(r)
  BY DEF Rows
<1>2. \A c : Queried(c, r)' = Queried(c, r)
  BY DEF Queried, InView, Partition, DayOf, Admits
<1>3. /\ (batches[r].at \in Nat)' /\ (batches[r].at <= now)'
      /\ (batches[r].days = EffectiveDays(r.scope, WindowAt(batches[r].at)))'
  BY DEF ReadOK, LakeOK, WindowAt, DayOf, EffectiveDays
<1>4. \A c : NormalizedBy(c, r, loader)' = NormalizedBy(c, r, loader)
  BY DEF NormalizedBy, SourceRow, ViewCell, TimeCell, EventTime, Partition, DayOf
<1>5. \A c \in Rows(r) : /\ c \in stored' /\ Queried(c, r)'
                        /\ (batches[r].results[c] = NormalizedBy(c, r, loader))'
  BY <1>2, <1>4 DEF ReadOK
<1>6. \A c \in stored' : c.arrival < batches[r].at /\ Queried(c, r) => c \in Rows(r)
  BY DEF ReadOK, LakeOK
<1> QED BY <1>1, <1>2, <1>3, <1>5, <1>6 DEF ReadOK

LEMMA LakeKeeps ==
  ASSUME IInv, Lake
  PROVE  IInv'
<1>1. /\ loader' = loader /\ batches' = batches /\ LakeNext
      /\ batches' = [r \in Requests |-> batches'[r]] /\ Done' = Done
  BY DEF Lake, IInv, Done
<1>2. SUFFICES /\ LakeOK' /\ now <= now' /\ stored \subseteq stored'
               /\ \A c \in stored : CopyOK(c)'
               /\ \A c \in stored' \ stored : c.arrival = now /\ CopyOK(c)'
  BY <1>1, ReadsKeep DEF IInv, Done, LakeOK
<1>3. CASE Tick
  BY <1>3 DEF Tick, IInv, LakeOK, CopyOK
<1>4. ASSUME NEW i \in Invocations, Invoke(i)
      PROVE  <1>2!1
  <2>1. /\ invoked[i] = Nobody /\ invoked' = [invoked EXCEPT ![i] = now]
        /\ now' = now /\ stored' = stored /\ now \in Nat
    BY <1>4 DEF Invoke, IInv, LakeOK
  <2>2. LakeOK'
    BY <2>1 DEF IInv, LakeOK
  <2>3. \A c \in stored : c.of # i
    BY <2>1, DataLakeAssumption DEF IInv, CopyOK
  <2>4. \A c \in stored : CopyOK(c)'
    BY <2>1, <2>3 DEF IInv, LakeOK, CopyOK
  <2> QED BY <2>1, <2>2, <2>4
<1>5. ASSUME NEW i \in Invocations, Deliver(i)
      PROVE  <1>2!1
  <2>1. PICK c : /\ stored' = stored \cup {c}
                 /\ c.of = i /\ c.time = invoked[i] /\ c.arrival = now
    <3> WITNESS [of |-> i, time |-> invoked[i], arrival |-> now,
                 number |-> Cardinality({d \in stored : d.of = i})]
    <3> QED BY <1>5 DEF Deliver
  <2>2. /\ now' = now /\ invoked' = invoked
        /\ invoked[i] # Nobody /\ now <= invoked[i] + TicksPerDay
    BY <1>5 DEF Deliver
  <2>3. invoked[i] \in Nat /\ invoked[i] <= now /\ now \in Nat
    BY <2>2 DEF IInv, LakeOK
  <2>4. CopyOK(c)'
    BY <2>1, <2>2, <2>3 DEF CopyOK
  <2> QED BY <2>1, <2>2, <2>4 DEF IInv, LakeOK, CopyOK
<1> QED BY <1>1, <1>3, <1>4, <1>5 DEF LakeNext

LEMMA ReadKeeps ==
  ASSUME IInv, NEW request \in Requests, Read(request)
  PROVE  IInv'
<1> DEFINE rows == Selected(BuildSourceQuery(PlanOf(request), request.content))
<1>1. /\ now' = now /\ invoked' = invoked /\ stored' = stored /\ loader' = loader
      /\ Bounded(request.scope) /\ now \in Nat
  BY DEF Read, lakeVars, Resolvable, IInv, LakeOK
<1>2. /\ batches' = [r \in Requests |-> batches'[r]]
      /\ \A r \in Requests \ {request} : batches'[r] = batches[r]
      /\ batches'[request].at = now
      /\ batches'[request].days = PlanOf(request).days
      /\ batches'[request].results = [c \in rows |-> NormalizedBy(c, request, loader)]
  BY DEF Read, IInv
<1>3. LakeOK' /\ \A c \in stored' : CopyOK(c)'
  BY <1>1 DEF IInv, LakeOK, CopyOK
<1>4. ASSUME NEW r \in Done', r # request
      PROVE  ReadOK(r)'
  <2>1. r \in Done /\ r \in Requests /\ batches'[r] = batches[r]
    BY <1>2, <1>4 DEF Done
  <2> QED BY <1>1, <2>1, ReadsKeep DEF IInv
<1>5. ReadOK(request)'
  <2>1. PlanOf(request).days = EffectiveDays(request.scope, WindowAt(now))
    BY DEF PlanOf, ResolveSourceScope, CurrentWindow, WindowAt
  <2>2. Rows(request)' = rows
    BY <1>2 DEF Rows
  <2>3. rows = {c \in stored : /\ Partition(c) \in PlanOf(request).days
                              /\ Admits(request.scope.filters, c)
                              /\ InView(c, now)}
    BY DEF Selected, BuildSourceQuery, PlanOf, ResolveSourceScope, Admits
  <2> HIDE DEF rows
  <2>4. \A c : Queried(c, request)' <=> /\ Partition(c) \in PlanOf(request).days
                                       /\ Admits(request.scope.filters, c)
                                       /\ InView(c, now)
    BY <1>2 DEF Queried, Partition, InView, DayOf, Admits
  <2>5. \A c : NormalizedBy(c, request, loader)' = NormalizedBy(c, request, loader)
    BY <1>1 DEF NormalizedBy, SourceRow, ViewCell, TimeCell, EventTime, Partition, DayOf
  <2>6. (batches[request].days = EffectiveDays(request.scope, WindowAt(batches[request].at)))'
    BY <1>2, <2>1 DEF WindowAt, DayOf, EffectiveDays
  <2>7. \A c \in rows : batches'[request].results[c] = NormalizedBy(c, request, loader)
    BY <1>2
  <2> QED BY <1>1, <1>2, <2>2, <2>3, <2>4, <2>5, <2>6, <2>7 DEF ReadOK
<1> QED BY <1>2, <1>3, <1>4, <1>5 DEF IInv

\* Reading, logging and delivering in any order keep the invariant.
THEOREM ReadsAreComplete == FeedSpec => []IInv
<1>1. IInv /\ [FeedNext]_feedVars => IInv'
  <2> SUFFICES ASSUME IInv, [FeedNext]_feedVars PROVE IInv'
    OBVIOUS
  <2>1. CASE Lake
    BY <2>1, LakeKeeps
  <2>2. ASSUME NEW r \in Requests, Read(r) PROVE IInv'
    BY <2>2, ReadKeeps
  <2>3. CASE UNCHANGED feedVars
    <3>1. /\ now' = now /\ invoked' = invoked /\ stored' = stored
          /\ loader' = loader /\ batches' = batches
      BY <2>3 DEF feedVars, lakeVars
    <3>2. Done' = Done /\ (LakeOK /\ batches = [r \in Requests |-> batches[r]])'
      BY <3>1 DEF Done, IInv, LakeOK
    <3>3. \A c \in stored : CopyOK(c)'
      BY <3>1 DEF IInv, CopyOK
    <3>4. \A r \in Done : ReadOK(r)'
      BY <3>1, ReadsKeep DEF IInv, Done, LakeOK
    <3> QED BY <3>1, <3>2, <3>3, <3>4 DEF IInv
  <2> QED BY <2>1, <2>2, <2>3 DEF FeedNext
<1> QED BY <1>1, InitEstablishes, PTL DEF FeedSpec

-----------------------------------------------------------------------------
(* What reads find.                                                        *)

\* The days of a read are the requested ones the window still holds.
LEMMA DaysOfARead ==
  ASSUME IInv, NEW r \in Done, NEW d \in Int
  PROVE  /\ r.scope.start_date \in Int /\ r.scope.end_date \in Int
         /\ DayOf(batches[r].at) \in Nat
         /\ d \in batches[r].days <=>
              /\ r.scope.start_date <= d /\ d <= r.scope.end_date
              /\ DayOf(batches[r].at) - WindowDays <= d /\ d <= DayOf(batches[r].at)
<1>1. ReadOK(r) /\ r.scope \in Scope
  BY UsageFeedAssumption DEF IInv, Done, RequestType
<1>2. /\ r.scope.start_date \in Int /\ r.scope.end_date \in Int
      /\ DayOf(batches[r].at) \in Nat /\ WindowDays \in Nat
  BY <1>1, DayBounds, ConstantTypes DEF ReadOK, Bounded, Scope
<1> QED BY <1>1, <1>2 DEF ReadOK, EffectiveDays, WindowAt, Later, Earlier

\* A read finds every stored copy of its days and filters the view shows, if they came before.
LEMMA FindsWhatIsThere ==
  ASSUME IInv, NEW r \in Done, NEW c \in stored,
         DayOf(c.arrival) < DayOf(batches[r].at),
         r.scope.start_date <= DayOf(c.arrival), DayOf(c.arrival) <= r.scope.end_date,
         DayOf(batches[r].at) - WindowDays <= DayOf(c.arrival),
         Admits(r.scope.filters, c), InView(c, batches[r].at)
  PROVE  c \in Rows(r)
<1>1. CopyOK(c) /\ ReadOK(r) /\ c.arrival \in Nat /\ batches[r].at \in Nat
  BY DEF IInv, CopyOK, ReadOK
<1>2. DayOf(c.arrival) \in Nat /\ DayOf(batches[r].at) \in Nat
  BY <1>1, DayBounds
<1>3. Queried(c, r)
  BY <1>2, DaysOfARead DEF Queried, Partition
<1>4. c.arrival < batches[r].at
  BY <1>1, <1>2, DayIsMonotone
<1> QED BY <1>1, <1>3, <1>4 DEF ReadOK

\* What is known of a row of a read.
LEMMA RowFacts ==
  ASSUME IInv, NEW r \in Done, NEW c \in Rows(r)
  PROVE  /\ c \in stored /\ CopyOK(c) /\ DayOf(c.arrival) \in Nat
         /\ r.scope.start_date <= DayOf(c.arrival) /\ DayOf(c.arrival) <= r.scope.end_date
         /\ DayOf(batches[r].at) - WindowDays <= DayOf(c.arrival)
         /\ Admits(r.scope.filters, c) /\ InView(c, batches[r].at)
<1>1. ReadOK(r) /\ c \in stored /\ Queried(c, r) /\ CopyOK(c)
  BY DEF IInv, ReadOK
<1>2. DayOf(c.arrival) \in Nat
  BY <1>1, DayBounds DEF CopyOK
<1> QED BY <1>1, <1>2, DaysOfARead DEF Queried, Partition

\* A day that is over is final: a read of it finds every copy a later read of it finds, and
\* later reads lose only what left the six months.
THEOREM ClosedDaysStayFinal == FeedSpec => []ClosedDaysAreFinal
<1>1. IInv => ClosedDaysAreFinal
  <2> SUFFICES ASSUME IInv, NEW r \in Done, NEW s \in Done,
                      SameFilters(r, s), Closed(r), batches[r].at <= batches[s].at
               PROVE  /\ \A c \in Rows(s) : /\ DayOf(c.arrival) >= r.scope.start_date
                                            /\ DayOf(c.arrival) <= r.scope.end_date
                           => c \in Rows(r)
                      /\ \A c \in Rows(r) : StillReached(c, s) => c \in Rows(s)
    BY DEF ClosedDaysAreFinal
  <2>1. /\ batches[r].at \in Nat /\ batches[s].at \in Nat
        /\ WindowDays \in Nat /\ WindowDays * TicksPerDay \in Nat
    BY ConstantTypes DEF IInv, ReadOK
  <2>2. /\ DayOf(batches[r].at) \in Nat /\ DayOf(batches[s].at) \in Nat
        /\ DayOf(batches[r].at) <= DayOf(batches[s].at)
    BY <2>1, DayBounds, DayIsMonotone
  <2>3. /\ r.scope.start_date \in Int /\ r.scope.end_date \in Int
        /\ s.scope.start_date \in Int /\ s.scope.end_date \in Int
    BY DaysOfARead
  <2>4. ASSUME NEW c \in Rows(s), DayOf(c.arrival) >= r.scope.start_date,
               DayOf(c.arrival) <= r.scope.end_date
        PROVE  c \in Rows(r)
    <3>1. /\ c \in stored /\ CopyOK(c) /\ DayOf(c.arrival) \in Nat
          /\ DayOf(batches[s].at) - WindowDays <= DayOf(c.arrival)
          /\ Admits(s.scope.filters, c) /\ InView(c, batches[s].at)
      BY RowFacts
    <3>2. InView(c, batches[r].at)
      BY <2>1, <3>1 DEF InView, CopyOK
    <3>3. /\ DayOf(c.arrival) < DayOf(batches[r].at)
          /\ DayOf(batches[r].at) - WindowDays <= DayOf(c.arrival)
      BY <2>1, <2>2, <2>3, <2>4, <3>1 DEF Closed
    <3>4. Admits(r.scope.filters, c)
      BY <3>1 DEF SameFilters
    <3> QED BY <2>4, <3>1, <3>2, <3>3, <3>4, <2>3, FindsWhatIsThere
  <2>5. ASSUME NEW c \in Rows(r), StillReached(c, s)
        PROVE  c \in Rows(s)
    <3>1. /\ c \in stored /\ DayOf(c.arrival) \in Nat /\ DayOf(c.arrival) <= r.scope.end_date
          /\ Admits(s.scope.filters, c)
      BY RowFacts DEF SameFilters
    <3>2. DayOf(c.arrival) < DayOf(batches[s].at)
      BY <2>2, <2>3, <3>1 DEF Closed
    <3>3. /\ InView(c, batches[s].at)
          /\ s.scope.start_date <= DayOf(c.arrival) /\ DayOf(c.arrival) <= s.scope.end_date
          /\ DayOf(batches[s].at) - WindowDays <= DayOf(c.arrival)
      BY <2>1, <2>2, <2>3, <2>5, <3>1 DEF StillReached
    <3> QED BY <3>1, <3>2, <3>3, FindsWhatIsThere
  <2> QED BY <2>4, <2>5
<1> QED BY <1>1, ReadsAreComplete, PTL

\* Reading range after range counts every delivered copy once, also one that arrived after
\* midnight, unless it left the six months or the filters.
THEOREM AdjacentReadsPartitionTheLake == FeedSpec => []AdjacentReadsCoverTheLake
<1>1. IInv => AdjacentReadsCoverTheLake
  <2> SUFFICES ASSUME IInv, NEW r \in Done, NEW s \in Done,
                      SameFilters(r, s), s.scope.start_date = r.scope.end_date + 1
               PROVE  /\ Rows(r) \cap Rows(s) = {}
                      /\ \A c \in stored :
                           /\ Closed(r) /\ Closed(s)
                           /\ DayOf(c.time) >= r.scope.start_date
                           /\ DayOf(c.time) < s.scope.end_date
                           /\ InView(c, batches[r].at) /\ InView(c, batches[s].at)
                           /\ DayOf(c.arrival) >= DayOf(batches[r].at) - WindowDays
                           /\ DayOf(c.arrival) >= DayOf(batches[s].at) - WindowDays
                           /\ Admits(r.scope.filters, c)
                           => c \in Rows(r) \cup Rows(s)
    BY DEF AdjacentReadsCoverTheLake, Admits
  <2>1. /\ r.scope.start_date \in Int /\ r.scope.end_date \in Int
        /\ s.scope.start_date \in Int /\ s.scope.end_date \in Int
        /\ DayOf(batches[r].at) \in Nat /\ DayOf(batches[s].at) \in Nat
        /\ WindowDays \in Nat
    BY DaysOfARead, ConstantTypes
  <2>2. \A c \in Rows(r) : c \notin Rows(s)
    BY <2>1, RowFacts
  <2>3. ASSUME NEW c \in stored, Closed(r), Closed(s),
               DayOf(c.time) >= r.scope.start_date, DayOf(c.time) < s.scope.end_date,
               InView(c, batches[r].at), InView(c, batches[s].at),
               DayOf(c.arrival) >= DayOf(batches[r].at) - WindowDays,
               DayOf(c.arrival) >= DayOf(batches[s].at) - WindowDays,
               Admits(r.scope.filters, c)
        PROVE  c \in Rows(r) \cup Rows(s)
    <3>1. /\ c.time \in Nat /\ c.arrival \in Nat /\ c.time <= c.arrival
          /\ c.arrival <= c.time + TicksPerDay
      BY DEF IInv, CopyOK
    <3>2. /\ DayOf(c.time) \in Nat /\ DayOf(c.arrival) \in Nat
          /\ DayOf(c.time) <= DayOf(c.arrival) /\ DayOf(c.arrival) <= DayOf(c.time) + 1
      BY <3>1, DayBounds, DayIsMonotone, NextDayAtMost
    <3>3. CASE DayOf(c.arrival) <= r.scope.end_date
      <4>1. /\ DayOf(c.arrival) < DayOf(batches[r].at)
            /\ r.scope.start_date <= DayOf(c.arrival)
            /\ DayOf(batches[r].at) - WindowDays <= DayOf(c.arrival)
        BY <2>1, <2>3, <3>2, <3>3 DEF Closed
      <4> QED BY <2>3, <3>3, <4>1, FindsWhatIsThere
    <3>4. CASE DayOf(c.arrival) > r.scope.end_date
      <4>1. /\ DayOf(c.arrival) < DayOf(batches[s].at)
            /\ s.scope.start_date <= DayOf(c.arrival) /\ DayOf(c.arrival) <= s.scope.end_date
            /\ DayOf(batches[s].at) - WindowDays <= DayOf(c.arrival)
        BY <2>1, <2>3, <3>2, <3>4 DEF Closed
      <4> QED BY <2>3, <4>1, FindsWhatIsThere DEF SameFilters
    <3> QED BY <2>1, <3>2, <3>3, <3>4
  <2> QED BY <2>2, <2>3
<1> QED BY <1>1, ReadsAreComplete, PTL

\* Of the days a plan covers only the first two of the window can miss stored rows: the view
\* cuts the first by time, and late arrivals the day after it.
THEOREM InnerDaysAreWhole == FeedSpec => []OnlyEdgeDaysAreCut
<1>1. IInv => OnlyEdgeDaysAreCut
  <2> SUFFICES ASSUME IInv, NEW r \in Done, NEW c \in stored,
                      c.arrival < batches[r].at, DayOf(c.arrival) \in batches[r].days,
                      DayOf(c.arrival) > DayOf(batches[r].at) - WindowDays + 1,
                      Admits(r.scope.filters, c)
               PROVE  c \in Rows(r)
    BY DEF OnlyEdgeDaysAreCut, Admits
  <2>1. CopyOK(c) /\ ReadOK(r)
    BY DEF IInv
  <2>2. InView(c, batches[r].at)
    BY <2>1, LaterDaysAreInView DEF InView, CopyOK, ReadOK
  <2> QED BY <2>1, <2>2 DEF ReadOK, Queried, Partition
<1> QED BY <1>1, ReadsAreComplete, PTL

-----------------------------------------------------------------------------
(* What content changes in a record.                                       *)

\* A record without its content and context.
ButContent(record) == [record EXCEPT !.sensitive = None, !.context = None]

\* The columns no field is read from: content, and the day of the partition.
Aside == ContentFields \cup {"day"}

\* Two rows that have the same columns but for those.
SameButContent(one, other) ==
  \A column : column \notin Aside =>
    /\ column \in DOMAIN one <=> column \in DOMAIN other
    /\ column \in DOMAIN one => one[column] = other[column]

LEMMA AliasesAvoidContent ==
  ASSUME NEW f \in DOMAIN FieldAliases, f \notin ContentFields,
         NEW i \in DOMAIN FieldAliases[f]
  PROVE  FieldAliases[f][i] \notin Aside
BY DEF FieldAliases, ContentFields, Aside

LEMMA AtMostSixAliases ==
  ASSUME NEW f \in DOMAIN FieldAliases
  PROVE  DOMAIN FieldAliases[f] \subseteq 1..6
BY DEF FieldAliases

LEMMA LeastOfSix ==
  ASSUME NEW S \in SUBSET (1..6), S # {}
  PROVE  \E i \in S : \A j \in S : i <= j
<1>1. \A j \in S : j \in {1, 2, 3, 4, 5, 6}
  OBVIOUS
<1>2. CASE 1 \in S
  BY <1>1, <1>2
<1>3. CASE 1 \notin S /\ 2 \in S
  BY <1>1, <1>3
<1>4. CASE 1 \notin S /\ 2 \notin S /\ 3 \in S
  BY <1>1, <1>4
<1>5. CASE 1 \notin S /\ 2 \notin S /\ 3 \notin S /\ 4 \in S
  BY <1>1, <1>5
<1>6. CASE 1 \notin S /\ 2 \notin S /\ 3 \notin S /\ 4 \notin S /\ 5 \in S
  BY <1>1, <1>6
<1>7. CASE S = {6}
  BY <1>7
<1> QED BY <1>1, <1>2, <1>3, <1>4, <1>5, <1>6, <1>7

\* The first alias that is a column decides, and it is a column.
LEMMA DecidingAlias ==
  ASSUME NEW row, NEW f \in DOMAIN FieldAliases, Here(row, f) # {}
  PROVE  /\ Deciding(row, f) \in DOMAIN row
         /\ \E i \in Here(row, f) : /\ Deciding(row, f) = FieldAliases[f][i]
                                   /\ \A j \in Here(row, f) : i <= j
<1> DEFINE first == CHOOSE i \in Here(row, f) : \A j \in Here(row, f) : i <= j
<1>1. Here(row, f) \in SUBSET (1..6)
  BY AtMostSixAliases DEF Here
<1>2. \E i \in Here(row, f) : \A j \in Here(row, f) : i <= j
  BY <1>1, LeastOfSix
<1>3. first \in Here(row, f) /\ \A j \in Here(row, f) : first <= j
  BY <1>2
<1>4. Deciding(row, f) = FieldAliases[f][first]
  BY DEF Deciding
<1> HIDE DEF first
<1>5. FieldAliases[f][first] \in DOMAIN row
  BY <1>3 DEF Here
<1> QED BY <1>3, <1>4, <1>5

\* Two rows agree on a field if the column that decides it in one is in the other, and the other
\* has no alias of the field besides those of the first.
LEMMA PresentIsDecided ==
  ASSUME NEW one, NEW other, NEW f \in DOMAIN FieldAliases,
         Here(other, f) \subseteq Here(one, f),
         Here(one, f) # {} => /\ Deciding(one, f) \in DOMAIN other
                              /\ other[Deciding(one, f)] = one[Deciding(one, f)]
  PROVE  FirstPresent(one, f) = FirstPresent(other, f)
<1>1. CASE Here(one, f) = {}
  BY <1>1 DEF FirstPresent
<1>2. CASE Here(one, f) # {}
  <2>1. PICK i \in Here(one, f) : /\ Deciding(one, f) = FieldAliases[f][i]
                                  /\ \A j \in Here(one, f) : i <= j
    BY <1>2, DecidingAlias
  <2>2. i \in Here(other, f)
    BY <1>2, <2>1 DEF Here
  <2>3. PICK k \in Here(other, f) : /\ Deciding(other, f) = FieldAliases[f][k]
                                    /\ \A j \in Here(other, f) : k <= j
    BY <2>2, DecidingAlias
  <2>4. i \in 1..6 /\ k \in 1..6
    BY AtMostSixAliases DEF Here
  <2>5. i = k
    BY <2>1, <2>2, <2>3, <2>4
  <2> QED BY <1>2, <2>1, <2>2, <2>3, <2>5 DEF FirstPresent
<1> QED BY <1>1, <1>2

LEMMA PresentIsTheSame ==
  ASSUME NEW one, NEW other, SameButContent(one, other),
         NEW f \in DOMAIN FieldAliases, f \notin ContentFields
  PROVE  FirstPresent(one, f) = FirstPresent(other, f)
<1>1. \A i \in DOMAIN FieldAliases[f] : FieldAliases[f][i] \notin Aside
  BY AliasesAvoidContent
<1>2. Here(one, f) = Here(other, f)
  BY <1>1 DEF Here, SameButContent
<1>3. ASSUME Here(one, f) # {}
      PROVE  /\ Deciding(one, f) \in DOMAIN other
             /\ other[Deciding(one, f)] = one[Deciding(one, f)]
  <2>1. Deciding(one, f) \in DOMAIN one /\ Deciding(one, f) \notin Aside
    BY <1>1, <1>3, DecidingAlias DEF Here
  <2> QED BY <2>1 DEF SameButContent
<1> QED BY <1>2, <1>3, PresentIsDecided

LEMMA FieldsAreTheSame ==
  ASSUME NEW one, NEW other, SameButContent(one, other)
  PROVE  /\ \A f \in DOMAIN FieldAliases \ ContentFields : Field(one, f) = Field(other, f)
         /\ NoBodyColumn(one) <=> NoBodyColumn(other)
<1>1. ASSUME NEW f \in DOMAIN FieldAliases \ ContentFields
      PROVE  Field(one, f) = Field(other, f)
  <2>1. FirstPresent(one, f) = FirstPresent(other, f)
    BY PresentIsTheSame
  <2> QED BY <2>1 DEF Field
<1>2. Bodies \subseteq DOMAIN FieldAliases \ ContentFields
  BY DEF Bodies, FieldAliases, ContentFields
<1>3. \A b \in Bodies : FirstPresent(one, b) = FirstPresent(other, b)
  BY <1>2, PresentIsTheSame
<1> QED BY <1>1, <1>3 DEF NoBodyColumn

LEMMA RecordFields ==
  Plain \cup IdentityFields \cup {"model_format", "model_id"}
    \subseteq DOMAIN FieldAliases \ ContentFields
BY DEF Plain, RequiredTexts, Tokens, OptionalTexts, IdentityFields, FieldAliases, ContentFields

\* A record is determined, but for content and context, by its other three parts.
LEMMA WithoutContent ==
  ASSUME NEW r1, NEW c1, NEW i1, NEW r2, NEW c2, NEW i2,
         InvocationRecord(r1, c1, i1).fields = InvocationRecord(r2, c2, i2).fields,
         InvocationRecord(r1, c1, i1).format = InvocationRecord(r2, c2, i2).format,
         InvocationRecord(r1, c1, i1).identity = InvocationRecord(r2, c2, i2).identity
  PROVE  ButContent(InvocationRecord(r1, c1, i1)) = ButContent(InvocationRecord(r2, c2, i2))
<1>1. ASSUME NEW f, NEW c, NEW o, NEW d, NEW s
      PROVE  ButContent([fields |-> f, context |-> c, format |-> o, identity |-> d,
                         sensitive |-> s])
               = [fields |-> f, context |-> None, format |-> o, identity |-> d,
                  sensitive |-> None]
  <2> DEFINE record == [fields |-> f, context |-> c, format |-> o, identity |-> d,
                        sensitive |-> s]
             bare == [fields |-> f, context |-> c, format |-> o, identity |-> d,
                      sensitive |-> None]
  <2>1. ButContent(record) = [[record EXCEPT !.sensitive = None] EXCEPT !.context = None]
    BY DEF ButContent
  <2>2. [record EXCEPT !.sensitive = None] = bare
    OBVIOUS
  <2>3. [bare EXCEPT !.context = None]
          = [fields |-> f, context |-> None, format |-> o, identity |-> d, sensitive |-> None]
    OBVIOUS
  <2> QED BY <2>1, <2>2, <2>3
<1>2. ASSUME NEW r, NEW c, NEW i
      PROVE  \E s : InvocationRecord(r, c, i) =
               [fields |-> InvocationRecord(r, c, i).fields, context |-> c,
                format |-> InvocationRecord(r, c, i).format,
                identity |-> InvocationRecord(r, c, i).identity, sensitive |-> s]
  <2> WITNESS Sensitive(r, i)
  <2> QED BY DEF InvocationRecord
<1>3. ASSUME NEW r, NEW c, NEW i
      PROVE  ButContent(InvocationRecord(r, c, i)) =
               [fields |-> InvocationRecord(r, c, i).fields, context |-> None,
                format |-> InvocationRecord(r, c, i).format,
                identity |-> InvocationRecord(r, c, i).identity, sensitive |-> None]
  <2> DEFINE record == InvocationRecord(r, c, i)
             full(s) == [fields |-> record.fields, context |-> c, format |-> record.format,
                         identity |-> record.identity, sensitive |-> s]
  <2>1. PICK s : record = full(s)
    BY <1>2
  <2>2. ButContent(full(s)) = [full(None) EXCEPT !.context = None]
    BY <1>1
  <2>3. [full(None) EXCEPT !.context = None]
          = [fields |-> record.fields, context |-> None, format |-> record.format,
             identity |-> record.identity, sensitive |-> None]
    OBVIOUS
  <2> HIDE DEF full
  <2>4. ButContent(record) = ButContent(full(s))
    BY <2>1
  <2> QED BY <2>2, <2>3, <2>4
<1> QED BY <1>3

\* Rows that differ in content at most give records that differ in content and context at most.
LEMMA RecordsDifferInContent ==
  ASSUME NEW one, NEW other, SameButContent(one, other),
         NEW c1, NEW c2, NEW i1, NEW i2
  PROVE  /\ InvocationRecord(one, c1, i1).fields = InvocationRecord(other, c2, i2).fields
         /\ InvocationRecord(one, c1, i1).format = InvocationRecord(other, c2, i2).format
         /\ InvocationRecord(one, c1, i1).identity = InvocationRecord(other, c2, i2).identity
<1>1. \A f \in Plain : Field(one, f).value = Field(other, f).value
  BY FieldsAreTheSame, RecordFields
<1>2. \A f \in IdentityFields : Field(one, f).value = Field(other, f).value
  BY FieldsAreTheSame, RecordFields
<1>3. /\ Field(one, "model_format").value = Field(other, "model_format").value
      /\ Field(one, "model_id").value = Field(other, "model_id").value
  BY FieldsAreTheSame, RecordFields
<1>4. [f \in Plain |-> Field(one, f).value] = [f \in Plain |-> Field(other, f).value]
  BY <1>1
<1>5. [f \in IdentityFields |-> Field(one, f).value]
        = [f \in IdentityFields |-> Field(other, f).value]
  BY <1>2
<1>6. Identity(one) = Identity(other)
  BY <1>5 DEF Identity
<1>7. \A m, d : SelectAdapter(one, m, d) = SelectAdapter(other, m, d)
  BY FieldsAreTheSame DEF SelectAdapter
<1>8. /\ InvocationRecord(one, c1, i1).fields = InvocationRecord(other, c2, i2).fields
      /\ InvocationRecord(one, c1, i1).identity = InvocationRecord(other, c2, i2).identity
  BY <1>4, <1>6 DEF InvocationRecord
<1>9. InvocationRecord(one, c1, i1).format = InvocationRecord(other, c2, i2).format
  BY <1>3, <1>7 DEF InvocationRecord
<1> QED BY <1>8, <1>9

PreviewAliases == {"prompt_preview", "prompt", "response_preview", "response"}

LEMMA NoColumnNoContent ==
  ASSUME NEW row, DOMAIN row \cap PreviewAliases = {}, NEW include
  PROVE  Sensitive(row, include) = None
<1>1. /\ FieldAliases["prompt_preview"] = <<"prompt_preview", "prompt">>
      /\ FieldAliases["response_preview"] = <<"response_preview", "response">>
  BY DEF FieldAliases
<1>2. FirstPresent(row, "prompt_preview") = Missing
  BY <1>1 DEF FirstPresent, Here, PreviewAliases
<1>3. FirstPresent(row, "response_preview") = Missing
  BY <1>1 DEF FirstPresent, Here, PreviewAliases
<1>4. /\ Field(row, "prompt_preview") = OptionalText(Missing)
      /\ Field(row, "response_preview") = OptionalText(Missing)
  BY <1>2, <1>3 DEF Field, RequiredTexts, Tokens
<1>5. OptionalText(Missing).value = None
  BY DEF OptionalText, Null, Parsed
<1> QED BY <1>4, <1>5 DEF Sensitive

LEMMA RowsDifferInContent ==
  ASSUME NEW c, NEW d, c.of = d.of, c.time = d.time,
         NEW by, NEW x \in BOOLEAN, NEW y \in BOOLEAN
  PROVE  SameButContent(SourceRow(c, x, by), SourceRow(d, y, by))
<1> DEFINE columns(z) == DOMAIN DefaultFields \cup (IF z THEN ContentFields ELSE {})
                           \cup DOMAIN by.spoils
<1>1. /\ DOMAIN SourceRow(c, x, by) = columns(x)
      /\ DOMAIN SourceRow(d, y, by) = columns(y)
  BY DEF SourceRow
<1>2. ASSUME NEW column \in DOMAIN DefaultFields, column # "day"
      PROVE  ViewCell(c, DefaultFields[column], by.zone)
               = ViewCell(d, DefaultFields[column], by.zone)
  <2>1. DefaultFields[column] # "day"
    BY <1>2 DEF DefaultFields
  <2> QED BY <2>1 DEF ViewCell, EventTime
<1>3. ASSUME NEW column \in columns(x), column \in columns(y), column \notin Aside
      PROVE  SourceRow(c, x, by)[column] = SourceRow(d, y, by)[column]
  <2>1. CASE column \in DOMAIN by.spoils
    BY <1>3, <2>1 DEF SourceRow
  <2>2. CASE column \notin DOMAIN by.spoils
    <3>1. column \in DOMAIN DefaultFields /\ column # "day" /\ column \notin ContentFields
      BY <1>3, <2>2 DEF Aside
    <3>2. /\ SourceRow(c, x, by)[column] = ViewCell(c, DefaultFields[column], by.zone)
          /\ SourceRow(d, y, by)[column] = ViewCell(d, DefaultFields[column], by.zone)
      BY <2>2, <3>1 DEF SourceRow
    <3> QED BY <1>2, <3>1, <3>2
  <2> QED BY <2>1, <2>2
<1>4. \A column : column \notin Aside => (column \in columns(x) <=> column \in columns(y))
  BY DEF Aside
<1> QED BY <1>1, <1>3, <1>4 DEF SameButContent

LEMMA UnselectedContent ==
  ASSUME NEW c, NEW by, DOMAIN by.spoils \cap PreviewAliases = {}
  PROVE  DOMAIN SourceRow(c, FALSE, by) \cap PreviewAliases = {}
BY DEF SourceRow, DefaultFields, PreviewAliases

LEMMA RecordOfARow ==
  ASSUME IInv, NEW r \in Done, NEW c \in Recorded(r)
  PROVE  Record(r, c) = InvocationRecord(SourceRow(c, r.content, loader), r.context, r.include)
<1>1. c \in Rows(r) /\ Record(r, c) # None
  BY DEF Recorded
<1>2. Record(r, c) = NormalizedBy(c, r, loader).record
  BY <1>1 DEF IInv, ReadOK, Record
<1> QED BY <1>1, <1>2 DEF NormalizedBy, Normalize, Refused

\* Content is in a record only if the query selected it and the normalizer was told to keep it,
\* and any two reads of a copy agree but for content and context, with every loader that adds
\* no preview column of its own.
THEOREM ContentTakesBothSwitches ==
  ASSUME \A l \in Loaders : DOMAIN l.spoils \cap PreviewAliases = {}
  PROVE  FeedSpec => []ContentNeedsBothSwitches
<1>1. FeedInit => loader \in Loaders
  BY DEF FeedInit
<1>2. loader \in Loaders /\ [FeedNext]_feedVars => (loader \in Loaders)'
  BY DEF FeedNext, Lake, Read, feedVars
<1>3. IInv /\ loader \in Loaders => ContentNeedsBothSwitches
  <2> SUFFICES ASSUME IInv, loader \in Loaders, NEW r \in Done, NEW c \in Recorded(r)
               PROVE  /\ Record(r, c).sensitive # None => r.include /\ r.content
                      /\ \A s \in Done : c \in Recorded(s) =>
                           ButContent(Record(r, c)) = ButContent(Record(s, c))
    BY DEF ContentNeedsBothSwitches, ButContent
  <2>1. \A s \in Done : s.content \in BOOLEAN /\ s.include \in BOOLEAN
    BY UsageFeedAssumption DEF Done, RequestType
  <2>2. Record(r, c).sensitive = Sensitive(SourceRow(c, r.content, loader), r.include)
    BY RecordOfARow DEF InvocationRecord
  <2>3. ~r.include => Record(r, c).sensitive = None
    BY <2>2 DEF Sensitive
  <2>4. ~r.content => Record(r, c).sensitive = None
    BY <2>1, <2>2, UnselectedContent, NoColumnNoContent
  <2>5. ASSUME NEW s \in Done, c \in Recorded(s)
        PROVE  ButContent(Record(r, c)) = ButContent(Record(s, c))
    <3> DEFINE one == SourceRow(c, r.content, loader)
               other == SourceRow(c, s.content, loader)
    <3>1. Record(r, c) = InvocationRecord(one, r.context, r.include)
      BY RecordOfARow
    <3>2. Record(s, c) = InvocationRecord(other, s.context, s.include)
      BY <2>5, RecordOfARow
    <3>3. SameButContent(one, other)
      BY <2>1, RowsDifferInContent
    <3> HIDE DEF one, other
    <3> QED BY <3>1, <3>2, <3>3, RecordsDifferInContent, WithoutContent
  <2> QED BY <2>3, <2>4, <2>5
<1> QED BY <1>1, <1>2, <1>3, ReadsAreComplete, PTL DEF FeedSpec

LEMMA RequestIdOfARow ==
  ASSUME IInv, loader.spoils = <<>>, NEW r \in Done, NEW c \in Recorded(r)
  PROVE  Record(r, c).fields["source_request_id"] = Entry[c.of]["requestid"].text
<1> DEFINE row == SourceRow(c, r.content, loader)
<1>1. Record(r, c) = InvocationRecord(row, r.context, r.include) /\ Errors(row, Traceability) = {}
  <2>1. Record(r, c) = NormalizedBy(c, r, loader).record /\ Record(r, c) # None
    BY DEF Recorded, IInv, ReadOK, Record, Rows
  <2> QED BY <2>1, RecordOfARow DEF NormalizedBy, Normalize, Refused
<1>2. "source_request_id" \in DOMAIN row /\ row["source_request_id"] = Entry[c.of]["requestid"]
  <2>1. DOMAIN loader.spoils = {}
    OBVIOUS
  <2>2. /\ "source_request_id" \in DOMAIN DefaultFields /\ "source_request_id" \notin ContentFields
        /\ DefaultFields["source_request_id"] = "requestid"
    BY DEF DefaultFields, ContentFields
  <2> QED BY <2>1, <2>2 DEF SourceRow, ViewCell
<1>3. FirstPresent(row, "source_request_id") = Entry[c.of]["requestid"]
  <2>1. FieldAliases["source_request_id"] = <<"source_request_id", "request_id", "requestid">>
    BY DEF FieldAliases
  <2> HIDE DEF row
  <2>2. "source_request_id" \in DOMAIN FieldAliases
    BY DEF FieldAliases
  <2>3. 1 \in Here(row, "source_request_id")
    BY <1>2, <2>1 DEF Here
  <2>4. PICK i \in Here(row, "source_request_id") :
          /\ Deciding(row, "source_request_id") = FieldAliases["source_request_id"][i]
          /\ i <= 1
    BY <2>2, <2>3, DecidingAlias
  <2>5. i = 1
    BY <2>1, <2>4 DEF Here
  <2> QED BY <1>2, <2>1, <2>3, <2>4, <2>5 DEF FirstPresent
<1> HIDE DEF row
<1>4. Field(row, "source_request_id") = RequiredText(Entry[c.of]["requestid"])
  BY <1>3 DEF Field, RequiredTexts, Tokens
<1>5. Field(row, "source_request_id").code = None
  BY <1>1 DEF Errors, Traceability, RequiredTexts
<1>6. Record(r, c).fields["source_request_id"] = Field(row, "source_request_id").value
  BY <1>1 DEF InvocationRecord, Plain, RequiredTexts
<1>7. None \notin Codes
  BY NormalizerAssumption
<1>8. RequiredText(Entry[c.of]["requestid"]).value = Entry[c.of]["requestid"].text
  BY <1>4, <1>5, <1>7 DEF RequiredText, Parsed, Codes
<1> QED BY <1>4, <1>6, <1>8

\* Two records have one request id exactly if they are of one invocation, and then they agree on
\* all its data, whichever runs read them and whenever the copies came: nothing removes
\* duplicates, but they can be told.  Request ids must be unique, as those of Bedrock are.
THEOREM DuplicatesStayRecognisable ==
  ASSUME \A i, j \in Invocations :
           Entry[i]["requestid"].text = Entry[j]["requestid"].text => i = j
  PROVE  FeedSpec => []DuplicatesAreRecognisable
<1>1. IInv => DuplicatesAreRecognisable
  <2> SUFFICES ASSUME IInv, loader.spoils = <<>>, NEW r \in Done, NEW s \in Done,
                      NEW c \in Recorded(r), NEW d \in Recorded(s)
               PROVE  LET one == Record(r, c)  other == Record(s, d) IN
                      /\ one.fields["source_request_id"] = other.fields["source_request_id"]
                           <=> c.of = d.of
                      /\ c.of = d.of => /\ one.fields = other.fields
                                        /\ one.format = other.format
                                        /\ one.identity = other.identity
    BY DEF DuplicatesAreRecognisable
  <2> DEFINE one == SourceRow(c, r.content, loader)  other == SourceRow(d, s.content, loader)
  <2>1. /\ Record(r, c) = InvocationRecord(one, r.context, r.include)
        /\ Record(s, d) = InvocationRecord(other, s.context, s.include)
    BY RecordOfARow
  <2>2. /\ CopyOK(c) /\ CopyOK(d)
        /\ r.content \in BOOLEAN /\ s.content \in BOOLEAN
    BY RowFacts, UsageFeedAssumption DEF Recorded, Done, RequestType
  <2>3. c.of = d.of => SameButContent(one, other)
    BY <2>2, RowsDifferInContent DEF CopyOK
  <2>4. /\ Record(r, c).fields["source_request_id"] = Entry[c.of]["requestid"].text
        /\ Record(s, d).fields["source_request_id"] = Entry[d.of]["requestid"].text
    BY <2>1, RequestIdOfARow
  <2> HIDE DEF one, other
  <2>5. c.of = d.of => /\ Record(r, c).fields = Record(s, d).fields
                      /\ Record(r, c).format = Record(s, d).format
                      /\ Record(r, c).identity = Record(s, d).identity
    BY <2>1, <2>3, RecordsDifferInContent
  <2> QED BY <2>2, <2>4, <2>5 DEF CopyOK
<1> QED BY <1>1, ReadsAreComplete, PTL

-----------------------------------------------------------------------------
(* Formats.                                                                *)

LEMMA FormatNames ==
  /\ None \notin DOMAIN FormatAliases /\ None # Flattened
  /\ Flattened \notin DOMAIN FormatAliases
  /\ \A a \in DOMAIN FormatAliases : a \in FormatAliases[a]
<1>1. None \notin DOMAIN FormatAliases /\ None # Flattened
  BY NormalizerAssumption
<1> QED BY <1>1 DEF FormatAliases, Flattened

\* Which adapter a row gets, if the model families are those of the adapters.
LEMMA AdapterOf ==
  ASSUME \A m : Family(m) \in DOMAIN FormatAliases \cup {None},
         NEW row, NEW m, NEW declared
  PROVE  LET adapter == SelectAdapter(row, m, declared) IN
         /\ adapter = None <=>
              \/ /\ declared # None
                 /\ \A a \in DOMAIN FormatAliases : declared \notin FormatAliases[a]
              \/ declared = None /\ ~NoBodyColumn(row) /\ Family(m) = None
         /\ adapter \in DOMAIN FormatAliases =>
              declared \in FormatAliases[adapter] \/ (declared = None /\ Family(m) = adapter)
         /\ adapter \in DOMAIN FormatAliases \cup {None, Flattened}
<1> DEFINE owners == {a \in DOMAIN FormatAliases : declared \in FormatAliases[a]}
           adapter == SelectAdapter(row, m, declared)
<1>1. CASE declared # None /\ owners = {}
  <2>1. adapter = None
    BY <1>1 DEF SelectAdapter
  <2> QED BY <1>1, <2>1, FormatNames
<1>2. CASE declared # None /\ owners # {}
  <2>1. adapter = CHOOSE a \in owners : TRUE
    BY <1>2 DEF SelectAdapter
  <2>2. adapter \in owners
    BY <1>2, <2>1
  <2> QED BY <1>2, <2>2, FormatNames
<1>3. CASE declared = None
  <2>1. adapter = IF Family(m) # None THEN Family(m)
                  ELSE IF NoBodyColumn(row) THEN Flattened ELSE None
    BY <1>3 DEF SelectAdapter
  <2> QED BY <1>3, <2>1, FormatNames
<1> QED BY <1>1, <1>2, <1>3

LEMMA OtherCodes ==
  ASSUME NEW row
  PROVE  /\ \A e \in Errors(row, Optional) : e.code # "UNSUPPORTED_MODEL_FORMAT"
         /\ \A e \in BodyErrors(row) : e.code # "UNSUPPORTED_MODEL_FORMAT"
<1>1. ASSUME NEW cell
      PROVE  LET other(parsed) == \/ parsed.code = None
                                  \/ parsed.code \in Codes \ {"UNSUPPORTED_MODEL_FORMAT"} IN
             /\ other(RequiredText(cell)) /\ other(Timestamp(cell)) /\ other(NonnegativeInt(cell))
             /\ other(Metadata(cell)) /\ other(OptionalText(cell)) /\ other(DeclaredFormat(cell))
  BY DEF RequiredText, Timestamp, NonnegativeInt, Metadata, OptionalText, DeclaredFormat, Parsed,
         Codes
<1>2. ASSUME NEW f \in Optional, Field(row, f).code # None
      PROVE  Field(row, f).code # "UNSUPPORTED_MODEL_FORMAT"
  <2>1. \/ Field(row, f) = NonnegativeInt(FirstPresent(row, f))
        \/ Field(row, f) = Metadata(FirstPresent(row, f))
        \/ Field(row, f) = DeclaredFormat(FirstPresent(row, f))
        \/ Field(row, f) = OptionalText(FirstPresent(row, f))
    BY DEF Field, Optional, Tokens, OptionalTexts, RequiredTexts
  <2> QED BY <1>1, <1>2, <2>1
<1>3. \A e \in Errors(row, Optional) : e.code # "UNSUPPORTED_MODEL_FORMAT"
  BY <1>2 DEF Errors
<1> QED BY <1>3 DEF BodyErrors

\* No body is judged by another model's format: an adapter is named only by its own declared
\* format or, with none declared, by its model, and what no adapter owns is diagnosed.
THEOREM FormatsStayWithTheirModels ==
  ASSUME \A m : Family(m) \in DOMAIN FormatAliases \cup {None}
  PROVE  FeedSpec => []FormatsAreNotExtrapolated
<1>1. IInv => FormatsAreNotExtrapolated
  <2> SUFFICES ASSUME IInv, NEW r \in Done, NEW c \in Recorded(r)
               PROVE  LET row      == SourceRow(c, r.content, loader)
                          declared == Field(row, "model_format").value
                          result   == batches[r].results[c]
                          refused  == \E e \in result.errors :
                                        e.code = "UNSUPPORTED_MODEL_FORMAT"
                      IN  /\ result.record.format \in DOMAIN FormatAliases =>
                               \/ declared \in FormatAliases[result.record.format]
                               \/ declared = None
                                    /\ Family(result.record.fields["model_id"])
                                         = result.record.format
                          /\ refused <=>
                               \/ declared # None
                                    /\ \A a \in DOMAIN FormatAliases :
                                         declared \notin FormatAliases[a]
                               \/ /\ declared = None /\ ~NoBodyColumn(row)
                                  /\ Family(result.record.fields["model_id"]) = None
    BY DEF FormatsAreNotExtrapolated
  <2> DEFINE row == SourceRow(c, r.content, loader)
             declared == Field(row, "model_format").value
             model == Field(row, "model_id").value
             adapter == SelectAdapter(row, model, declared)
             result == batches[r].results[c]
  <2>1. result.record = InvocationRecord(row, r.context, r.include)
    BY RecordOfARow DEF Record
  <2>2. result.errors = Diagnostics(row)
    <3>1. c \in Rows(r) /\ result = NormalizedBy(c, r, loader) /\ result.record # None
      BY DEF Recorded, Record, IInv, ReadOK
    <3> QED BY <3>1 DEF NormalizedBy, Normalize, Refused
  <2> HIDE DEF row, result
  <2>3. result.record.format = ModelFormat(adapter, declared)
    BY <2>1 DEF InvocationRecord
  <2>4. result.record.fields["model_id"] = model
    BY <2>1 DEF InvocationRecord, Plain, RequiredTexts
  <2>5. result.errors = Errors(row, Optional) \cup FormatErrors(row, adapter)
    BY <2>2 DEF Diagnostics
  <2> HIDE DEF declared, model, adapter
  <2>6. /\ adapter = None <=>
             \/ /\ declared # None
                /\ \A a \in DOMAIN FormatAliases : declared \notin FormatAliases[a]
             \/ declared = None /\ ~NoBodyColumn(row) /\ Family(model) = None
        /\ adapter \in DOMAIN FormatAliases =>
             declared \in FormatAliases[adapter] \/ (declared = None /\ Family(model) = adapter)
        /\ adapter \in DOMAIN FormatAliases \cup {None, Flattened}
    BY AdapterOf DEF adapter
  <2>7. CASE adapter = None
    <3>1. result.record.format = declared
      BY <2>3, <2>7, FormatNames DEF ModelFormat
    <3>2. [code |-> "UNSUPPORTED_MODEL_FORMAT", field |-> "adapter"] \in result.errors
      BY <2>5, <2>7, FormatNames DEF FormatErrors
    <3>3. declared \notin DOMAIN FormatAliases
      BY <2>6, <2>7, FormatNames
    <3> QED BY <2>4, <2>6, <2>7, <3>1, <3>2, <3>3 DEF row, declared, result
  <2>8. CASE adapter # None
    <3>1. \A e \in FormatErrors(row, adapter) : e.code # "UNSUPPORTED_MODEL_FORMAT"
      <4>1. CASE adapter = Flattened
        BY <2>8, <4>1 DEF FormatErrors
      <4>2. CASE adapter # Flattened
        BY <2>8, <4>2, OtherCodes DEF FormatErrors
      <4> QED BY <4>1, <4>2
    <3>2. \A e \in result.errors : e.code # "UNSUPPORTED_MODEL_FORMAT"
      BY <2>5, <3>1, OtherCodes
    <3>3. result.record.format = IF adapter = Flattened THEN None ELSE adapter
      BY <2>3, <2>8 DEF ModelFormat
    <3> QED BY <2>4, <2>6, <2>8, <3>2, <3>3, FormatNames DEF row, declared, result
  <2> QED BY <2>7, <2>8
<1> QED BY <1>1, ReadsAreComplete, PTL

-----------------------------------------------------------------------------
\* The metadata signal keeps no blocked key, and never more keys than its bound.
LEMMA MetadataIsBounded ==
  ASSUME NEW metadata, IsMapping(metadata), Textual(metadata)
  PROVE  /\ Cardinality(DOMAIN BoundedMetadata(metadata)) <= MAX_METADATA_ITEMS
         /\ \A k \in Reached(metadata) : ~Blocked(k) /\ NotText \notin {k, metadata[k]}
<1> DEFINE reached == Reached(metadata)
           cut == {Clip(k) : k \in reached}
<1>1. DOMAIN BoundedMetadata(metadata) = cut
  BY DEF BoundedMetadata
<1>2. reached \subseteq DOMAIN metadata /\ IsFiniteSet(reached)
  BY FS_Subset DEF Reached, IsMapping
<1>3. \A k \in Reached(metadata) : ~Blocked(k) /\ NotText \notin {k, metadata[k]}
  BY DEF Reached, Textual
<1>4. CASE reached = {}
  <2>1. cut = {} /\ Cardinality({}) = 0
    BY <1>4, FS_EmptySet
  <2>2. Cardinality(DOMAIN BoundedMetadata(metadata)) <= MAX_METADATA_ITEMS
    <3> HIDE DEF cut
    <3> QED BY <1>1, <2>1, DirectSignalsAssumption
  <2> QED BY <1>3, <2>2
<1>5. CASE reached # {}
  <2> DEFINE rank == [k \in reached |-> Rank(k)]
  <2>1. \A k \in reached : rank[k] \in Int
    BY <1>2 DEF IsMapping
  <2> HIDE DEF reached
  <2>2. PICK m \in reached : \A k \in reached : rank[k] <= rank[m]
    <3> HIDE DEF rank
    <3> QED BY <1>2, <1>5, <2>1, LastOfFinitelyMany
  <2> DEFINE earlier == KeysBefore(metadata, m)
  <2>3. cut \subseteq earlier \cup {Clip(m)}
    <3> SUFFICES ASSUME NEW k \in reached, k # m PROVE Clip(k) \in earlier
      OBVIOUS
    <3>1. Rank(k) <= Rank(m) /\ Rank(k) \in Int /\ Rank(m) \in Int
      BY <2>1, <2>2
    <3>2. Rank(k) # Rank(m) /\ ~Blocked(k) /\ k \in DOMAIN metadata
      BY <1>2, <1>3 DEF IsMapping, reached
    <3> QED BY <3>1, <3>2 DEF KeysBefore
  <2>4. IsFiniteSet(earlier) /\ Cardinality(earlier) \in Nat
    <3> DEFINE before == {j \in DOMAIN metadata : ~Blocked(j) /\ Rank(j) < Rank(m)}
    <3>1. IsFiniteSet(before)
      BY FS_Subset DEF IsMapping
    <3>2. earlier = {Clip(j) : j \in before}
      BY DEF KeysBefore
    <3> HIDE DEF before
    <3> DEFINE f == [j \in before |-> Clip(j)]
               image == {Clip(j) : j \in before}
    <3>3. f \in Surjection(before, image)
      BY Fun_IsSurj
    <3>4. IsFiniteSet(image)
      <4> HIDE DEF f, image
      <4> QED BY <3>1, <3>3, FS_Surjection
    <3> QED BY <3>2, <3>4, FS_CardinalityType
  <2>5. Cardinality(earlier) < MAX_METADATA_ITEMS
    BY DEF Reached, reached
  <2> HIDE DEF earlier
  <2>6. IsFiniteSet(earlier \cup {Clip(m)})
        /\ Cardinality(earlier \cup {Clip(m)}) <= Cardinality(earlier) + 1
    <3> DEFINE key == Clip(m)
    <3> HIDE DEF cut, reached, key
    <3>1. /\ IsFiniteSet(earlier \cup {key})
          /\ Cardinality(earlier \cup {key}) = IF key \in earlier THEN Cardinality(earlier)
                                               ELSE Cardinality(earlier) + 1
      BY <2>4, FS_AddElement
    <3>2. Cardinality(earlier \cup {key}) <= Cardinality(earlier) + 1
      BY <2>4, <3>1
    <3> QED BY <3>1, <3>2 DEF key
  <2>7. Cardinality(cut) <= Cardinality(earlier \cup {Clip(m)})
    <3> HIDE DEF cut
    <3> QED BY <2>3, <2>6, FS_Subset
  <2>8. Cardinality(cut) <= MAX_METADATA_ITEMS
    <3>1. IsFiniteSet(cut) /\ Cardinality(cut) \in Nat
      <4> HIDE DEF cut
      <4> QED BY <2>3, <2>6, FS_Subset, FS_CardinalityType
    <3>2. Cardinality(earlier \cup {Clip(m)}) \in Nat
      BY <2>6, FS_CardinalityType
    <3> HIDE DEF cut
    <3> QED BY <2>4, <2>5, <2>6, <2>7, <3>1, <3>2, DirectSignalsAssumption
  <2> QED BY <1>1, <1>3, <2>8
<1> QED BY <1>4, <1>5
-----------------------------------------------------------------------------
(* What the stages behind the normalizer get.                              *)

\* Every cell of a row is sound, whatever the loader spoils.
LEMMA CellsOfARow ==
  ASSUME IInv, loader \in Loaders, NEW r \in Done, NEW c \in Rows(r),
         NEW column \in DOMAIN SourceRow(c, r.content, loader)
  PROVE  SoundCell(SourceRow(c, r.content, loader)[column])
<1> DEFINE row == SourceRow(c, r.content, loader)
<1>1. CopyOK(c) /\ DayOf(c.arrival) \in Nat
  BY RowFacts
<1>2. CASE column \in DOMAIN loader.spoils
  <2>1. row[column] = loader.spoils[column]
    BY <1>2 DEF SourceRow
  <2> QED BY <1>2, <2>1, CellsAreSound
<1>3. CASE column \notin DOMAIN loader.spoils /\ column \in ContentFields
  <2>1. row[column] = Entry[c.of][column]
    BY <1>3 DEF SourceRow
  <2> QED BY <1>1, <1>3, <2>1, CellsAreSound DEF CopyOK
<1>4. CASE column \notin DOMAIN loader.spoils /\ column \notin ContentFields
  <2>1. column \in DOMAIN DefaultFields
    BY <1>4 DEF SourceRow
  <2>2. row[column] = ViewCell(c, DefaultFields[column], loader.zone)
    BY <1>4 DEF SourceRow
  <2>3. CASE column = "source_timestamp_utc"
    <3>1. row[column] = TimeCell(c.time, loader.zone)
      BY <2>2, <2>3 DEF DefaultFields, ViewCell, EventTime
    <3> DEFINE cell == TimeCell(c.time, loader.zone)
    <3>2. loader.zone \in {"utc", "local", "none"} /\ c.time \in Nat
      BY <1>1, CellsAreSound DEF CopyOK
    <3>3. cell.type = "time" /\ cell.text = NotText /\ cell.value \in Times
      BY <3>2 DEF TimeCell, Times
    <3>4. row[column] = cell
      BY <3>1
    <3> HIDE DEF cell, row
    <3>5. SoundCell(cell)
      BY <3>3, NormalizerAssumption DEF SoundCell, IsCell
    <3> QED BY <3>4, <3>5 DEF row
  <2>4. CASE column = "day"
    <3>1. row[column] = [type |-> "number", text |-> NotText, value |-> DayOf(c.arrival)]
      BY <2>2, <2>4 DEF DefaultFields, ViewCell, Partition
    <3> DEFINE cell == [type |-> "number", text |-> NotText, value |-> DayOf(c.arrival)]
    <3>2. cell.type = "number" /\ cell.text = NotText /\ cell.value \in Int
      BY <1>1
    <3>3. row[column] = cell
      BY <3>1
    <3> HIDE DEF cell, row
    <3>4. SoundCell(cell)
      BY <3>2, NormalizerAssumption DEF SoundCell, IsCell
    <3> QED BY <3>3, <3>4 DEF row
  <2>5. CASE column \notin {"source_timestamp_utc", "day"}
    <3>1. DefaultFields[column] \notin {"timestamp", "day"}
      BY <2>1, <2>5 DEF DefaultFields
    <3>2. row[column] = Entry[c.of][DefaultFields[column]]
      BY <2>2, <3>1 DEF ViewCell
    <3> QED BY <1>1, <2>1, <2>5, <3>2, CellsAreSound DEF CopyOK
  <2> QED BY <2>3, <2>4, <2>5
<1> QED BY <1>2, <1>3, <1>4

\* A required text without diagnostic is one that is not blank, a time one in UTC.
LEMMA TraceableIsThere ==
  ASSUME NEW cell, cell = Missing \/ IsCell(cell)
  PROVE  /\ RequiredText(cell).code = None => NonEmpty(RequiredText(cell).value)
         /\ Timestamp(cell).code = None => IsUtc(Timestamp(cell).value)
<1>1. \A code \in Codes : code # None
  BY NormalizerAssumption
<1>2. {"MISSING_TRACEABILITY", "INVALID_TRACEABILITY", "MALFORMED_TIMESTAMP"} \subseteq Codes
  BY DEF Codes
<1>3. ASSUME RequiredText(cell).code = None
      PROVE  NonEmpty(RequiredText(cell).value)
  <2>1. /\ ~Null(cell) /\ cell.text \notin BlankTexts \cup {NotText}
        /\ RequiredText(cell).value = cell.text
    BY <1>1, <1>2, <1>3 DEF RequiredText, Parsed
  <2> QED BY <2>1 DEF Null, IsCell, NonEmpty
<1>4. ASSUME Timestamp(cell).code = None
      PROVE  IsUtc(Timestamp(cell).value)
  <2> DEFINE utc == [local |-> cell.value.local - cell.value.offset, offset |-> 0]
  <2>1. /\ ~Null(cell) /\ cell.type = "time" /\ cell.value.offset # None
        /\ Timestamp(cell).value = utc
    BY <1>1, <1>2, <1>4 DEF Timestamp, Parsed
  <2>2. cell.value.local \in Int /\ cell.value.offset \in Int
    BY <2>1 DEF Null, IsCell, Times
  <2>3. utc \in Times /\ utc.offset = 0
    BY <2>2 DEF Times
  <2> HIDE DEF utc
  <2> QED BY <2>1, <2>3, NormalizerAssumption DEF IsUtc
<1> QED BY <1>3, <1>4

LEMMA CountsAreNatural ==
  ASSUME NEW cell, cell = Missing \/ IsCell(cell)
  PROVE  NonnegativeInt(cell).value = None \/ NonnegativeInt(cell).value \in Nat
<1>1. CASE ~Null(cell) /\ cell.type = "number" /\ ~(cell.value < 0)
  <2>1. cell.value \in Int
    BY <1>1 DEF Null, IsCell
  <2> QED BY <1>1, <2>1 DEF NonnegativeInt, Parsed
<1>2. CASE ~(~Null(cell) /\ cell.type = "number" /\ ~(cell.value < 0))
  BY <1>2 DEF NonnegativeInt, Parsed
<1> QED BY <1>1, <1>2

LEMMA MetadataIsTextual ==
  ASSUME NEW cell, cell = Missing \/ SoundCell(cell)
  PROVE  LET metadata == Metadata(cell).value IN
         metadata = NoMetadata \/ (IsMapping(metadata) /\ Textual(metadata))
BY DEF Metadata, Parsed, Null, SoundCell

\* No field that is text has a value that is none.
LEMMA TextsAreText ==
  ASSUME NEW cell
  PROVE  RequiredText(cell).value # NotText /\ OptionalText(cell).value # NotText
BY NormalizerAssumption DEF RequiredText, OptionalText, Parsed

\* The fields of a record a row of sound cells gives.
LEMMA FieldsOfARecord ==
  ASSUME NEW row, \A column \in DOMAIN row : SoundCell(row[column]),
         Errors(row, Traceability) = {}
  PROVE  /\ \A f \in RequiredTexts : NonEmpty(Field(row, f).value)
         /\ IsUtc(Field(row, "source_timestamp_utc").value)
         /\ \A f \in Tokens : Field(row, f).value = None \/ Field(row, f).value \in Nat
         /\ \A f \in RequiredTexts \cup OptionalTexts \cup IdentityFields :
              Field(row, f).value # NotText
         /\ LET metadata == Field(row, "request_metadata").value IN
            metadata = NoMetadata \/ (IsMapping(metadata) /\ Textual(metadata))
<1>1. ASSUME NEW f \in DOMAIN FieldAliases
      PROVE  FirstPresent(row, f) = Missing \/ SoundCell(FirstPresent(row, f))
  BY DecidingAlias DEF FirstPresent
<1>2. Traceability \cup Tokens \cup {"request_metadata"} \subseteq DOMAIN FieldAliases
  BY DEF Traceability, RequiredTexts, Tokens, FieldAliases
<1>3. ASSUME NEW f \in Traceability
      PROVE  /\ f \in RequiredTexts => NonEmpty(Field(row, f).value)
             /\ f = "source_timestamp_utc" => IsUtc(Field(row, f).value)
  <2>1. Field(row, f).code = None
    BY <1>3 DEF Errors
  <2>2. FirstPresent(row, f) = Missing \/ IsCell(FirstPresent(row, f))
    BY <1>1, <1>2 DEF SoundCell
  <2>3. /\ f \in RequiredTexts => Field(row, f) = RequiredText(FirstPresent(row, f))
        /\ f = "source_timestamp_utc" => Field(row, f) = Timestamp(FirstPresent(row, f))
    BY DEF Field, RequiredTexts, Tokens
  <2> QED BY <2>1, <2>2, <2>3, TraceableIsThere
<1>4. ASSUME NEW f \in Tokens PROVE Field(row, f).value = None \/ Field(row, f).value \in Nat
  <2>1. FirstPresent(row, f) = Missing \/ IsCell(FirstPresent(row, f))
    BY <1>1, <1>2 DEF SoundCell
  <2>2. Field(row, f) = NonnegativeInt(FirstPresent(row, f))
    BY DEF Field, Tokens, RequiredTexts
  <2> QED BY <2>1, <2>2, CountsAreNatural
<1>5. LET metadata == Field(row, "request_metadata").value IN
      metadata = NoMetadata \/ (IsMapping(metadata) /\ Textual(metadata))
  <2>1. Field(row, "request_metadata") = Metadata(FirstPresent(row, "request_metadata"))
    BY DEF Field, Tokens, RequiredTexts
  <2>2. \/ FirstPresent(row, "request_metadata") = Missing
        \/ SoundCell(FirstPresent(row, "request_metadata"))
    BY <1>1, <1>2
  <2> QED BY <2>1, <2>2, MetadataIsTextual
<1>6. ASSUME NEW f \in RequiredTexts \cup OptionalTexts \cup IdentityFields
      PROVE  Field(row, f).value # NotText
  <2>1. \/ Field(row, f) = RequiredText(FirstPresent(row, f))
        \/ Field(row, f) = OptionalText(FirstPresent(row, f))
    BY DEF Field, RequiredTexts, OptionalTexts, IdentityFields, Tokens
  <2> QED BY <2>1, TextsAreText
<1> QED BY <1>3, <1>4, <1>5, <1>6 DEF Traceability

\* The format of a record is no value that is not text.
LEMMA FormatIsText ==
  ASSUME \A text : FormatName(text) # NotText,
         \A m : Family(m) \in DOMAIN FormatAliases \cup {None},
         NEW row, NEW context, NEW include
  PROVE  InvocationRecord(row, context, include).format # NotText
<1> DEFINE declared == Field(row, "model_format").value
           adapter == SelectAdapter(row, Field(row, "model_id").value, declared)
<1>1. InvocationRecord(row, context, include).format = ModelFormat(adapter, declared)
  BY DEF InvocationRecord
<1>2. declared # NotText
  <2>1. Field(row, "model_format") = DeclaredFormat(FirstPresent(row, "model_format"))
    BY DEF Field, RequiredTexts, Tokens
  <2>2. \A cell : DeclaredFormat(cell).value # NotText
    BY NormalizerAssumption DEF DeclaredFormat, Parsed
  <2> QED BY <2>1, <2>2
<1> HIDE DEF declared
<1>3. adapter \in DOMAIN FormatAliases \cup {None, Flattened}
  BY AdapterOf
<1> HIDE DEF adapter
<1> QED BY <1>1, <1>2, <1>3, NormalizerAssumption DEF ModelFormat

LEMMA TracedRow ==
  ASSUME IInv, NEW r \in Done, NEW c \in Recorded(r)
  PROVE  LET row == SourceRow(c, r.content, loader) IN
         /\ c \in Rows(r)
         /\ Record(r, c) = InvocationRecord(row, r.context, r.include)
         /\ batches[r].results[c].errors = Diagnostics(row)
         /\ Errors(row, Traceability) = {} /\ MissingContext(r.context) = {}
<1>1. c \in Rows(r) /\ Record(r, c) # None
  BY DEF Recorded
<1>2. batches[r].results[c] = NormalizedBy(c, r, loader)
  BY <1>1 DEF IInv, ReadOK
<1> QED BY <1>1, <1>2, RecordOfARow DEF Record, NormalizedBy, Normalize, Refused

\* A record the normalizer lets through is one the stages behind it can use, whatever the loader
\* spoils: the oracle finds no fault with it, and no direct signal of it is malformed, holds a
\* blocked key or is beyond its bound.  A key that is cut is part of the key, a format's name in
\* lower case a text, and the families are those of the adapters.
THEOREM RecordsStayUsable ==
  ASSUME \A key : ~Blocked(key) => ~Blocked(Clip(key)),
         \A text : FormatName(text) # NotText,
         \A m : Family(m) \in DOMAIN FormatAliases \cup {None}
  PROVE  FeedSpec => []RecordsAreUsable
<1>1. FeedInit => loader \in Loaders
  BY DEF FeedInit
<1>2. loader \in Loaders /\ [FeedNext]_feedVars => (loader \in Loaders)'
  BY DEF FeedNext, Lake, Read, feedVars
<1>3. IInv /\ loader \in Loaders => RecordsAreUsable
  <2> SUFFICES ASSUME IInv, loader \in Loaders, NEW r \in Done, NEW c \in Recorded(r)
               PROVE  LET record == Record(r, c)
                          metadata == DirectSignal(record, "request_metadata").value
                      IN  /\ InvocationIssues(record) = {}
                          /\ \A n \in DirectSignalNames :
                               DirectSignal(record, n).availability # "malformed"
                          /\ metadata # None =>
                               /\ \A k \in DOMAIN metadata : ~Blocked(k)
                               /\ Cardinality(DOMAIN metadata) <= MAX_METADATA_ITEMS
                          /\ \A n \in Tokens : LET t == DirectSignal(record, n).value IN
                                t # None => t \in 0..MAX_TOKEN_COUNT
    BY DEF RecordsAreUsable
  <2> DEFINE row == SourceRow(c, r.content, loader)
             record == Record(r, c)
             metadata == record.fields["request_metadata"]
  <2>1. /\ record = InvocationRecord(row, r.context, r.include) /\ c \in Rows(r)
        /\ Errors(row, Traceability) = {} /\ MissingContext(r.context) = {}
    BY TracedRow
  <2>2. \A column \in DOMAIN row : SoundCell(row[column])
    BY <2>1, CellsOfARow
  <2> HIDE DEF row, record
  <2>3. /\ \A f \in Plain : record.fields[f] = Field(row, f).value
        /\ record.context = r.context /\ record.identity = Identity(row)
    BY <2>1 DEF InvocationRecord
  <2>4. Traceability \cup Tokens \cup OptionalTexts \cup {"request_metadata"} \subseteq Plain
    BY DEF Traceability, Plain
  <2>5. /\ \A f \in RequiredTexts : NonEmpty(record.fields[f])
        /\ IsUtc(record.fields["source_timestamp_utc"])
        /\ \A f \in Tokens : record.fields[f] = None \/ record.fields[f] \in Nat
        /\ \A f \in RequiredTexts \cup OptionalTexts : record.fields[f] # NotText
        /\ \A f \in IdentityFields : Field(row, f).value # NotText
        /\ metadata = NoMetadata \/ (IsMapping(metadata) /\ Textual(metadata))
    BY <2>1, <2>2, <2>3, <2>4, FieldsOfARecord DEF Traceability
  <2>6. InvocationIssues(record) = {}
    <3>1. \A f \in DOMAIN record.context : NonEmpty(record.context[f])
      BY <2>1, <2>3 DEF MissingContext, NonEmpty
    <3> QED BY <2>5, <3>1 DEF InvocationIssues
  <2>7. /\ MetadataSignal(record).availability # "malformed"
        /\ MetadataSignal(record).value # None =>
             /\ MetadataSignal(record).value = BoundedMetadata(metadata)
             /\ IsMapping(metadata) /\ Textual(metadata)
    <3>1. CASE metadata = NoMetadata
      BY <3>1 DEF MetadataSignal, Signal
    <3>2. CASE metadata # NoMetadata
      <4>1. /\ IsMapping(metadata) /\ Textual(metadata)
            /\ \A k \in Reached(metadata) : NotText \notin {k, metadata[k]}
        BY <2>5, <3>2, MetadataIsBounded
      <4> HIDE DEF metadata
      <4>2. \/ MetadataSignal(record) = Signal("unavailable", None)
            \/ MetadataSignal(record) = Signal("available", BoundedMetadata(metadata))
        BY <3>2, <4>1 DEF MetadataSignal, metadata
      <4> QED BY <4>1, <4>2 DEF Signal
    <3> QED BY <3>1, <3>2
  <2>8. ASSUME NEW n \in Tokens
        PROVE  /\ TokenSignal(record.fields[n]).availability # "malformed"
               /\ LET t == TokenSignal(record.fields[n]).value IN
                  t # None => t \in 0..MAX_TOKEN_COUNT
    <3>1. CASE record.fields[n] = None
      BY <3>1 DEF TokenSignal, Signal
    <3>2. CASE record.fields[n] # None
      <4>1. record.fields[n] \in Nat
        BY <2>5, <3>2
      <4>2. TokenSignal(record.fields[n]) =
              Signal("available", IF record.fields[n] <= MAX_TOKEN_COUNT THEN record.fields[n]
                                  ELSE MAX_TOKEN_COUNT)
        BY <3>2, <4>1 DEF TokenSignal
      <4> QED BY <4>1, <4>2, DirectSignalsAssumption DEF Signal
    <3> QED BY <3>1, <3>2
  <2>9. \A n \in DirectSignalNames : DirectSignal(record, n).availability # "malformed"
    <3>1. \A v : v # NotText => TextSignal(v).availability # "malformed"
      BY DEF TextSignal, Signal
    <3>2. \A n \in IdentityFields : record.identity # None => record.identity[n] # NotText
      BY <2>3, <2>5 DEF Identity
    <3>3. record.format # NotText
      BY <2>1, FormatIsText
    <3>4. DirectSignal(record, "request_metadata") = MetadataSignal(record)
      BY DEF DirectSignal, Tokens, IdentityFields
    <3>5. DirectSignal(record, "model_format") = TextSignal(record.format)
      BY DEF DirectSignal, Tokens, IdentityFields
    <3>6. ASSUME NEW n \in IdentityFields
          PROVE  DirectSignal(record, n) =
                   TextSignal(IF record.identity = None THEN None ELSE record.identity[n])
      BY DEF DirectSignal, Tokens, IdentityFields
    <3>7. \A n \in Tokens : DirectSignal(record, n) = TokenSignal(record.fields[n])
      BY DEF DirectSignal, Tokens, IdentityFields
    <3>8. \A n \in {"operation", "model_id"} \cup OptionalTexts :
            DirectSignal(record, n) = TextSignal(record.fields[n])
      BY DEF DirectSignal, Tokens, IdentityFields, OptionalTexts
    <3>9. {"operation", "model_id"} \subseteq RequiredTexts
      BY DEF RequiredTexts
    <3>10. \A n \in IdentityFields : DirectSignal(record, n).availability # "malformed"
      BY <3>1, <3>2, <3>6, NormalizerAssumption
    <3>11. \A n \in {"operation", "model_id"} \cup OptionalTexts :
             DirectSignal(record, n).availability # "malformed"
      BY <2>5, <3>1, <3>8, <3>9
    <3> QED BY <2>7, <2>8, <3>1, <3>3, <3>4, <3>5, <3>7, <3>10, <3>11
            DEF DirectSignalNames, PlainSignals
  <2>10. /\ DirectSignal(record, "request_metadata") = MetadataSignal(record)
         /\ \A n \in Tokens : DirectSignal(record, n) = TokenSignal(record.fields[n])
    BY DEF DirectSignal, Tokens, IdentityFields
  <2>11. ASSUME IsMapping(metadata), Textual(metadata)
         PROVE  /\ \A k \in DOMAIN BoundedMetadata(metadata) : ~Blocked(k)
                /\ Cardinality(DOMAIN BoundedMetadata(metadata)) <= MAX_METADATA_ITEMS
    <3>1. \A k \in DOMAIN BoundedMetadata(metadata) :
            \E j \in Reached(metadata) : k = Clip(j)
      BY DEF BoundedMetadata
    <3> HIDE DEF metadata
    <3> QED BY <2>11, <3>1, MetadataIsBounded
  <2> QED BY <2>6, <2>7, <2>8, <2>9, <2>10, <2>11 DEF record
<1> QED BY <1>1, <1>2, <1>3, ReadsAreComplete, PTL DEF FeedSpec

-----------------------------------------------------------------------------
(* What a spoiled column costs.                                            *)

\* The loader without what it spoils.
Unspoiled(by) == [zone |-> by.zone, spoils |-> <<>>]

\* A row has the columns of the clean one and those spoiled, and differs in these at most.
LEMMA SpoiledColumns ==
  ASSUME NEW c, NEW content, NEW by
  PROVE  DOMAIN SourceRow(c, content, by)
           = DOMAIN SourceRow(c, content, Unspoiled(by)) \cup DOMAIN by.spoils
BY DEF SourceRow, Unspoiled

LEMMA UnspoiledCell ==
  ASSUME NEW c, NEW content, NEW by,
         NEW column \in DOMAIN SourceRow(c, content, Unspoiled(by)), column \notin DOMAIN by.spoils
  PROVE  SourceRow(c, content, by)[column] = SourceRow(c, content, Unspoiled(by))[column]
BY DEF SourceRow, Unspoiled

\* No column of the source view holds a body.
LEMMA NoBodySelected ==
  ASSUME NEW c, NEW content, NEW by, NEW b \in Bodies
  PROVE  FirstPresent(SourceRow(c, content, Unspoiled(by)), b) = Missing
<1> DEFINE clean == SourceRow(c, content, Unspoiled(by))
<1>1. DOMAIN clean = DOMAIN DefaultFields \cup (IF content THEN ContentFields ELSE {})
  BY DEF SourceRow, Unspoiled
<1>2. ASSUME NEW i \in DOMAIN FieldAliases[b] PROVE FieldAliases[b][i] \notin DOMAIN clean
  BY <1>1 DEF Bodies, FieldAliases, DefaultFields, ContentFields
<1> QED BY <1>2 DEF Here, FirstPresent

\* A field no spoiled column decides is what it is in the clean row.
LEMMA UnspoiledField ==
  ASSUME NEW c, NEW content, NEW f \in DOMAIN FieldAliases,
         f \notin SpoiledFields(SourceRow(c, content, loader))
  PROVE  LET row   == SourceRow(c, content, loader)
             clean == SourceRow(c, content, Unspoiled(loader))
         IN  FirstPresent(row, f) = FirstPresent(clean, f) /\ Field(row, f) = Field(clean, f)
<1> DEFINE row == SourceRow(c, content, loader)
           clean == SourceRow(c, content, Unspoiled(loader))
<1>1. /\ DOMAIN row = DOMAIN clean \cup DOMAIN loader.spoils
      /\ \A column \in DOMAIN clean \ DOMAIN loader.spoils : row[column] = clean[column]
  BY SpoiledColumns, UnspoiledCell
<1>2. Here(row, f) # {} => Deciding(row, f) \notin DOMAIN loader.spoils
  BY DEF SpoiledFields
<1> HIDE DEF row, clean
<1>3. Here(clean, f) \subseteq Here(row, f)
  BY <1>1 DEF Here
<1>4. Here(row, f) # {} => Deciding(row, f) \in DOMAIN row
  BY DecidingAlias
<1>5. Here(row, f) # {} => /\ Deciding(row, f) \in DOMAIN clean
                           /\ clean[Deciding(row, f)] = row[Deciding(row, f)]
  BY <1>1, <1>2, <1>4
<1>6. FirstPresent(row, f) = FirstPresent(clean, f)
  BY <1>3, <1>5, PresentIsDecided
<1>7. Field(row, f) = Field(clean, f)
  BY <1>6 DEF Field
<1> QED BY <1>6, <1>7 DEF row, clean

\* What an optional field of a sound cell becomes: a reading of it, or nothing with a diagnostic.
LEMMA OptionalReadings ==
  ASSUME NEW f, NEW cell, cell # Missing
  PROVE  LET told(parsed) ==
               \/ parsed.value \in Readings(f, cell)
               \/ /\ parsed.value \in {None, NoMetadata}
                  /\ parsed.code # None \/ cell = None
         IN  /\ f \in Tokens => told(NonnegativeInt(cell))
             /\ f = "request_metadata" => told(Metadata(cell))
             /\ f \in OptionalTexts => told(OptionalText(cell))
<1> DEFINE told(parsed) ==
             \/ parsed.value \in Readings(f, cell)
             \/ /\ parsed.value \in {None, NoMetadata}
                /\ parsed.code # None \/ cell = None
<1>1. /\ "MALFORMED_TOKEN_COUNT" # None /\ "MALFORMED_REQUEST_METADATA" # None
      /\ "MALFORMED_SOURCE_FIELD" # None
  BY NormalizerAssumption DEF Codes
<1>2. CASE cell = None
  BY <1>2 DEF NonnegativeInt, Metadata, OptionalText, Null, Parsed
<1>3. CASE cell # None
  <2>1. ~Null(cell)
    BY <1>3 DEF Null
  <2>2. ASSUME f \in Tokens PROVE told(NonnegativeInt(cell))
    <3>1. cell.type = "number" => Readings(f, cell) = {cell.value}
      BY <1>3, <2>2 DEF Readings, Tokens
    <3> QED BY <1>1, <1>3, <2>1, <3>1 DEF NonnegativeInt, Parsed
  <2>3. f = "request_metadata" => told(Metadata(cell))
    BY <1>1, <1>3, <2>1 DEF Metadata, Parsed, Readings, Tokens
  <2>4. f \in OptionalTexts => told(OptionalText(cell))
    BY <1>1, <1>3, <2>1 DEF OptionalText, Parsed, Readings, Tokens, OptionalTexts
  <2> QED BY <2>2, <2>3, <2>4
<1> QED BY <1>2, <1>3

\* A spoiled column costs no more than the fields it decides, and never makes a value up.
THEOREM OneBadColumnStaysAlone == FeedSpec => []OneBadColumnCostsItself
<1>1. FeedInit => loader \in Loaders
  BY DEF FeedInit
<1>2. loader \in Loaders /\ [FeedNext]_feedVars => (loader \in Loaders)'
  BY DEF FeedNext, Lake, Read, feedVars
<1>3. IInv /\ loader \in Loaders => OneBadColumnCostsItself
  <2> SUFFICES ASSUME IInv, loader \in Loaders, NEW r \in Done, NEW c \in Recorded(r),
                      NormalizedBy(c, r, Unspoiled(loader)).record # None
               PROVE
    LET clean  == NormalizedBy(c, r, Unspoiled(loader))
        record == Record(r, c)
        row    == SourceRow(c, r.content, loader)
        spoiled == SpoiledFields(row)
        codes  == {e.field : e \in batches[r].results[c].errors}
    IN  /\ \A f \in Plain \ spoiled : record.fields[f] = clean.record.fields[f]
        /\ {e \in clean.errors : e.field \notin spoiled \cup {"adapter"}}
             \subseteq batches[r].results[c].errors
        /\ spoiled \cap (Bodies \cup {"model_format", "model_id"}) = {} =>
             record.format = clean.record.format
        /\ spoiled \cap IdentityFields = {} => record.identity = clean.record.identity
        /\ \A f \in spoiled \cap (Plain \ Traceability) :
             \/ record.fields[f] \in Readings(f, row[Deciding(row, f)])
             \/ /\ record.fields[f] \in {None, NoMetadata}
                /\ f \in codes \/ row[Deciding(row, f)] = None
        /\ codes \subseteq spoiled \cup {"adapter"} \cup {e.field : e \in clean.errors}
    BY DEF OneBadColumnCostsItself, Unspoiled
  <2> DEFINE clean   == NormalizedBy(c, r, Unspoiled(loader))
             record  == Record(r, c)
             row     == SourceRow(c, r.content, loader)
             cleanRow == SourceRow(c, r.content, Unspoiled(loader))
             spoiled == SpoiledFields(row)
             errors  == batches[r].results[c].errors
             adapter == SelectAdapter(row, Field(row, "model_id").value,
                                      Field(row, "model_format").value)
             cleanAdapter == SelectAdapter(cleanRow, Field(cleanRow, "model_id").value,
                                           Field(cleanRow, "model_format").value)
  <2>1. /\ record = InvocationRecord(row, r.context, r.include) /\ c \in Rows(r)
        /\ errors = Errors(row, Optional) \cup FormatErrors(row, adapter)
    BY TracedRow DEF Diagnostics
  <2>2. /\ clean.record = InvocationRecord(cleanRow, r.context, r.include)
        /\ clean.errors = Errors(cleanRow, Optional) \cup FormatErrors(cleanRow, cleanAdapter)
    BY DEF NormalizedBy, Normalize, Refused, Diagnostics
  <2>3. \A column \in DOMAIN row : SoundCell(row[column])
    BY <2>1, CellsOfARow
  <2>4. \A f \in DOMAIN FieldAliases \ spoiled :
          FirstPresent(row, f) = FirstPresent(cleanRow, f) /\ Field(row, f) = Field(cleanRow, f)
    BY UnspoiledField
  <2>5. \A b \in Bodies : FirstPresent(cleanRow, b) = Missing
    BY NoBodySelected
  <2>6. ASSUME NEW f \in spoiled
        PROVE  /\ f \in DOMAIN FieldAliases /\ FirstPresent(row, f) = row[Deciding(row, f)]
               /\ SoundCell(row[Deciding(row, f)]) /\ row[Deciding(row, f)] # Missing
    <3>1. /\ f \in DOMAIN FieldAliases /\ Here(row, f) # {}
          /\ Deciding(row, f) \in DOMAIN loader.spoils
      BY DEF SpoiledFields
    <3>2. Deciding(row, f) \in DOMAIN row
      BY <3>1, DecidingAlias
    <3>3. row[Deciding(row, f)] = loader.spoils[Deciding(row, f)]
      BY <3>1, <3>2 DEF SourceRow
    <3> QED BY <2>3, <3>1, <3>2, <3>3, CellsAreSound DEF FirstPresent
  <2> HIDE DEF clean, record, row, cleanRow, spoiled, errors, adapter, cleanAdapter
  <2>7. Plain \cup IdentityFields \cup Bodies \cup Optional \subseteq DOMAIN FieldAliases
    BY DEF Plain, IdentityFields, Bodies, Optional, RequiredTexts, Tokens, OptionalTexts,
           FieldAliases
  <2>8. /\ "model_format" \in DOMAIN FieldAliases /\ "model_id" \in DOMAIN FieldAliases
    BY DEF FieldAliases
  <2>9. \A f \in Plain : /\ record.fields[f] = Field(row, f).value
                         /\ clean.record.fields[f] = Field(cleanRow, f).value
    BY <2>1, <2>2 DEF InvocationRecord
  <2>10. \A f \in Plain \ spoiled : record.fields[f] = clean.record.fields[f]
    BY <2>4, <2>7, <2>9
  <2>11. Errors(row, Optional) \subseteq errors /\ Errors(cleanRow, Optional) \subseteq clean.errors
    BY <2>1, <2>2
  <2>12. {e \in clean.errors : e.field \notin spoiled \cup {"adapter"}} \subseteq errors
    <3> SUFFICES ASSUME NEW e \in clean.errors, e.field \notin spoiled, e.field # "adapter"
                 PROVE  e \in errors
      OBVIOUS
    <3>1. e \notin FormatErrors(cleanRow, cleanAdapter)
      <4>1. BodyErrors(cleanRow) = {}
        BY <2>5 DEF BodyErrors, Null
      <4>2. FormatErrors(cleanRow, cleanAdapter)
              \subseteq {[code |-> "UNSUPPORTED_MODEL_FORMAT", field |-> "adapter"]}
        BY <4>1 DEF FormatErrors
      <4> QED BY <4>2
    <3>2. PICK f \in Optional : /\ Field(cleanRow, f).code # None
                                /\ e = [code |-> Field(cleanRow, f).code, field |-> f]
      BY <2>2, <3>1 DEF Errors
    <3>3. Field(row, f) = Field(cleanRow, f)
      BY <2>4, <2>7, <3>2
    <3>4. e \in Errors(row, Optional)
      BY <3>2, <3>3 DEF Errors
    <3> QED BY <2>11, <3>4
  <2>13. ASSUME spoiled \cap (Bodies \cup {"model_format", "model_id"}) = {}
         PROVE  record.format = clean.record.format
    <3>1. /\ Field(row, "model_format") = Field(cleanRow, "model_format")
          /\ Field(row, "model_id") = Field(cleanRow, "model_id")
      BY <2>4, <2>8, <2>13
    <3>2. NoBodyColumn(row) <=> NoBodyColumn(cleanRow)
      BY <2>4, <2>7, <2>13 DEF NoBodyColumn
    <3>3. \A m, d : SelectAdapter(row, m, d) = SelectAdapter(cleanRow, m, d)
      BY <3>2 DEF SelectAdapter
    <3> QED BY <2>1, <2>2, <3>1, <3>3 DEF InvocationRecord
  <2>14. ASSUME spoiled \cap IdentityFields = {}
         PROVE  record.identity = clean.record.identity
    <3>1. \A f \in IdentityFields : Field(row, f).value = Field(cleanRow, f).value
      BY <2>4, <2>7, <2>14
    <3>2. [f \in IdentityFields |-> Field(row, f).value]
            = [f \in IdentityFields |-> Field(cleanRow, f).value]
      BY <3>1
    <3>3. Identity(row) = Identity(cleanRow)
      BY <3>2 DEF Identity
    <3> QED BY <2>1, <2>2, <3>3 DEF InvocationRecord
  <2>15. ASSUME NEW f \in spoiled \cap (Plain \ Traceability)
         PROVE  \/ record.fields[f] \in Readings(f, row[Deciding(row, f)])
                \/ /\ record.fields[f] \in {None, NoMetadata}
                   /\ f \in {e.field : e \in errors} \/ row[Deciding(row, f)] = None
    <3> DEFINE cell == row[Deciding(row, f)]
    <3>1. /\ FirstPresent(row, f) = cell /\ SoundCell(cell) /\ cell # Missing
          /\ record.fields[f] = Field(row, f).value
      BY <2>6, <2>9
    <3>2. f \in Tokens \cup OptionalTexts \cup {"request_metadata"}
      BY DEF Plain, Traceability
    <3>3. \/ f \in Tokens /\ Field(row, f) = NonnegativeInt(cell)
          \/ f = "request_metadata" /\ Field(row, f) = Metadata(cell)
          \/ f \in OptionalTexts /\ Field(row, f) = OptionalText(cell)
      BY <3>1, <3>2 DEF Field, Tokens, OptionalTexts, RequiredTexts
    <3>4. ASSUME Field(row, f).code # None PROVE f \in {e.field : e \in errors}
      <4>1. [code |-> Field(row, f).code, field |-> f] \in Errors(row, Optional)
        BY <3>2, <3>4 DEF Errors, Optional
      <4> QED BY <2>11, <4>1
    <3> HIDE DEF cell
    <3>5. \/ Field(row, f).value \in Readings(f, cell)
          \/ /\ Field(row, f).value \in {None, NoMetadata}
             /\ Field(row, f).code # None \/ cell = None
      BY <3>1, <3>3, OptionalReadings
    <3> QED BY <3>1, <3>4, <3>5 DEF cell
  <2>16. ASSUME NEW e \in errors, e.field \notin spoiled, e.field # "adapter"
         PROVE  \E d \in clean.errors : d.field = e.field
    <3>1. e \notin FormatErrors(row, adapter)
      <4>1. \A b \in Bodies \ spoiled : Null(FirstPresent(row, b))
        BY <2>4, <2>5, <2>7 DEF Null
      <4>2. e \notin BodyErrors(row)
        BY <2>16, <4>1 DEF BodyErrors
      <4>3. e # [code |-> "UNSUPPORTED_MODEL_FORMAT", field |-> "adapter"]
        BY <2>16
      <4> QED BY <4>2, <4>3 DEF FormatErrors
    <3>2. PICK f \in Optional : /\ Field(row, f).code # None
                                /\ e = [code |-> Field(row, f).code, field |-> f]
      BY <2>1, <3>1 DEF Errors
    <3>3. Field(row, f) = Field(cleanRow, f)
      BY <2>4, <2>7, <2>16, <3>2
    <3>4. e \in Errors(cleanRow, Optional)
      BY <3>2, <3>3 DEF Errors
    <3> QED BY <2>11, <3>4
  <2>17. {e.field : e \in errors}
           \subseteq spoiled \cup {"adapter"} \cup {e.field : e \in clean.errors}
    BY <2>16
  <2> QED BY <2>10, <2>12, <2>13, <2>14, <2>15, <2>17
          DEF clean, record, row, spoiled, errors
<1> QED BY <1>1, <1>2, <1>3, ReadsAreComplete, PTL DEF FeedSpec

=============================================================================
