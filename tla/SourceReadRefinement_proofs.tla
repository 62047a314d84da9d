----------------------- MODULE SourceReadRefinement_proofs -----------------------
(***************************************************************************)
(* The reader implements SourceReadContract, its answers are final and its *)
(* content reaches approved readers only, for every value of the constants.*)
(*                                                                         *)
(* All three need to know how a step touches the memory: a read ends with  *)
(* a first answer for its run, or goes on, or touches nothing.  StepCases  *)
(* says so once for the whole of Next; ReadInv is IInv with what that      *)
(* needs: a read in progress has no answer yet (CallsAreNew), what was     *)
(* admitted stays approved (AdmittedCalls, AdmittedMemory), and what a     *)
(* caller was given is what is remembered (AnswersAreKept).                *)
(***************************************************************************)
EXTENDS SourceReader_proofs

-----------------------------------------------------------------------------
(* How a step touches the memory.                                          *)

Approved(r, q) == q.include_content => config[r].content_access_approved

CallsAreNew ==
  \A r \in Readers : pc[r] # "idle" => cache[r][call[r].request.run] = NoResult

AdmittedCalls ==
  \A r \in Readers : pc[r] # "idle" => Approved(r, call[r].request)

AdmittedMemory ==
  \A r \in Readers, run \in Runs : Remembered(r, run) => Approved(r, cache[r][run].request)

AnswersAreKept ==
  \A r \in Readers :
    returned[r] # NoReturn /\ returned[r].result # Raised =>
      \E run \in Runs : Remembered(r, run) /\ cache[r][run] = returned[r].result

MemoryInv == CallsAreNew /\ AdmittedCalls /\ AdmittedMemory /\ AnswersAreKept

ReadInv == IInv /\ MemoryInv

\* Reader r serves request q: it was admitted and its run has no answer yet.
Serves(r, q) == q.run \in Runs /\ cache[r][q.run] = NoResult /\ Approved(r, q)

\* Others are left alone by a step of reader r.
OthersStay(r) ==
  \A s \in Readers \ {r} :
    /\ pc'[s] = pc[s] /\ call'[s] = call[s]
    /\ cache'[s] = cache[s] /\ returned'[s] = returned[s]

\* The read of q by reader r ends with an answer, which is remembered and given.
Ends(r, q) ==
  /\ OthersStay(r)
  /\ pc'[r] = "idle"
  /\ cache'[r][q.run].request = q
  /\ \A run \in Runs \ {q.run} : cache'[r][run] = cache[r][run]
  /\ returned'[r] = [request |-> q, result |-> cache'[r][q.run]]

\* The read of q by reader r begins or goes on.
GoesOn(r, q) ==
  /\ OthersStay(r)
  /\ pc'[r] # "idle" /\ call'[r].request = q
  /\ cache' = cache
  /\ returned'[r] \in {returned[r], NoReturn}

\* Reader r gives its caller what it remembers, or raises.
Gives(r, q) ==
  /\ OthersStay(r)
  /\ UNCHANGED <<pc, call, cache, executions>>
  /\ returned'[r].result # Raised =>
       /\ q.run \in Runs /\ Remembered(r, q.run)
       /\ returned'[r].result = cache[r][q.run]

Dies(r) ==
  /\ OthersStay(r)
  /\ pc'[r] = "idle"
  /\ \A run \in Runs : cache'[r][run] = NoResult
  /\ returned'[r] = NoReturn
  /\ crashes' # crashes
  /\ \A s \in Readers \ {r} : config'[s] = config[s]
  /\ UNCHANGED executions

LEMMA FinishEnds ==
  ASSUME IInv, NEW r \in Readers, NEW result, result.request.run \in Runs, Finish(r, result)
  PROVE  Ends(r, result.request) /\ cache'[r][result.request.run] = result
<1> DEFINE q == result.request
<1>1. /\ cache' = [cache EXCEPT ![r] = [cache[r] EXCEPT ![q.run] = result]]
      /\ returned' = [returned EXCEPT ![r] = [request |-> q, result |-> result]]
      /\ pc' = [pc EXCEPT ![r] = "idle"]
      /\ call' = [call EXCEPT ![r] = NoCall]
  BY DEF Finish, Give
<1>2. cache \in [Readers -> [Runs -> Result \cup {NoResult}]] /\ DOMAIN returned = Readers
      /\ DOMAIN pc = Readers /\ DOMAIN call = Readers
  BY DEF IInv, TypeOK
<1>3. cache'[r] = [cache[r] EXCEPT ![q.run] = result]
  BY <1>1, <1>2
<1>4. cache'[r][q.run] = result /\ \A run \in Runs \ {q.run} : cache'[r][run] = cache[r][run]
  BY <1>2, <1>3
<1>5. OthersStay(r)
  BY <1>1, <1>2 DEF OthersStay
<1> QED BY <1>1, <1>2, <1>4, <1>5 DEF Ends

LEMMA GoOnGoesOn ==
  ASSUME IInv, NEW r \in Readers, NEW p, p # "idle", NEW c, GoOn(r, p, c)
  PROVE  GoesOn(r, c.request)
BY DEF GoOn, GoesOn, OthersStay, IInv, TypeOK

\* A step of a read in progress: it goes on, or ends.  Only a submission touches Athena's
\* executions, and a read that ends with it has an error.
LEMMA ReaderStepCases ==
  ASSUME IInv, NEW r \in Readers, ReaderStep(r)
  PROVE  LET q == call[r].request IN
         /\ pc[r] # "idle" /\ q.run \in Runs
         /\ UNCHANGED <<config, crashes>>
         /\ \/ executions' = executions /\ (GoesOn(r, q) \/ Ends(r, q))
            \/ /\ pc[r] = "submit" /\ executions' = Arrived(SubmissionOf(r))
               /\ GoesOn(r, q) \/ (Ends(r, q) /\ cache'[r][q.run].errors # {})
<1> DEFINE q == call[r].request
<1>1. pc[r] # "idle" /\ UNCHANGED <<config, crashes>>
  BY DEF ReaderStep, Submit, SubmitAnswered, SubmitUnusable, SubmitRaised,
       Poll, PollSucceeded, PollSettled, PollUnusable, PollPending, PollRaised, Polling,
       Load, LoadAnswered, LoadUnusable, LoadRaised, Loading
<1>2. call[r] \in Call /\ q.run \in Runs
  BY <1>1, CallFacts
<1>3. ASSUME NEW c, c.request = q, NEW errors, errors # {}, Finish(r, Submitted(c, errors))
      PROVE  Ends(r, q) /\ cache'[r][q.run].errors # {}
  <2>1. Submitted(c, errors).request = q /\ Submitted(c, errors).errors = errors
    BY <1>3 DEF Submitted, Loaded
  <2> QED BY <1>2, <1>3, <2>1, FinishEnds
<1>4. ASSUME NEW errors, errors # {}, NEW e, Unsubmitted(call[r], e).errors = errors,
             Finish(r, Unsubmitted(call[r], e))
      PROVE  Ends(r, q) /\ cache'[r][q.run].errors # {}
  <2>1. Unsubmitted(call[r], e).request = q
    BY DEF Unsubmitted, EmptyResult
  <2> QED BY <1>2, <1>4, <2>1, FinishEnds
<1>5. ASSUME NEW c, c.request = q, AfterPolling(r, c)
      PROVE  GoesOn(r, q) \/ (Ends(r, q) /\ cache'[r][q.run].errors # {})
  BY <1>3, <1>5, GoOnGoesOn DEF AfterPolling
<1>6. ASSUME NEW result, result.request = q, result.errors # {}, RetryOrFinish(r, result)
      PROVE  GoesOn(r, q) \/ (Ends(r, q) /\ cache'[r][q.run].errors # {})
  <2>1. [call[r] EXCEPT !.retries = @ + 1].request = q
    BY <1>2 DEF Call
  <2>2. GoOn(r, pc[r], [call[r] EXCEPT !.retries = @ + 1]) => GoesOn(r, q)
    BY <1>1, <2>1, GoOnGoesOn
  <2>3. Finish(r, result) => Ends(r, q) /\ cache'[r][q.run] = result
    BY <1>2, <1>6, FinishEnds
  <2> QED BY <1>6, <2>2, <2>3 DEF RetryOrFinish
<1>7. ASSUME NEW state
      PROVE  Polled(r, state).request = q
  BY <1>2 DEF Polled, Call
<1>8. \A c \in {[call[r] EXCEPT !.retries = 0],
                [[call[r] EXCEPT !.retries = 0] EXCEPT !.query_state = "NOT_POLLED"],
                [call[r] EXCEPT !.query_state = "UNKNOWN"]} : c.request = q
  BY <1>2 DEF Call
<1>9. CASE Submit(r)
  <2>1. pc[r] = "submit"
    BY <1>9 DEF Submit, SubmitAnswered, SubmitUnusable, SubmitRaised
  <2>2. GoesOn(r, q) \/ (Ends(r, q) /\ cache'[r][q.run].errors # {})
    <3>1. CASE SubmitAnswered(r)
      BY <1>5, <1>8, <3>1, GoOnGoesOn DEF SubmitAnswered
    <3>2. CASE SubmitUnusable(r)
      BY <1>4, <3>2 DEF SubmitUnusable, Unsubmitted, EmptyResult
    <3>3. CASE SubmitRaised(r)
      BY <1>6, <3>3 DEF SubmitRaised, Unsubmitted, EmptyResult
    <3> QED BY <1>9, <3>1, <3>2, <3>3 DEF Submit
  <2>3. executions' \in {executions, Arrived(SubmissionOf(r))}
    BY <1>9 DEF Submit, SubmitAnswered, SubmitUnusable, SubmitRaised
  <2> QED BY <1>1, <1>2, <2>1, <2>2, <2>3
<1>10. CASE Poll(r)
  <2>1. executions' = executions
    BY <1>10 DEF Poll, PollSucceeded, PollSettled, PollUnusable, PollPending, PollRaised, Polling
  <2>2. GoesOn(r, q) \/ Ends(r, q)
    <3>1. CASE PollSucceeded(r)
      BY <1>5, <1>7, <3>1 DEF PollSucceeded
    <3>2. CASE PollSettled(r)
      BY <1>3, <1>7, <3>2 DEF PollSettled
    <3>3. CASE PollUnusable(r)
      BY <1>3, <1>7, <1>8, <3>3 DEF PollUnusable
    <3>4. CASE PollPending(r)
      <4> DEFINE c == Polled(r, "NONE")
      <4>1. GoOn(r, "poll", c) \/ Finish(r, Submitted([c EXCEPT !.query_state = "TIMEOUT"],
                                                      {"SOURCE_QUERY_TIMEOUT"}))
        BY <3>4 DEF PollPending
      <4>2. c.request = q /\ [c EXCEPT !.query_state = "TIMEOUT"].request = q
        BY <1>2 DEF Polled, Call
      <4> HIDE DEF c
      <4> QED BY <1>3, <4>1, <4>2, GoOnGoesOn
    <3>5. CASE PollRaised(r)
      <4> DEFINE result == Submitted([call[r] EXCEPT !.query_state = "UNKNOWN"],
                                     {"SOURCE_QUERY_STATUS_FAILED"})
      <4>1. RetryOrFinish(r, result) /\ result.request = q /\ result.errors # {}
        BY <1>8, <3>5 DEF PollRaised, Submitted, Loaded
      <4> HIDE DEF result
      <4> QED BY <1>6, <4>1
    <3> QED BY <1>10, <3>1, <3>2, <3>3, <3>4, <3>5 DEF Poll
  <2> QED BY <1>1, <1>2, <2>1, <2>2
<1>11. CASE Load(r)
  <2>1. executions' = executions
    BY <1>11 DEF Load, LoadAnswered, LoadUnusable, LoadRaised, Loading
  <2>2. GoesOn(r, q) \/ Ends(r, q)
    <3>1. CASE LoadAnswered(r)
      <4>1. PICK a \in LoaderAnswers(Token(r)) :
              LET errors == BoundedSourceErrors(a.errors)
                  c      == [call[r] EXCEPT !.scanned = Later(@, a.scanned)]
              IN  Finish(r, IF errors # {}
                            THEN Loaded(c, errors, "none", a.determined, a.publication)
                            ELSE Loaded(c, {}, a.rows, TRUE, TRUE))
        BY <3>1 DEF LoadAnswered
      <4>2. PICK result : result.request = q /\ Finish(r, result)
        BY <1>2, <4>1 DEF Loaded, Call
      <4> QED BY <1>2, <4>2, FinishEnds
    <3>2. CASE LoadUnusable(r)
      BY <1>3, <3>2 DEF LoadUnusable
    <3>3. CASE LoadRaised(r)
      BY <1>6, <3>3 DEF LoadRaised, Submitted, Loaded
    <3> QED BY <1>11, <3>1, <3>2, <3>3 DEF Load
  <2> QED BY <1>1, <1>2, <2>1, <2>2
<1> QED BY <1>9, <1>10, <1>11 DEF ReaderStep

\* A call of read(): it raises or answers from memory, begins a query, or ends at once.
LEMMA EnterCases ==
  ASSUME IInv, NEW r \in Readers, NEW q \in Requests, Enter(r, q)
  PROVE  /\ UNCHANGED <<executions, config, crashes>>
         /\ Gives(r, q) \/ (Serves(r, q) /\ (GoesOn(r, q) \/ Ends(r, q)))
<1>1. UNCHANGED <<executions, config, crashes>>
  BY DEF Enter, Refuse, Remember, ReadDisabled, ReadUnavailable, BeginQuery
<1>2. Admitted(r, q) => q.run \in Runs /\ Approved(r, q)
  BY ReaderAssumption DEF Admitted, Approved, Request
<1>3. Fresh(r, q) => Serves(r, q)
  BY <1>2 DEF Fresh, Serves
<1>4. CASE Refuse(r, q)
  BY <1>1, <1>4 DEF Refuse, Give, Gives, OthersStay, IInv, TypeOK
<1>5. CASE Remember(r, q)
  BY <1>1, <1>2, <1>5 DEF Remember, Remembered, Give, Gives, OthersStay, IInv, TypeOK
<1>6. CASE ReadDisabled(r, q)
  <2>1. EmptyResult(q, NoPlan, {}).request = q /\ Serves(r, q)
    BY <1>3, <1>6 DEF ReadDisabled, EmptyResult
  <2> QED BY <1>1, <1>6, <2>1, FinishEnds DEF ReadDisabled, Serves
<1>7. CASE ReadUnavailable(r, q)
  <2> DEFINE result == EmptyResult(q, ResolveSourceScope(q.scope, SourceWindow[today]),
                                   {"SOURCE_UNAVAILABLE"})
  <2>1. result.request = q /\ Finish(r, result) /\ Serves(r, q)
    BY <1>3, <1>7 DEF ReadUnavailable, Planned, EmptyResult
  <2> HIDE DEF result
  <2> QED BY <1>1, <2>1, FinishEnds DEF Serves
<1>8. CASE BeginQuery(r, q)
  <2>1. Serves(r, q)
    BY <1>3, <1>8 DEF BeginQuery, Planned
  <2>2. PICK c : /\ c.request = q /\ call' = [call EXCEPT ![r] = c]
                 /\ pc' = [pc EXCEPT ![r] = "submit"]
                 /\ returned' = [returned EXCEPT ![r] = NoReturn] /\ cache' = cache
    BY <1>8 DEF BeginQuery
  <2> QED BY <1>1, <2>1, <2>2 DEF GoesOn, OthersStay, IInv, TypeOK
<1> QED BY <1>4, <1>5, <1>6, <1>7, <1>8 DEF Enter

LEMMA CrashDies ==
  ASSUME IInv, NEW r \in Readers, Crash(r)
  PROVE  Dies(r)
<1>1. crashes' = crashes + 1 /\ crashes \in Nat
  BY ReaderAssumption DEF Crash, IInv, TypeOK
<1> QED BY <1>1 DEF Crash, Dies, OthersStay, IInv, TypeOK

\* What any step does to the memory and to Athena's executions.
LEMMA StepCases ==
  ASSUME ReadInv, [Next]_vars
  PROVE  \/ \E r \in Readers, q \in Requests :
              /\ UNCHANGED <<executions, config, crashes>>
              /\ Gives(r, q) \/ (Serves(r, q) /\ (GoesOn(r, q) \/ Ends(r, q)))
         \/ \E r \in Readers : \E q \in Requests :
              /\ Serves(r, q) /\ UNCHANGED <<config, crashes>>
              /\ pc[r] = "submit" /\ q = call[r].request
              /\ executions' = Arrived(SubmissionOf(r))
              /\ GoesOn(r, q) \/ (Ends(r, q) /\ cache'[r][q.run].errors # {})
         \/ \E r \in Readers : Dies(r)
         \/ AthenaStep /\ UNCHANGED <<rvars, config, crashes>>
         \/ UNCHANGED <<executions, rvars, config, crashes>>
<1>1. ASSUME NEW r \in Readers, ReaderStep(r)
      PROVE  \E q \in Requests :
               /\ q = call[r].request /\ Serves(r, q) /\ UNCHANGED <<config, crashes>>
               /\ \/ executions' = executions /\ (GoesOn(r, q) \/ Ends(r, q))
                  \/ /\ pc[r] = "submit" /\ executions' = Arrived(SubmissionOf(r))
                     /\ GoesOn(r, q) \/ (Ends(r, q) /\ cache'[r][q.run].errors # {})
  <2> DEFINE q == call[r].request
  <2>1. pc[r] # "idle" /\ q.run \in Runs
    BY <1>1, ReaderStepCases DEF ReadInv
  <2>2. Serves(r, q)
    BY <2>1 DEF ReadInv, MemoryInv, CallsAreNew, AdmittedCalls, Serves
  <2>3. q \in Requests
    BY <2>1, CallFacts DEF ReadInv, Call
  <2>4. /\ UNCHANGED <<config, crashes>>
        /\ \/ executions' = executions /\ (GoesOn(r, q) \/ Ends(r, q))
           \/ /\ pc[r] = "submit" /\ executions' = Arrived(SubmissionOf(r))
              /\ GoesOn(r, q) \/ (Ends(r, q) /\ cache'[r][q.run].errors # {})
    BY <1>1, ReaderStepCases DEF ReadInv
  <2> QED BY <2>2, <2>3, <2>4
<1>2. ASSUME NEW r \in Readers, NEW q \in Requests, Enter(r, q)
      PROVE  /\ UNCHANGED <<executions, config, crashes>>
             /\ Gives(r, q) \/ (Serves(r, q) /\ (GoesOn(r, q) \/ Ends(r, q)))
  BY <1>2, EnterCases DEF ReadInv
<1>3. ASSUME NEW r \in Readers, Crash(r)
      PROVE  Dies(r)
  BY <1>3, CrashDies DEF ReadInv
<1>4. Athena => AthenaStep /\ UNCHANGED <<rvars, config, crashes>>
  BY DEF Athena
<1>5. NextDay \/ UNCHANGED vars => UNCHANGED <<executions, rvars, config, crashes>>
  BY DEF NextDay, vars, rvars
<1>6. ASSUME NEW r \in Readers, ReaderStep(r)
      PROVE  \E q \in Requests :
               \/ /\ UNCHANGED <<executions, config, crashes>>
                  /\ Serves(r, q) /\ (GoesOn(r, q) \/ Ends(r, q))
               \/ /\ Serves(r, q) /\ UNCHANGED <<config, crashes>>
                  /\ pc[r] = "submit" /\ q = call[r].request
                  /\ executions' = Arrived(SubmissionOf(r))
                  /\ GoesOn(r, q) \/ (Ends(r, q) /\ cache'[r][q.run].errors # {})
  <2>1. PICK q \in Requests :
               /\ q = call[r].request /\ Serves(r, q) /\ UNCHANGED <<config, crashes>>
               /\ \/ executions' = executions /\ (GoesOn(r, q) \/ Ends(r, q))
                  \/ /\ pc[r] = "submit" /\ executions' = Arrived(SubmissionOf(r))
                     /\ GoesOn(r, q) \/ (Ends(r, q) /\ cache'[r][q.run].errors # {})
    BY <1>1, <1>6
  <2> QED BY <2>1
<1> QED BY <1>2, <1>3, <1>4, <1>5, <1>6 DEF Next

-----------------------------------------------------------------------------
(* The invariant of the memory.                                            *)

\* An answer stays while its process lives.
AnswersStay ==
  \A r \in Readers, run \in Runs :
    Remembered(r, run) /\ crashes' = crashes => cache'[r][run] = cache[r][run]

\* The same of one reader, unless it dies.
Keeps(r) == \A run \in Runs : Remembered(r, run) => cache'[r][run] = cache[r][run]

\* What MemoryInv says of one reader.
ReaderOK(r) ==
  /\ pc[r] # "idle" =>
       cache[r][call[r].request.run] = NoResult /\ Approved(r, call[r].request)
  /\ \A run \in Runs : Remembered(r, run) => Approved(r, cache[r][run].request)
  /\ returned[r] # NoReturn /\ returned[r].result # Raised =>
       \E run \in Runs : Remembered(r, run) /\ cache[r][run] = returned[r].result

LEMMA MemoryByReader == MemoryInv <=> \A r \in Readers : ReaderOK(r)
BY DEF MemoryInv, CallsAreNew, AdmittedCalls, AdmittedMemory, AnswersAreKept, ReaderOK

LEMMA StillReaderOK ==
  ASSUME NEW s \in Readers, ReaderOK(s), pc'[s] = pc[s], call'[s] = call[s],
         cache'[s] = cache[s], returned'[s] = returned[s], config'[s] = config[s]
  PROVE  ReaderOK(s)' /\ Keeps(s)
BY DEF ReaderOK, Keeps, Remembered, Approved

LEMMA StepReaderOK ==
  ASSUME ReadInv, IInv', NEW r \in Readers, NEW q \in Requests, config' = config,
         Gives(r, q) \/ (Serves(r, q) /\ (GoesOn(r, q) \/ Ends(r, q)))
  PROVE  ReaderOK(r)' /\ Keeps(r)
<1>1. ReaderOK(r)
  BY MemoryByReader DEF ReadInv
<1>2. CASE Gives(r, q)
  <2>1. pc' = pc /\ call' = call /\ cache' = cache
    BY <1>2 DEF Gives
  <2>2. returned'[r] # NoReturn /\ returned'[r].result # Raised =>
          \E run \in Runs : Remembered(r, run)' /\ cache'[r][run] = returned'[r].result
    BY <1>2, <2>1 DEF Gives, Remembered
  <2> QED BY <1>1, <2>1, <2>2 DEF ReaderOK, Keeps, Remembered, Approved
<1>3. CASE Serves(r, q) /\ GoesOn(r, q)
  BY <1>1, <1>3 DEF GoesOn, Serves, ReaderOK, Keeps, Remembered, Approved
<1>4. CASE Serves(r, q) /\ Ends(r, q)
  <2>1. /\ pc'[r] = "idle" /\ q.run \in Runs /\ cache'[r][q.run].request = q
        /\ \A run \in Runs \ {q.run} : cache'[r][run] = cache[r][run]
        /\ returned'[r] = [request |-> q, result |-> cache'[r][q.run]]
        /\ Approved(r, q) /\ cache[r][q.run] = NoResult
    BY <1>4 DEF Serves, Ends
  <2>2. Keeps(r)
    BY <2>1 DEF Keeps, Remembered
  <2>3. ASSUME returned'[r] # NoReturn, returned'[r].result # Raised
        PROVE  Remembered(r, q.run)'
    <3>1. returned'[r] \in Return
      BY <2>3 DEF IInv, TypeOK
    <3>2. cache'[r][q.run] \in Result
      BY <2>1, <2>3, <3>1 DEF Return
    <3> QED BY <3>2, SentinelAssumption DEF Remembered
  <2>4. \A run \in Runs : Remembered(r, run)' => Approved(r, cache'[r][run].request)
    BY <1>1, <2>1 DEF ReaderOK, Remembered
  <2> QED BY <2>1, <2>2, <2>3, <2>4 DEF ReaderOK, Approved
<1> QED BY <1>2, <1>3, <1>4

LEMMA ReadStep ==
  ASSUME ReadInv, [Next]_vars
  PROVE  ReadInv' /\ AnswersStay
<1>1. IInv' /\ \A s \in Readers : ReaderOK(s)
  BY StepIsGood, MemoryByReader DEF ReadInv
<1>2. ASSUME NEW r \in Readers, OthersStay(r),
             \A s \in Readers \ {r} : config'[s] = config[s]
      PROVE  \A s \in Readers \ {r} : ReaderOK(s)' /\ Keeps(s)
  BY <1>1, <1>2, StillReaderOK DEF OthersStay
<1>3. ASSUME NEW r \in Readers, NEW q \in Requests, UNCHANGED <<config, crashes>>,
             Gives(r, q) \/ (Serves(r, q) /\ (GoesOn(r, q) \/ Ends(r, q)))
      PROVE  \A s \in Readers : ReaderOK(s)' /\ Keeps(s)
  <2>1. OthersStay(r)
    BY <1>3 DEF Gives, GoesOn, Ends
  <2>2. ReaderOK(r)' /\ Keeps(r)
    BY <1>1, <1>3, StepReaderOK
  <2> QED BY <1>2, <1>3, <2>1, <2>2
<1>4. ASSUME NEW r \in Readers, Dies(r)
      PROVE  (\A s \in Readers : ReaderOK(s)') /\ crashes' # crashes
  <2>1. ReaderOK(r)'
    BY <1>4 DEF Dies, ReaderOK, Remembered
  <2> QED BY <1>2, <1>4, <2>1 DEF Dies
<1>5. ASSUME UNCHANGED <<rvars, config>>
      PROVE  \A s \in Readers : ReaderOK(s)' /\ Keeps(s)
  BY <1>1, <1>5, StillReaderOK DEF rvars
<1>6. (\A s \in Readers : ReaderOK(s)') /\ (crashes' # crashes \/ \A s \in Readers : Keeps(s))
  BY <1>3, <1>4, <1>5, StepCases
<1>7. MemoryInv' <=> \A s \in Readers : ReaderOK(s)'
  BY MemoryByReader
     DEF MemoryInv, CallsAreNew, AdmittedCalls, AdmittedMemory, AnswersAreKept, ReaderOK
<1> QED BY <1>1, <1>6, <1>7 DEF ReadInv, AnswersStay, Keeps

LEMMA ReadInit ==
  ASSUME Init
  PROVE  ReadInv
BY InitIsGood DEF ReadInv, MemoryInv, CallsAreNew, AdmittedCalls, AdmittedMemory,
     AnswersAreKept, Init, Remembered

THEOREM ReadInvariantHolds == Spec => []ReadInv
<1>1. ReadInv /\ [Next]_vars => ReadInv'
  BY ReadStep
<1> QED BY <1>1, ReadInit, PTL DEF Spec

\* Reading a run again never changes its answer while the process lives, whatever happens to
\* the query and whoever else reads the run.
THEOREM AnswersAreFinal == Spec => AnswerIsFinal
<1>1. ReadInv /\ [Next]_vars => AnswersStay
  BY ReadStep
<1>2. ReadInv /\ [Next]_vars =>
        [\A r \in Readers, run \in Runs :
           Remembered(r, run) /\ crashes' = crashes => cache'[r][run] = cache[r][run]]_vars
  BY <1>1 DEF AnswersStay
<1> QED BY <1>2, ReadInvariantHolds, PTL DEF Spec, AnswerIsFinal

\* Rows with previews reach only callers of a reader that is approved for content: what was
\* given is remembered, what is remembered with rows came from the query of its own request,
\* and that request was admitted by the process that still remembers it.
THEOREM ContentReachesTheApproved == Spec => []ContentNeedsApproval
<1>1. ASSUME ReadInv, NEW r \in Readers, returned[r] # NoReturn, returned[r].result # Raised,
             returned[r].result.rows # "none",
             executions[returned[r].result.execution].query.content
      PROVE  config[r].content_access_approved
  <2> DEFINE result == returned[r].result
  <2>1. PICK run \in Runs : Remembered(r, run) /\ cache[r][run] = result
    BY <1>1 DEF ReadInv, MemoryInv, AnswersAreKept
  <2>2. Published(result) /\ PublishedIsTrue(executions, result)
    BY <1>1, <2>1, MemoryFacts DEF ReadInv
  <2>3. executions[result.execution].query = QueryOf(result)
    BY <2>2 DEF PublishedIsTrue
  <2>4. Approved(r, result.request)
    BY <1>1, <2>1 DEF ReadInv, MemoryInv, AdmittedMemory
  <2> HIDE DEF result
  <2>5. QueryOf(result).content = result.request.include_content
    BY DEF QueryOf, BuildSourceQuery
  <2> QED BY <1>1, <2>3, <2>4, <2>5 DEF Approved, result
<1>2. ReadInv => ContentNeedsApproval
  BY <1>1 DEF ContentNeedsApproval
<1> QED BY <1>2, ReadInvariantHolds, PTL

-----------------------------------------------------------------------------
(* The refinement.                                                         *)

\* With one token per run, the contract's execution is the phase of the run's token.
Phase(run) ==
  LET e == executions[ClientRequestToken(run)] IN
  IF e = NoExecution THEN "none"
  ELSE IF e.state \in Active THEN "active"
  ELSE IF e.state = "SUCCEEDED" THEN "succeeded"
  ELSE "failed"

LEMMA PhaseIsContractExecution ==
  ASSUME ServiceOK, NEW run \in Runs
  PROVE  ContractExecution(run) = Phase(run)
<1> DEFINE t == ClientRequestToken(run)
<1>1. t \in Tokens
  BY TokenFacts
<1>2. ASSUME NEW u \in ExecutionsOf(run)
      PROVE  u = t /\ Exists(t)
  BY <1>2 DEF ServiceOK, TokensAreOwn, ExecutionsOf, ClientRequestToken
<1>3. Exists(t) => t \in ExecutionsOf(run)
  <2>1. SUFFICES ASSUME Exists(t)
                 PROVE  executions[t].run = run
    BY <1>1 DEF ExecutionsOf
  <2>2. executions[t].run \in Runs
    BY <1>1, <2>1 DEF ServiceOK, AthenaTypeOK, Exists, Execution
  <2> QED BY <1>1, <2>1, <2>2, TokenFacts DEF ServiceOK, TokensAreOwn
<1>4. CASE Exists(t)
  <2>1. ExecutionsOf(run) = {t}
    BY <1>2, <1>3, <1>4
  <2> HIDE DEF t
  <2>2. ContractExecution(run) =
          IF executions[t].state \in Active THEN "active"
          ELSE IF executions[t].state = "SUCCEEDED" THEN "succeeded" ELSE "failed"
    BY <2>1 DEF ContractExecution
  <2> QED BY <1>4, <2>2 DEF Phase, Exists, t
<1>5. CASE ~Exists(t)
  <2>1. ExecutionsOf(run) = {}
    BY <1>2, <1>5
  <2> QED BY <1>5, <2>1 DEF ContractExecution, Phase, Exists
<1> QED BY <1>4, <1>5

PhasesStay == \A run \in Runs : Phase(run)' = Phase(run)

\* Run x launches, or run x settles; the other runs are left alone.
OnlyPhase(x, from, to) ==
  /\ Phase(x) = from /\ Phase(x)' \in to
  /\ \A run \in Runs \ {x} : Phase(run)' = Phase(run)

LEMMA ArrivalPhases ==
  ASSUME ServiceOK, NEW s \in Submission, s.token = ClientRequestToken(s.run),
         executions' = Arrived(s)
  PROVE  PhasesStay \/ OnlyPhase(s.run, "none", {"active"})
<1>1. s.run \in Runs /\ s.token \in Tokens /\ s.query \in Query
  BY DEF Submission
<1>2. CASE Exists(s.token)
  BY <1>2 DEF Arrived, PhasesStay, Phase, ClientRequestToken
<1>3. CASE ~Exists(s.token)
  <2> DEFINE new == [run |-> s.run, query |-> s.query, state |-> "QUEUED", scan |-> 0]
  <2>1. new \in Execution
    BY <1>1, MaxScanAssumption DEF Execution, Active, Terminal
  <2>2. new # NoExecution /\ new.state \in Active
    BY <2>1, SentinelAssumption DEF Active
  <2>3. executions' = [executions EXCEPT ![s.token] = new]
    BY <1>3 DEF Arrived
  <2> HIDE DEF new
  <2>4. executions'[s.token] = new /\ \A t \in Tokens \ {s.token} : executions'[t] = executions[t]
    BY <1>1, <2>3 DEF ServiceOK, AthenaTypeOK
  <2>5. Phase(s.run) = "none" /\ Phase(s.run)' = "active"
    BY <1>3, <2>2, <2>4 DEF Phase, Exists, ClientRequestToken
  <2>6. \A run \in Runs \ {s.run} : ClientRequestToken(run) \in Tokens \ {s.token}
    BY <1>1, TokenFacts
  <2>7. \A run \in Runs \ {s.run} : Phase(run)' = Phase(run)
    BY <2>4, <2>6 DEF Phase, ClientRequestToken
  <2> QED BY <2>5, <2>7 DEF OnlyPhase
<1> QED BY <1>2, <1>3

LEMMA AthenaPhases ==
  ASSUME ServiceOK, AthenaStep
  PROVE  \/ PhasesStay
         \/ \E x \in Runs : \/ OnlyPhase(x, "none", {"active"})
                            \/ OnlyPhase(x, "active", {"succeeded", "failed"})
<1>1. CASE ArriveLate
  <2>1. PICK s \in inflight : executions' = Arrived(s)
    BY <1>1 DEF ArriveLate
  <2>2. s \in Submission /\ s.token = ClientRequestToken(s.run) /\ s.run \in Runs
    BY DEF ServiceOK, AthenaTypeOK, TokensAreOwn, Submission
  <2> QED BY <2>1, <2>2, ArrivalPhases
<1>2. ASSUME NEW t \in Tokens, Run(t) \/ ScanMore(t) \/ Succeed(t) \/ GiveUp(t)
      PROVE  \/ PhasesStay
             \/ \E x \in Runs : OnlyPhase(x, "active", {"succeeded", "failed"})
  <2>1. Exists(t) /\ executions[t] \in Execution
    BY <1>2 DEF Run, ScanMore, Succeed, GiveUp, ServiceOK, AthenaTypeOK, Exists
  <2>2. PICK x \in Runs : t = ClientRequestToken(x)
    BY <2>1 DEF Execution, ServiceOK, TokensAreOwn
  <2>3. PICK e : executions' = [executions EXCEPT ![t] = e] /\ e \in Execution
                 /\ \/ executions[t].state \in Active /\ e.state \in Active
                    \/ executions[t].state \in Active /\ e.state \in Terminal
    <3>1. CASE Run(t)
      <4> DEFINE e == [executions[t] EXCEPT !.state = "RUNNING"]
      <4>1. executions' = [executions EXCEPT ![t] = e] /\ executions[t].state \in Active
        BY <3>1 DEF Run, Active
      <4>2. e \in Execution /\ e.state \in Active
        BY <2>1 DEF Execution, Active
      <4> HIDE DEF e
      <4> QED BY <4>1, <4>2
    <3>2. CASE ScanMore(t)
      <4> DEFINE e == [executions[t] EXCEPT !.scan = executions[t].scan + 1]
      <4>1. executions' = [executions EXCEPT ![t] = e] /\ executions[t].state \in Active
            /\ executions[t].scan < MaxScan
        BY <3>2 DEF ScanMore, Active
      <4>2. e \in Execution /\ e.state \in Active
        BY <2>1, <4>1, MaxScanAssumption DEF Execution, Active
      <4> HIDE DEF e
      <4> QED BY <4>1, <4>2
    <3>3. CASE Succeed(t)
      <4> DEFINE e == [executions[t] EXCEPT !.state = "SUCCEEDED"]
      <4>1. executions' = [executions EXCEPT ![t] = e] /\ executions[t].state \in Active
        BY <3>3 DEF Succeed, Active
      <4>2. e \in Execution /\ e.state \in Terminal
        BY <2>1 DEF Execution, Terminal
      <4> HIDE DEF e
      <4> QED BY <4>1, <4>2
    <3>4. CASE GiveUp(t)
      <4>1. PICK s \in {"FAILED", "CANCELLED"} :
              executions' = [executions EXCEPT ![t].state = s]
        BY <3>4 DEF GiveUp
      <4> DEFINE e == [executions[t] EXCEPT !.state = s]
      <4>2. executions' = [executions EXCEPT ![t] = e] /\ executions[t].state \in Active
        BY <3>4, <4>1 DEF GiveUp
      <4>3. e \in Execution /\ e.state \in Terminal
        BY <2>1 DEF Execution, Terminal
      <4> HIDE DEF e
      <4> QED BY <4>2, <4>3
    <3> QED BY <1>2, <3>1, <3>2, <3>3, <3>4
  <2>4. /\ executions'[ClientRequestToken(x)] = e /\ e # NoExecution
        /\ executions[ClientRequestToken(x)] # NoExecution
        /\ executions[ClientRequestToken(x)].state \in Active
        /\ \A u \in Tokens \ {t} : executions'[u] = executions[u]
    BY <2>1, <2>2, <2>3, SentinelAssumption DEF ServiceOK, AthenaTypeOK, Exists
  <2>5. \A run \in Runs \ {x} : ClientRequestToken(run) \in Tokens \ {t}
    BY <2>2, TokenFacts
  <2>6. \A run \in Runs \ {x} : Phase(run)' = Phase(run)
    BY <2>4, <2>5 DEF Phase, ClientRequestToken
  <2>7. Phase(x) = "active"
    BY <2>4 DEF Phase
  <2>8. CASE e.state \in Active
    <3>1. Phase(x)' = "active"
      BY <2>4, <2>8 DEF Phase, ClientRequestToken
    <3> QED BY <2>6, <2>7, <3>1 DEF PhasesStay
  <2>9. CASE e.state \in Terminal
    <3>1. Phase(x)' \in {"succeeded", "failed"}
      BY <2>4, <2>9 DEF Phase, ClientRequestToken, Active, Terminal
    <3> QED BY <2>2, <2>6, <2>7, <3>1 DEF OnlyPhase
  <2> QED BY <2>3, <2>8, <2>9
<1> QED BY <1>1, <1>2 DEF AthenaStep

\* The contract's variables.
CExecution == [run \in Runs |-> ContractExecution(run)]
CAnswer    == [r \in Readers |-> [run \in Runs |-> ContractAnswer(r, run)]]

PhasesAreExecutions == \A run \in Runs : ContractExecution(run) = Phase(run)

\* Before and after a step.
LEMMA PhasesBefore == ServiceOK => PhasesAreExecutions
BY PhaseIsContractExecution DEF PhasesAreExecutions

LEMMA PhasesAfter == ServiceOK' => PhasesAreExecutions'
BY PhasesBefore, PTL

LEMMA ContractExecutions ==
  ASSUME ServiceOK, ServiceOK'
  PROVE  /\ PhasesStay => CExecution' = CExecution
         /\ \A x \in Runs : \A from, to :
              OnlyPhase(x, from, to) =>
                /\ CExecution[x] = from
                /\ \E p \in to : CExecution' = [CExecution EXCEPT ![x] = p]
<1>1. \A run \in Runs : ContractExecution(run) = Phase(run)
  BY PhasesBefore DEF PhasesAreExecutions
<1>2. \A run \in Runs : ContractExecution(run)' = Phase(run)'
  BY PhasesAfter DEF PhasesAreExecutions
<1>3. PhasesStay => CExecution' = CExecution
  BY <1>1, <1>2 DEF PhasesStay, CExecution
<1>4. ASSUME NEW x \in Runs, NEW from, NEW to, OnlyPhase(x, from, to)
      PROVE  /\ CExecution[x] = from
             /\ \E p \in to : CExecution' = [CExecution EXCEPT ![x] = p]
  <2>1. CExecution[x] = from
    BY <1>1, <1>4 DEF OnlyPhase, CExecution
  <2>2. PICK p \in to : p = Phase(x)'
    BY <1>4 DEF OnlyPhase
  <2>3. CExecution' = [CExecution EXCEPT ![x] = p]
    BY <1>1, <1>2, <1>4, <2>2 DEF OnlyPhase, CExecution
  <2> QED BY <2>1, <2>3
<1> QED BY <1>3, <1>4

\* A reader that leaves its memory alone keeps its answers in the contract; one that ends a
\* read adds one, and only a succeeded execution lets it be "published".
LEMMA SameAnswers ==
  ASSUME cache' = cache
  PROVE  CAnswer' = CAnswer
BY DEF CAnswer, ContractAnswer, Remembered

LEMMA NewAnswer ==
  ASSUME ReadInv, IInv', NEW r \in Readers, NEW q \in Requests, Serves(r, q), Ends(r, q)
  PROVE  \E a \in {"none", "withheld", "published"} :
           /\ CAnswer[r][q.run] = "none"
           /\ CAnswer' = [CAnswer EXCEPT ![r][q.run] = a]
           /\ a = "published" =>
                /\ Phase(q.run)' = "succeeded"
                /\ cache'[r][q.run].errors = {}
<1>1. /\ q.run \in Runs /\ cache[r][q.run] = NoResult
      /\ \A s \in Readers \ {r} : cache'[s] = cache[s]
      /\ \A run \in Runs \ {q.run} : cache'[r][run] = cache[r][run]
  BY DEF Serves, Ends, OthersStay
<1>2. PICK a \in {"none", "withheld", "published"} : a = ContractAnswer(r, q.run)'
  BY DEF ContractAnswer
<1>3. CAnswer[r][q.run] = "none"
  BY <1>1 DEF CAnswer, ContractAnswer, Remembered
<1>4. CAnswer' = [CAnswer EXCEPT ![r][q.run] = a]
  <2>1. \A s \in Readers, run \in Runs :
          ContractAnswer(s, run)' = IF s = r /\ run = q.run THEN a ELSE ContractAnswer(s, run)
    BY <1>1, <1>2 DEF ContractAnswer, Remembered
  <2>2. CAnswer' = [s \in Readers |-> [run \in Runs |-> ContractAnswer(s, run)']]
    BY DEF CAnswer
  <2> QED BY <2>1, <2>2 DEF CAnswer
<1>5. ASSUME a = "published"
      PROVE  Phase(q.run)' = "succeeded" /\ cache'[r][q.run].errors = {}
  <2>1. cache'[r][q.run] # NoResult /\ Published(cache'[r][q.run])
    BY <1>2, <1>5 DEF ContractAnswer, Remembered
  <2>2. GoodResult(executions', cache'[r][q.run], q.run)
    BY <1>1, <2>1 DEF IInv, GoodMemory, Remembered
  <2>3. /\ executions'[ClientRequestToken(q.run)] # NoExecution
        /\ executions'[ClientRequestToken(q.run)].state = "SUCCEEDED"
    BY <2>1, <2>2 DEF GoodResult, PublishedIsTrue, ExecutionIsTrue
  <2> QED BY <2>1, <2>3 DEF Phase, ClientRequestToken, Active, Published
<1> QED BY <1>3, <1>4, <1>5

\* A read that ends is an answer of the contract's, given before or after the same step
\* launched the run's query.
LEMMA EndRefines ==
  ASSUME ReadInv, IInv', NEW r \in Readers, NEW q \in Requests, Serves(r, q), Ends(r, q),
         \/ executions' = executions
         \/ /\ cache'[r][q.run].errors # {}
            /\ PhasesStay \/ OnlyPhase(q.run, "none", {"active"})
  PROVE  [Contract!Next]_(Contract!vars)
<1>1. ServiceOK /\ ServiceOK' /\ q.run \in Runs
  BY ServiceIsOK DEF ReadInv, IInv, TypeOK, ServiceOK, Serves
<1>2. PICK a \in {"none", "withheld", "published"} :
           /\ CAnswer[r][q.run] = "none"
           /\ CAnswer' = [CAnswer EXCEPT ![r][q.run] = a]
           /\ a = "published" =>
                /\ Phase(q.run)' = "succeeded"
                /\ cache'[r][q.run].errors = {}
  BY NewAnswer
<1>3. \/ CExecution' = CExecution
      \/ /\ CExecution[q.run] = "none"
         /\ CExecution' = [CExecution EXCEPT ![q.run] = "active"]
         /\ a # "published"
  <2>1. executions' = executions => PhasesStay
    BY DEF PhasesStay, Phase, ClientRequestToken
  <2> QED BY <1>1, <1>2, <2>1, ContractExecutions
<1>4. a = "published" => CExecution[q.run] = "succeeded"
  <2>1. SUFFICES ASSUME a = "published"
                 PROVE  CExecution[q.run] = "succeeded"
    OBVIOUS
  <2>2. executions' = executions
    BY <1>2, <2>1
  <2>3. Phase(q.run) = "succeeded"
    BY <1>2, <2>1, <2>2 DEF Phase, ClientRequestToken
  <2> QED BY <1>1, <2>3, PhasesBefore DEF PhasesAreExecutions, CExecution
<1>5. a = "none" => CAnswer' = CAnswer
  <2>1. CAnswer = [s \in Readers |-> CAnswer[s]]
        /\ CAnswer[r] = [run \in Runs |-> CAnswer[r][run]]
    BY DEF CAnswer
  <2>2. [CAnswer[r] EXCEPT ![q.run] = "none"] = CAnswer[r]
    BY <1>1, <1>2, <2>1
  <2>3. CAnswer' = [CAnswer EXCEPT ![r] = [CAnswer[r] EXCEPT ![q.run] = a]]
    BY <1>2
  <2> QED BY <2>1, <2>2, <2>3
<1>6. CASE a = "none"
  BY <1>1, <1>3, <1>5, <1>6
    DEF Contract!Next, Contract!Launch, Contract!Launched, Contract!vars, CExecution, CAnswer
<1>7. CASE a = "withheld"
  BY <1>1, <1>2, <1>3, <1>7
    DEF Contract!Next, Contract!Withhold, Contract!Launched, Contract!vars, CExecution, CAnswer
<1>8. CASE a = "published"
  BY <1>1, <1>2, <1>3, <1>4, <1>8
    DEF Contract!Next, Contract!Publish, Contract!vars, CExecution, CAnswer
<1> QED BY <1>6, <1>7, <1>8

\* A step that leaves every memory alone launches or settles a run's query, or is none.
LEMMA ServiceRefines ==
  ASSUME ServiceOK, ServiceOK', cache' = cache,
         \/ PhasesStay
         \/ \E x \in Runs : \/ OnlyPhase(x, "none", {"active"})
                            \/ OnlyPhase(x, "active", {"succeeded", "failed"})
  PROVE  [Contract!Next]_(Contract!vars)
<1>1. CAnswer' = CAnswer
  BY SameAnswers
<1>2. CASE PhasesStay
  BY <1>1, <1>2, ContractExecutions DEF Contract!vars, CExecution, CAnswer
<1>3. ASSUME NEW x \in Runs, OnlyPhase(x, "none", {"active"})
      PROVE  Contract!Next
  <2>1. CExecution[x] = "none" /\ CExecution' = [CExecution EXCEPT ![x] = "active"]
    BY <1>3, ContractExecutions
  <2> QED BY <1>1, <2>1
        DEF Contract!Next, Contract!Launch, Contract!Launched, CExecution, CAnswer
<1>4. ASSUME NEW x \in Runs, OnlyPhase(x, "active", {"succeeded", "failed"})
      PROVE  Contract!Next
  <2>1. /\ CExecution[x] = "active"
        /\ \E p \in {"succeeded", "failed"} : CExecution' = [CExecution EXCEPT ![x] = p]
    BY <1>4, ContractExecutions
  <2> QED BY <1>1, <2>1 DEF Contract!Next, Contract!Settle, CExecution, CAnswer
<1> QED BY <1>2, <1>3, <1>4

LEMMA CrashRefines ==
  ASSUME ServiceOK, ServiceOK', NEW r \in Readers, Dies(r)
  PROVE  [Contract!Next]_(Contract!vars)
<1>1. /\ \A s \in Readers \ {r} : cache'[s] = cache[s]
      /\ \A run \in Runs : cache'[r][run] = NoResult
      /\ executions' = executions
  BY DEF Dies, OthersStay
<1>2. CExecution' = CExecution
  BY <1>1, ContractExecutions DEF PhasesStay, Phase, ClientRequestToken
<1>3. CAnswer' = [CAnswer EXCEPT ![r] = [run \in Runs |-> "none"]]
  <2>1. \A s \in Readers \ {r}, run \in Runs : ContractAnswer(s, run)' = ContractAnswer(s, run)
    BY <1>1 DEF ContractAnswer, Remembered
  <2>2. \A run \in Runs : ContractAnswer(r, run)' = "none"
    BY <1>1 DEF ContractAnswer, Remembered
  <2>3. CAnswer' = [s \in Readers |-> [run \in Runs |-> ContractAnswer(s, run)']]
    BY DEF CAnswer
  <2> QED BY <2>1, <2>2, <2>3 DEF CAnswer
<1> QED BY <1>2, <1>3 DEF Contract!Next, Contract!Forget, CExecution, CAnswer

LEMMA StepRefines ==
  ASSUME ReadInv, [Next]_vars
  PROVE  [Contract!Next]_(Contract!vars)
<1>1. IInv' /\ ServiceOK /\ ServiceOK'
  BY StepIsGood, ServiceIsOK DEF ReadInv, IInv, TypeOK, ServiceOK
<1>2. ASSUME executions' = executions, cache' = cache
      PROVE  [Contract!Next]_(Contract!vars)
  BY <1>1, <1>2, ServiceRefines DEF PhasesStay, Phase, ClientRequestToken
<1>3. ASSUME NEW r \in Readers, NEW q \in Requests, executions' = executions,
             Gives(r, q) \/ (Serves(r, q) /\ (GoesOn(r, q) \/ Ends(r, q)))
      PROVE  [Contract!Next]_(Contract!vars)
  BY <1>1, <1>2, <1>3, EndRefines DEF Gives, GoesOn
<1>4. ASSUME NEW r \in Readers, NEW q \in Requests, Serves(r, q), pc[r] = "submit",
             q = call[r].request, executions' = Arrived(SubmissionOf(r)),
             GoesOn(r, q) \/ (Ends(r, q) /\ cache'[r][q.run].errors # {})
      PROVE  [Contract!Next]_(Contract!vars)
  <2>1. PICK s \in Submission : s = SubmissionOf(r)
    BY <1>4, SubmissionIsOwn DEF ReadInv
  <2>2. s.run = q.run /\ s.token = ClientRequestToken(s.run) /\ q.run \in Runs
    BY <1>4, <2>1, SubmissionIsOwn DEF ReadInv, SubmissionOf, Serves
  <2>3. PhasesStay \/ OnlyPhase(q.run, "none", {"active"})
    BY <1>1, <1>4, <2>1, <2>2, ArrivalPhases
  <2>4. CASE GoesOn(r, q)
    BY <1>1, <2>2, <2>3, <2>4, ServiceRefines DEF GoesOn
  <2>5. CASE Ends(r, q) /\ cache'[r][q.run].errors # {}
    BY <1>1, <1>4, <2>3, <2>5, EndRefines
  <2> QED BY <1>4, <2>4, <2>5
<1>5. ASSUME AthenaStep, UNCHANGED rvars
      PROVE  [Contract!Next]_(Contract!vars)
  BY <1>1, <1>5, AthenaPhases, ServiceRefines DEF rvars
<1>6. ASSUME NEW r \in Readers, Dies(r)
      PROVE  [Contract!Next]_(Contract!vars)
  BY <1>1, <1>6, CrashRefines
<1> QED BY <1>2, <1>3, <1>4, <1>5, <1>6, StepCases DEF rvars

LEMMA InitRefines ==
  ASSUME Init
  PROVE  Contract!Init
<1>1. \A t \in Tokens : executions[t] = NoExecution
  BY DEF Init, AthenaInit
<1>2. \A run \in Runs : ContractExecution(run) = "none"
  BY <1>1 DEF ContractExecution, ExecutionsOf, Exists
<1>3. \A r \in Readers, run \in Runs : ContractAnswer(r, run) = "none"
  BY DEF Init, ContractAnswer, Remembered
<1> QED BY <1>2, <1>3 DEF Contract!Init

\* AthenaSourceReader keeps its promise, whatever calls are lost, repeated or late and whoever
\* crashes: one execution per run, answers that stay, and rows of succeeded executions only.
THEOREM ReaderImplementsContract == Spec => ImplementsContract
<1>1. ReadInv /\ [Next]_vars => [Contract!Next]_(Contract!vars)
  BY StepRefines
<1>2. Init => Contract!Init
  BY InitRefines
<1> QED BY <1>1, <1>2, ReadInvariantHolds, PTL DEF Spec, ImplementsContract, Contract!Spec

=============================================================================
