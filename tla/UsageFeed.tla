------------------------------- MODULE UsageFeed -------------------------------
(***************************************************************************)
(* From the data lake to records: requests are planned (SourceScope), the  *)
(* query reads what the view of DataLake shows, the result loader renders  *)
(* the rows and normalization.py (Normalizer) makes records of them, which *)
(* DirectSignals observes.                                                 *)
(*                                                                         *)
(* A read is one step here: SourceReader has the steps, retries and        *)
(* crashes between planning and the loaded rows.  The loader is a callable *)
(* the program is given; how it renders times, nulls and counts is open,   *)
(* and the same throughout a behaviour.  The caller that reads and         *)
(* normalizes is modelled from how the tests compose the two.              *)
(***************************************************************************)
EXTENDS SourceScope, DataLake, DirectSignals

CONSTANTS
  Approved,    \* the approved scope
  Requests,    \* the reads made, each with a run id of its own
  Loaders,     \* the ways a loader may render rows: how times, and which columns it spoils
  MaxReads     \* bound: reads in a behaviour

\* A request's scope, the columns it selects, whether its records are to have content, and
\* the context its records get.
RequestType == [scope : Scope, content : BOOLEAN, include : BOOLEAN,
                context : [{"analysis_run_id", "configuration_version",
                            "analysis_logic_version"} -> Values \cup BlankTexts \cup {NotText}]]

ASSUME UsageFeedAssumption == Approved \in Scope /\ Requests \subseteq RequestType

VARIABLES
  loader,    \* the loader the reader was given
  batches    \* what each request got, None before

feedVars == <<lakeVars, loader, batches>>

-----------------------------------------------------------------------------
(* source_access.py: the columns selected and the rows that qualify.       *)

\* DEFAULT_SOURCE_SELECT_FIELDS; year, month and day are one column.
DefaultFields ==
  [source_account |-> "accountid", source_timestamp_utc |-> "timestamp",
   source_region |-> "region", source_request_id |-> "requestid",
   operation |-> "operation", model_id |-> "modelid", identity_arn |-> "identity_arn",
   identity |-> "identity", request_metadata |-> "requestmetadata", day |-> "day",
   input_token_count |-> "input_token_count", input_content_type |-> "input_content_type",
   output_token_count |-> "output_token_count",
   output_content_type |-> "output_content_type",
   usage_input_tokens |-> "usage_input_tokens",
   usage_output_tokens |-> "usage_output_tokens",
   usage_total_tokens |-> "usage_total_tokens",
   usage_cache_read_tokens |-> "usage_cache_read_tokens",
   usage_cache_write_tokens |-> "usage_cache_write_tokens",
   stop_reason |-> "stop_reason"]

ContentFields == {"prompt_preview", "response_preview"}

ASSUME CellsAreSound ==
  /\ \A i \in Invocations :
       /\ \A f \in DOMAIN DefaultFields \ {"source_timestamp_utc", "day"} :
            SoundCell(Entry[i][DefaultFields[f]])
       /\ \A f \in ContentFields : SoundCell(Entry[i][f])
  /\ \A l \in Loaders :
       /\ l.zone \in {"utc", "local", "none"}
       /\ \A f \in DOMAIN l.spoils : SoundCell(l.spoils[f]) /\ l.spoils[f] # Missing

CurrentWindow == [first |-> DayOf(now) - WindowDays, last |-> DayOf(now)]

PlanOf(request) == ResolveSourceScope(request.scope, CurrentWindow)

Column == [accounts |-> "accountid", regions |-> "region", models |-> "modelid",
           operations |-> "operation"]

\* Mutant: the query filters by the date of the event, too.
SelectedMutant(query) ==
  {c \in stored :
     /\ Partition(c) \in query.days /\ DayOf(EventTime(c)) \in query.days
     /\ \A d \in Dimensions :
          /\ Entry[c.of][Column[d]] # None
          /\ Entry[c.of][Column[d]].text \in query.filters[d]
     /\ InView(c, now)}

\* The query's WHERE clause over the view.
Selected(query) ==
  {c \in stored :
     /\ Partition(c) \in query.days
     /\ \A d \in Dimensions :
          /\ Entry[c.of][Column[d]] # None
          /\ Entry[c.of][Column[d]].text \in query.filters[d]
     /\ InView(c, now)}

-----------------------------------------------------------------------------
(* The loader.                                                             *)

TimeCell(tick, zone) ==
  [type |-> "time", text |-> NotText,
   value |-> CASE zone = "utc"   -> [local |-> tick, offset |-> 0]
               [] zone = "local" -> [local |-> tick + 1, offset |-> 1]
               [] zone = "none"  -> [local |-> tick, offset |-> None]]

\* No field reads the day.
ViewCell(copy, column, zone) ==
  CASE column = "timestamp" -> TimeCell(EventTime(copy), zone)
    [] column = "day"       -> [type |-> "number", text |-> NotText, value |-> Partition(copy)]
    [] OTHER                -> Entry[copy.of][column]

\* The selected columns as rendered, and whatever columns the loader spoils or adds.
SourceRow(copy, content, by) ==
  LET columns == DOMAIN DefaultFields \cup (IF content THEN ContentFields ELSE {})
  IN  [c \in columns \cup DOMAIN by.spoils |->
         IF c \in DOMAIN by.spoils THEN by.spoils[c]
         ELSE IF c \in ContentFields THEN Entry[copy.of][c]
         ELSE ViewCell(copy, DefaultFields[c], by.zone)]

NormalizedBy(copy, request, by) ==
  Normalize(SourceRow(copy, request.content, by), request.context, request.include)

-----------------------------------------------------------------------------

FeedInit ==
  /\ LakeInit
  /\ loader \in Loaders
  /\ batches = [r \in Requests |-> None]

Done == {r \in Requests : batches[r] # None}

\* Bounds: a loader is followed until a tick of its own, the lake until the last read.
Lake ==
  /\ LakeNext
  /\ now' <= loader.until /\ Cardinality(Done) < MaxReads
  /\ UNCHANGED <<loader, batches>>

Read(request) ==
  LET plan == PlanOf(request)
      rows == Selected(BuildSourceQuery(plan, request.content)) IN
  /\ request \notin Done /\ Cardinality(Done) < MaxReads
  /\ Resolvable(request.scope, Approved) /\ Queryable(plan)
  /\ batches' = [batches EXCEPT ![request] =
       [at |-> now, days |-> plan.days,
        results |-> [c \in rows |-> NormalizedBy(c, request, loader)]]]
  /\ UNCHANGED <<lakeVars, loader>>

FeedNext == Lake \/ \E r \in Requests : Read(r)

FeedSpec == FeedInit /\ [][FeedNext]_feedVars

-----------------------------------------------------------------------------
(* What the properties speak of.                                           *)

Rows(r) == DOMAIN batches[r].results
Record(r, c) == batches[r].results[c].record
Recorded(r) == {c \in Rows(r) : Record(r, c) # None}

\* The read was made when all its days were over.
Closed(r) == DayOf(batches[r].at) > r.scope.end_date

SameFilters(r, s) == r.scope.filters = s.scope.filters

\* Whether the view and the planner of a later read still reach the copy.
StillReached(c, r) ==
  /\ InView(c, batches[r].at)
  /\ DayOf(c.arrival) \in r.scope.start_date .. r.scope.end_date
  /\ DayOf(c.arrival) >= DayOf(batches[r].at) - WindowDays

\* The fields a spoiled column decides.
SpoiledFields(row) ==
  {f \in DOMAIN FieldAliases : Here(row, f) # {} /\ Deciding(row, f) \in DOMAIN loader.spoils}

\* What an optional field may make of a cell.
Readings(f, cell) ==
  IF cell = None THEN {}
  ELSE CASE f \in Tokens             -> IF cell.type = "number" THEN {cell.value} ELSE {}
         [] f = "request_metadata"   -> IF cell.type = "object" THEN {cell.value} ELSE {}
         [] OTHER                    -> {cell.text} \ {NotText}

-----------------------------------------------------------------------------
(* Properties.                                                             *)

\* A day that is over is final although events arrive late: a read of it finds every copy a
\* later read finds, and a later read loses only what left the six months.
ClosedDaysAreFinal ==
  \A r, s \in Done :
    SameFilters(r, s) /\ Closed(r) /\ batches[r].at <= batches[s].at =>
      /\ {c \in Rows(s) : DayOf(c.arrival) >= r.scope.start_date
                          /\ DayOf(c.arrival) <= r.scope.end_date} \subseteq Rows(r)
      /\ {c \in Rows(r) : StillReached(c, s)} \subseteq Rows(s)

\* Reading range after range counts every delivered copy once: adjacent reads share no row,
\* and what was delivered of an invocation of their days but the last is in one of them, also
\* if it arrived after midnight, unless it left the six months or the filters.
AdjacentReadsCoverTheLake ==
  \A r, s \in Done :
    SameFilters(r, s) /\ s.scope.start_date = r.scope.end_date + 1 =>
      /\ Rows(r) \cap Rows(s) = {}
      /\ Closed(r) /\ Closed(s) =>
           \A c \in stored :
             /\ DayOf(c.time) >= r.scope.start_date /\ DayOf(c.time) < s.scope.end_date
             /\ InView(c, batches[r].at) /\ InView(c, batches[s].at)
             /\ DayOf(c.arrival) >= DayOf(batches[r].at) - WindowDays
             /\ DayOf(c.arrival) >= DayOf(batches[s].at) - WindowDays
             /\ \A d \in Dimensions :
                  /\ Entry[c.of][Column[d]] # None
                  /\ Entry[c.of][Column[d]].text \in r.scope.filters[d]
             => c \in Rows(r) \cup Rows(s)

\* The view cuts by time, the planner by date: of the days a plan covers only the first two
\* can miss stored rows, the window's first day and, by late arrivals, the day after it.
OnlyEdgeDaysAreCut ==
  \A r \in Done, c \in stored :
    /\ c.arrival < batches[r].at
    /\ DayOf(c.arrival) \in batches[r].days
    /\ DayOf(c.arrival) > DayOf(batches[r].at) - WindowDays + 1
    /\ \A d \in Dimensions :
         /\ Entry[c.of][Column[d]] # None
         /\ Entry[c.of][Column[d]].text \in r.scope.filters[d]
    => c \in Rows(r)

\* Copies of one invocation can be told from those of others, though nothing removes
\* duplicates: two records have one request id exactly if they are of one invocation, and then
\* they agree on all the invocation's data, whichever run read them and whenever they came.
DuplicatesAreRecognisable ==
  loader.spoils = <<>> =>
    \A r, s \in Done : \A c \in Recorded(r), d \in Recorded(s) :
      LET one == Record(r, c)  other == Record(s, d) IN
      /\ one.fields["source_request_id"] = other.fields["source_request_id"] <=> c.of = d.of
      /\ c.of = d.of => /\ one.fields = other.fields
                        /\ one.format = other.format
                        /\ one.identity = other.identity

\* A spoiled column costs no more than the fields it decides: all others are what they would be
\* without it, with the same diagnostics; and a spoiled field has the value the loader gave it
\* or, diagnosed unless that was null, none, never a made-up one.
OneBadColumnCostsItself ==
  loader.spoils # <<>> => \A r \in Done : \A c \in Recorded(r) :
    LET clean  == NormalizedBy(c, r, [zone |-> loader.zone, spoils |-> <<>>])
        record == Record(r, c)
        row    == SourceRow(c, r.content, loader)
        spoiled == SpoiledFields(row)
        codes  == {e.field : e \in batches[r].results[c].errors}
    IN  clean.record # None =>
          /\ \A f \in Plain \ spoiled : record.fields[f] = clean.record.fields[f]
          /\ {e \in clean.errors : e.field \notin spoiled \cup {"adapter"}}
               \subseteq batches[r].results[c].errors
          /\ spoiled \cap (Bodies \cup {"model_format", "model_id"}) = {} =>
               record.format = clean.record.format
          /\ spoiled \cap IdentityFields = {} => record.identity = clean.record.identity
          /\ \A f \in spoiled \cap (Plain \ Traceability) :
               \/ record.fields[f] \in Readings(f, row[Deciding(row, f)])
               \/ /\ record.fields[f] \in {None, NoMetadata}
                  /\ f \in codes \/ row[Deciding(row, f)] = None
          /\ codes \subseteq spoiled \cup {"adapter"} \cup {e.field : e \in clean.errors}

\* No body is judged by another model's format: a record names an adapter only if its declared
\* format is that adapter's or, with none declared, its model; a declared format nobody knows
\* and a body of an unknown model are diagnosed as unsupported.
FormatsAreNotExtrapolated ==
  \A r \in Done : \A c \in Recorded(r) :
    LET row      == SourceRow(c, r.content, loader)
        declared == Field(row, "model_format").value
        result   == batches[r].results[c]
        refused  == \E e \in result.errors : e.code = "UNSUPPORTED_MODEL_FORMAT"
    IN  /\ result.record.format \in DOMAIN FormatAliases =>
             \/ declared \in FormatAliases[result.record.format]
             \/ declared = None
                  /\ Family(result.record.fields["model_id"]) = result.record.format
        /\ refused <=>
             \/ declared # None
                  /\ \A a \in DOMAIN FormatAliases : declared \notin FormatAliases[a]
             \/ /\ declared = None /\ ~NoBodyColumn(row)
                /\ Family(result.record.fields["model_id"]) = None

\* A record the normalizer lets through is one the stages behind it can use: the oracle finds
\* no fault with it, and none of its direct signals is malformed, holds a blocked metadata key
\* or is beyond its bound, whatever the loader spoiled.
RecordsAreUsable ==
  \A r \in Done : \A c \in Recorded(r) :
    LET record == Record(r, c)
        metadata == DirectSignal(record, "request_metadata").value
    IN  /\ InvocationIssues(record) = {}
        /\ \A n \in DirectSignalNames : DirectSignal(record, n).availability # "malformed"
        /\ metadata # None => /\ \A k \in DOMAIN metadata : ~Blocked(k)
                              /\ Cardinality(DOMAIN metadata) <= MAX_METADATA_ITEMS
        /\ \A n \in Tokens : LET t == DirectSignal(record, n).value IN
                              t # None => t \in 0..MAX_TOKEN_COUNT

\* Content is in a record only if the query selected it and the normalizer was told to keep
\* it, and it changes nothing else: any two reads of a copy agree but for content and context.
ContentNeedsBothSwitches ==
  \A r \in Done : \A c \in Recorded(r) :
    /\ Record(r, c).sensitive # None => r.include /\ r.content
    /\ \A s \in Done : c \in Recorded(s) =>
         [Record(r, c) EXCEPT !.sensitive = None, !.context = None]
           = [Record(s, c) EXCEPT !.sensitive = None, !.context = None]

=============================================================================
