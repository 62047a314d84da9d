---------------------------- MODULE DirectSignals ----------------------------
(***************************************************************************)
(* The direct observations signals.py makes of a record of Normalizer      *)
(* (SignalExtractor._direct_value, _bounded_metadata), and the oracle's    *)
(* view of such a record (CanonicalSchemaOracle.validate_invocation).      *)
(* Content-derived signals are in ContentPath.                             *)
(***************************************************************************)
EXTENDS Normalizer, FiniteSets

CONSTANTS
  Blocked(_),         \* a metadata key, a str, that is blank or matches _METADATA_KEY_BLOCKLIST
  Rank(_),            \* the place of a metadata key in sorted order
  Clip(_),            \* _bounded_string: stripped and cut
  MAX_METADATA_ITEMS,
  MAX_TOKEN_COUNT

ASSUME DirectSignalsAssumption == MAX_METADATA_ITEMS \in Nat /\ MAX_TOKEN_COUNT \in Nat

\* A mapping has finitely many keys, each in a place of its own.
IsMapping(metadata) ==
  /\ IsFiniteSet(DOMAIN metadata)
  /\ \A k \in DOMAIN metadata : Rank(k) \in Int
  /\ \A j, k \in DOMAIN metadata : Rank(j) = Rank(k) => j = k

SoundCell(cell) ==
  IsCell(cell) /\ (cell # None /\ cell.type = "object" => IsMapping(cell.value))

\* The record fields with a signal of their own name; metadata is apart.
PlainSignals == {"operation", "model_id"} \cup OptionalTexts \cup Tokens

Signal(availability, value) == [availability |-> availability, value |-> value]

\* The keys, cut, before a key.
KeysBefore(metadata, k) ==
  {Clip(j) : j \in {j \in DOMAIN metadata : ~Blocked(j) /\ Rank(j) < Rank(k)}}

\* The keys in order until the bound is reached.
Reached(metadata) ==
  {k \in DOMAIN metadata :
     /\ k = NotText \/ ~Blocked(k)
     /\ Cardinality(KeysBefore(metadata, k)) < MAX_METADATA_ITEMS}

\* Of keys that are the same once cut, the last gives the value.
BoundedMetadata(metadata) ==
  LET last(key) == CHOOSE k \in Reached(metadata) :
                     /\ Clip(k) = key
                     /\ \A j \in Reached(metadata) : Clip(j) = key => Rank(j) <= Rank(k)
  IN  [key \in {Clip(k) : k \in Reached(metadata)} |-> Clip(metadata[last(key)])]

MetadataSignal(record) ==
  LET metadata == record.fields["request_metadata"] IN
  IF metadata = NoMetadata THEN Signal("unavailable", None)
  ELSE IF \E k \in Reached(metadata) : NotText \in {k, metadata[k]}
    THEN Signal("malformed", None)
  ELSE IF Reached(metadata) = {} THEN Signal("unavailable", None)
  ELSE Signal("available", BoundedMetadata(metadata))

TextSignal(value) ==
  IF value = None THEN Signal("unavailable", None)
  ELSE IF value = NotText THEN Signal("malformed", None)
  ELSE Signal("available", Clip(value))

TokenSignal(value) ==
  IF value = None THEN Signal("unavailable", None)
  ELSE IF value \notin Nat THEN Signal("malformed", None)
  ELSE Signal("available", IF value <= MAX_TOKEN_COUNT THEN value ELSE MAX_TOKEN_COUNT)

DirectSignal(record, name) ==
  CASE name = "request_metadata" -> MetadataSignal(record)
    [] name = "model_format"     -> TextSignal(record.format)
    [] name \in IdentityFields   ->
         TextSignal(IF record.identity = None THEN None ELSE record.identity[name])
    [] name \in Tokens           -> TokenSignal(record.fields[name])
    [] OTHER                     -> TextSignal(record.fields[name])

DirectSignalNames == PlainSignals \cup IdentityFields \cup {"request_metadata", "model_format"}

NonEmpty(value) == value \notin BlankTexts \cup {None, NotText}

IsUtc(time) == time # None /\ time.offset = 0

\* The fields of a record the oracle has something to say about.
InvocationIssues(record) ==
  {f \in RequiredTexts : ~NonEmpty(record.fields[f])}
    \cup {f \in DOMAIN record.context : ~NonEmpty(record.context[f])}
    \cup {f \in {"source_timestamp_utc"} : ~IsUtc(record.fields[f])}
    \cup {f \in Tokens : record.fields[f] # None /\ record.fields[f] \notin Nat}

=============================================================================
