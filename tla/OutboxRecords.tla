---------------------------- MODULE OutboxRecords ----------------------------
(***************************************************************************)
(* An envelope as a row of the outbox table, and back: EnvelopeBuilder,    *)
(* insert_row and decode_row.  Some metadata fields have a column of their *)
(* own, the others share a JSON document.  A row may come from another     *)
(* release of the library, which knows fewer fields or more.               *)
(***************************************************************************)
EXTENDS NatsEnvelopeMapper

CONSTANTS
    Promoted,       \* the metadata fields with a column of their own
    Addresses,      \* the ones decode_row reads with EndpointAddress::parse
    StoreContent    \* the content type of the store's serializer

ASSUME OutboxRecordsAssumption ==
    /\ {"conversation_id", "sent_at", "expires_at"} \subseteq Plain
    /\ Promoted \subseteq Plain /\ Addresses \subseteq Plain \ Promoted
    /\ {"conversation_id", "expires_at"} \subseteq Promoted /\ "sent_at" \notin Promoted
    /\ "deduplication_id" \notin Fields
    /\ StoreContent \notin {None, Illegal}

-----------------------------------------------------------------------------
(* EnvelopeBuilder::build roots a conversation nobody has chosen.          *)
build(b) ==
    IF b.meta["conversation_id"] # None THEN b
    ELSE [b EXCEPT !.meta["conversation_id"] = b.id]

(* Milliseconds since the epoch: the rest of a timestamp is cut off.       *)
encode_epoch_millis(t) == IF t = "1.5 ms" THEN "1 ms" ELSE t

(* The column expires_at is a timestamptz, which keeps whole microseconds; *)
(* an envelope has nanoseconds.                                            *)
timestamptz(t) == IF t = "1.5 us" THEN "1 us" ELSE t

METADATA_VERSION == 1

RestFields == (Fields \ Promoted) \cup {"deduplication_id"}

MetadataRest(e) ==
    [f \in RestFields |->
        CASE f = "deduplication_id" -> e.dedup
          [] f = "sent_at"          -> encode_epoch_millis(e.meta[f])
          [] OTHER                  -> e.meta[f]]

Row(e, content_type, metadata) ==
    [id |-> e.id, type |-> e.type, content_type |-> content_type,
     columns |-> [f \in Promoted |->
                     IF f = "expires_at" THEN timestamptz(e.meta[f]) ELSE e.meta[f]],
     metadata |-> metadata,
     headers |-> IF e.custom = <<>> THEN None ELSE e.custom,
     metadata_version |-> METADATA_VERSION,
     size |-> e.size]

(* Mutant: deduplication_id does not count as a remainder.                 *)
insert_row_without_dedup(e, content_type) ==
    LET rest == MetadataRest(e)
    IN  Row(e, content_type,
            IF \A f \in RestFields \ {"deduplication_id"} : rest[f] = None
            THEN None ELSE rest)

(* An empty remainder is NULL.                                             *)
insert_row(e, content_type) ==
    LET rest == MetadataRest(e)
    IN  Row(e, content_type, IF \A f \in RestFields : rest[f] = None THEN None ELSE rest)

(* The two ways into the table: stage keeps the content type of the        *)
(* envelope, enqueue writes the one of the store's serializer.             *)
stage(e) == insert_row(e, e.content_type)

enqueue(e) == insert_row(e, StoreContent)

-----------------------------------------------------------------------------
(* serde(default): what is missing is None, what is unknown is ignored.    *)
Rest(row) ==
    [f \in RestFields |->
        IF row.metadata = None THEN None
        ELSE IF f \in DOMAIN row.metadata THEN row.metadata[f] ELSE None]

(* Of the checks of decode_row, one of the document and one of a value in  *)
(* it; the others reject a column in the same way.                         *)
Decodable(row) ==
    /\ row.metadata_version = METADATA_VERSION
    /\ \A f \in Addresses : Rest(row)[f] \notin {Empty, Illegal}

decode_row(row) ==
    [id |-> row.id, type |-> row.type, content_type |-> row.content_type,
     meta |-> [f \in Fields |-> IF f \in Promoted THEN row.columns[f] ELSE Rest(row)[f]],
     dedup |-> Rest(row)["deduplication_id"],
     custom |-> IF row.headers = None THEN <<>> ELSE row.headers,
     size |-> row.size]

(* The loop of acquire: a row that does not decode is left out.            *)
Records(rows) ==
    LET records[k \in 0 .. Len(rows)] ==
            IF k = 0 THEN <<>>
            ELSE IF Decodable(rows[k]) THEN Append(records[k - 1], decode_row(rows[k]))
            ELSE records[k - 1]
    IN  records[Len(rows)]

=============================================================================
