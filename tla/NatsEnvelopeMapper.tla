------------------------- MODULE NatsEnvelopeMapper -------------------------
(***************************************************************************)
(* NatsEnvelopeMapper: an envelope as NATS headers, and back.  A header    *)
(* name is a pair of the lower-case name and a spelling: HeaderMap tells   *)
(* spellings apart, decode does not.  The optional metadata fields that    *)
(* are all treated alike are the set Plain.                                *)
(***************************************************************************)
EXTENDS Integers, FiniteSets, FiniteSetsExt, Functions, Sequences

CONSTANTS
    Plain,   \* optional metadata fields with a reliar-* header of their own
    Trace,   \* traceparent, tracestate: headers without the reliar- prefix
    None

(* Values: an empty string, and one HeaderValue::from_str refuses.         *)
Empty == "empty"
Illegal == "crlf"

Fields == Plain \cup Trace

Lower(name) == <<name, "lower">>

(* Custom keys by what the mapper tells apart: names of trace headers in   *)
(* two spellings, the Nats- prefix, a name NATS cannot express, the rest.  *)
IsTrace(key) == key[1] \in Trace
IsReserved(key) == key[1] = "nats-"
IsUnsupported(key) == key[1] = "colon:"

-----------------------------------------------------------------------------
Required == {"message-id", "message-type", "content-type"}

Framework == Required \cup {"nats-msg-id"} \cup Fields

ASSUME NatsEnvelopeMapperAssumption ==
    /\ Plain \cap Trace = {}
    /\ Fields \cap (Required \cup {"nats-msg-id", "nats-", "colon:"}) = {}
    /\ None \notin {Empty, Illegal, "ReservedHeaderName", "DuplicateHeader",
                    "UnsupportedHeaderName", "InvalidHeaderValue"}

(* What core guarantees of an envelope: its id is a UUID and its content   *)
(* type a checked string, its type name is there, and Headers::insert lets *)
(* no name with the reliar- prefix in.                                     *)
IsEnvelope(e) ==
    /\ None \notin {e.id, e.type, e.content_type}
    /\ Illegal \notin {e.id, e.content_type}
    /\ IsFiniteSet(DOMAIN e.custom)
    /\ \A key \in DOMAIN e.custom : key[1] \in Trace \/ key[1] \notin Framework

(* A trace header with a value of its own overrides a custom one.          *)
Overridden(e, key) == IsTrace(key) /\ e.meta[key[1]] # None

(* What stops the loop over the custom headers at its k-th turn.  A second *)
(* spelling of a trace header is refused.                                  *)
CustomError(e, order, k) ==
    LET key == order[k] IN
    CASE IsReserved(key) -> "ReservedHeaderName"
      [] IsTrace(key) -> IF /\ ~ Overridden(e, key)
                            /\ \E j \in 1 .. k - 1 : order[j][1] = key[1]
                         THEN "DuplicateHeader" ELSE None
      [] IsUnsupported(key) -> "UnsupportedHeaderName"
      [] OTHER -> None

(* What the loop inserts when nothing stops it: a trace header goes by its *)
(* canonical name.                                                         *)
HeaderName(key) == IF IsTrace(key) THEN Lower(key[1]) ELSE key

CustomHeaders(e) ==
    LET kept == {key \in DOMAIN e.custom : ~ Overridden(e, key)}
    IN  [n \in {HeaderName(key) : key \in kept} |->
            e.custom[CHOOSE key \in kept : HeaderName(key) = n]]

FrameworkHeadersOn(e, names) ==
    [n \in {Lower(f) : f \in names} |->
        CASE n[1] = "message-id"   -> e.id
          [] n[1] = "message-type" -> e.type
          [] n[1] = "content-type" -> e.content_type
          [] n[1] = "nats-msg-id"  -> IF e.dedup = None THEN e.id ELSE e.dedup
          [] OTHER                 -> e.meta[n[1]]]

(* Mutant: Nats-Msg-Id is only written when the envelope chose one.        *)
FrameworkHeadersWithoutFallback(e) ==
    FrameworkHeadersOn(e, Required \cup {"nats-msg-id" : x \in {e.dedup} \ {None}}
                                   \cup {f \in Fields : e.meta[f] # None})

(* insert_framework_headers.  Nats-Msg-Id is always written.               *)
FrameworkHeaders(e) ==
    FrameworkHeadersOn(e, Required \cup {"nats-msg-id"}
                                   \cup {f \in Fields : e.meta[f] # None})

(* The headers of f, and those of g that f does not have.                  *)
Over(f, g) ==
    [n \in DOMAIN f \cup DOMAIN g |-> IF n \in DOMAIN f THEN f[n] ELSE g[n]]

(* order: how the hash map iterates over the custom headers.               *)
encode(e, order) ==
    LET stops == {k \in DOMAIN order : CustomError(e, order, k) # None}
        framework == FrameworkHeaders(e)
    IN IF stops # {}
       THEN [error |-> CustomError(e, order, Min(stops)), headers |-> <<>>]
       ELSE IF \E n \in DOMAIN framework : framework[n] = Illegal
            THEN [error |-> "InvalidHeaderValue", headers |-> <<>>]
       ELSE [error |-> None, headers |-> Over(framework, CustomHeaders(e))]

Orders(e) == Bijection(1 .. Cardinality(DOMAIN e.custom), DOMAIN e.custom)

-----------------------------------------------------------------------------
Spelled(headers, name) == {n \in DOMAIN headers : n[1] = name}

(* assign_once: the value of a framework header, in whatever spelling.     *)
Read(headers, name) ==
    IF Spelled(headers, name) = {} THEN None
    ELSE headers[CHOOSE n \in Spelled(headers, name) : TRUE]

(* Nats-* headers other than Nats-Msg-Id are the broker's and skipped.     *)
CustomNames(headers) ==
    {n \in DOMAIN headers : n[1] \notin Framework \cup {"nats-"}}

(* Mutant: every Nats-Msg-Id reads as one the producer chose.              *)
DedupOfAlways(headers) == Read(headers, "nats-msg-id")

DedupOf(headers) ==
    LET id == Read(headers, "nats-msg-id")
    IN IF id = Read(headers, "message-id") THEN None ELSE id

decode(headers) ==
    IF \E name \in Framework : Cardinality(Spelled(headers, name)) > 1
    THEN [error |-> "DuplicateHeader"]
    ELSE IF \E name \in Required : Read(headers, name) = None
    THEN [error |-> "MissingHeader"]
    ELSE IF Read(headers, "message-type") = Empty
    THEN [error |-> "MalformedHeader"]
    ELSE [id |-> Read(headers, "message-id"),
          type |-> Read(headers, "message-type"),
          content_type |-> Read(headers, "content-type"),
          meta |-> [f \in Fields |-> Read(headers, f)],
          dedup |-> DedupOf(headers),
          custom |-> [n \in CustomNames(headers) |-> headers[n]]]

-----------------------------------------------------------------------------
(* What encode is meant to accept, and what decode is meant to give back:  *)
(* the reference definitions.                                              *)

Expressible(e) ==
    /\ \A key \in DOMAIN e.custom : ~ IsReserved(key) /\ ~ IsUnsupported(key)
    /\ \A key1, key2 \in DOMAIN e.custom :
          IsTrace(key1) /\ key1[1] = key2[1] /\ e.meta[key1[1]] = None => key1 = key2
    /\ Illegal \notin {e.type, e.dedup} \cup {e.meta[f] : f \in Fields}

(* A deduplication id equal to the message id is no longer told from none, *)
(* and a custom trace header returns as metadata.                          *)
Normal(e) ==
    [id |-> e.id,
     type |-> e.type,
     content_type |-> e.content_type,
     meta |-> [f \in Fields |->
         LET given == {key \in DOMAIN e.custom : f \in Trace /\ key[1] = f}
         IN IF e.meta[f] = None /\ given # {}
            THEN e.custom[CHOOSE key \in given : TRUE] ELSE e.meta[f]],
     dedup |-> IF e.dedup = e.id THEN None ELSE e.dedup,
     custom |-> [key \in {k \in DOMAIN e.custom : ~ IsTrace(k)} |-> e.custom[key]]]

=============================================================================
