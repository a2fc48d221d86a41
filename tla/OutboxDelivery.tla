--------------------------- MODULE OutboxDelivery ---------------------------
(***************************************************************************)
(* The way of a message from the application to the stream: built, then    *)
(* published directly, or staged, enqueued and claimed from the outbox,    *)
(* and sent by NatsPublisher.                                              *)
(***************************************************************************)
EXTENDS NatsPublisher, OutboxRecords

CONSTANT
    Calls   \* what is published: [resolver, route, envelopes, writers]

VARIABLES
    route,    \* "direct", "stage" or "enqueue"
    origin,   \* the envelopes the application built
    writers   \* for each row the release that wrote it

deliveryVars == <<vars, route, origin, writers>>

(* Rows as other releases of the library write them: one without the keys  *)
(* it does not know, one with a key more, one with the next version of the *)
(* document; and one that was edited by hand.                              *)
Written(writer, row) ==
    LET document == IF row.metadata = None THEN <<>> ELSE row.metadata
        known == {f \in DOMAIN document : document[f] # None}
    IN  CASE writer = "this"   -> row
          [] writer = "next"   -> [row EXCEPT !.metadata_version = METADATA_VERSION + 1]
          [] writer = "older"  -> [row EXCEPT !.metadata =
                 IF @ = None THEN None ELSE [f \in known |-> document[f]]]
          [] writer = "newer"  -> [row EXCEPT !.metadata =
                 Over([f \in {"baggage"} |-> "b"], document)]
          [] writer = "edited" -> [row EXCEPT !.metadata =
                 Over([f \in Addresses |-> Empty], document)]

Readable == {"this", "older", "newer"}

(* What EnvelopeBuilder builds: every field is there, an address is one    *)
(* EndpointAddress::parse let through, and no two messages share an id.    *)
IsBuilt(e) ==
    /\ IsEnvelope(e) /\ e.custom # None
    /\ e = [id |-> e.id, type |-> e.type, content_type |-> e.content_type,
            meta |-> [f \in Fields |-> e.meta[f]], dedup |-> e.dedup,
            custom |-> e.custom, size |-> e.size]
    /\ \A f \in Addresses : e.meta[f] \notin {Empty, Illegal}

IsCall(call) ==
    /\ call.route \in {"direct", "stage", "enqueue"}
    /\ call.envelopes \in Seq(Range(call.envelopes))
    /\ \A i \in 1 .. Len(call.envelopes) :
          /\ IsBuilt(call.envelopes[i])
          /\ IF call.route = "direct" THEN call.writers[i] = "this"
             ELSE call.writers[i] \in Readable \cup {"next", "edited"}
    /\ \A i, j \in 1 .. Len(call.envelopes) :
          call.envelopes[i].id = call.envelopes[j].id => i = j

ASSUME OutboxDeliveryAssumption ==
    /\ Addresses # {} /\ "baggage" \notin RestFields
    /\ \A call \in Calls : IsCall(call)

Published(call) ==
    LET built == [i \in 1 .. Len(call.envelopes) |-> build(call.envelopes[i])]
        row(i) == IF call.route = "stage" THEN stage(built[i]) ELSE enqueue(built[i])
    IN  IF call.route = "direct" THEN built
        ELSE Records([i \in 1 .. Len(built) |-> Written(call.writers[i], row(i))])

Init ==
    \E call \in Calls :
        /\ route = call.route
        /\ origin = call.envelopes
        /\ writers = call.writers
        /\ InitWith(call.resolver, Published(call))

(* The task is polled and the clock advances; the network and the server   *)
(* owe nothing.                                                            *)
Spec ==
    /\ Init
    /\ [][Next /\ UNCHANGED <<route, origin, writers>>]_deliveryVars
    /\ WF_deliveryVars(Runs /\ UNCHANGED <<route, origin, writers>>)
    /\ WF_deliveryVars(DeadlinePasses /\ UNCHANGED <<route, origin, writers>>)

-----------------------------------------------------------------------------
(* What the route changes: a row keeps whole milliseconds of sent_at and   *)
(* whole microseconds of expires_at, and enqueue decides the content type. *)
Expected(e) ==
    LET rooted == [e EXCEPT !.meta["conversation_id"] = IF @ = None THEN e.id ELSE @]
    IN  IF route = "direct" THEN rooted
        ELSE [rooted EXCEPT !.meta["sent_at"] = IF @ = "1.5 ms" THEN "1 ms" ELSE @,
                            !.meta["expires_at"] = IF @ = "1.5 us" THEN "1 us" ELSE @,
                            !.content_type = IF route = "enqueue" THEN StoreContent ELSE @]

(* A message goes over the wire with the headers of a direct publish,      *)
(* whichever route it took and whichever release wrote its row, except for *)
(* what Expected says an outbox route changes: the precision of sent_at    *)
(* and expires_at, and the content type of enqueue.  (ADR 0033 promises    *)
(* identical bytes on both routes; for the two timestamps the code does    *)
(* not keep that.)  A row that cannot be read keeps no other from the      *)
(* claim.                                                                  *)
SameOnEveryRoute ==
    /\ {batch[k].id : k \in 1 .. N} =
           {origin[i].id : i \in {j \in 1 .. Len(origin) : writers[j] \in Readable}}
    /\ \A m \in stream, i \in 1 .. Len(origin) :
          origin[i].id = batch[m.i].id =>
              \E order \in Orders(origin[i]) :
                  m.headers = encode(Expected(origin[i]), order).headers

=============================================================================
