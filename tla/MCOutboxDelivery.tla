-------------------------- MODULE MCOutboxDelivery --------------------------
(* Single envelopes of every shape on every route, batches of two and      *)
(* three plain ones among which some cannot be sent, and claims with rows  *)
(* of other releases.                                                      *)
EXTENDS OutboxDelivery, TLC

Envelope(id, type, meta, dedup, custom, size) ==
    [id |-> id, type |-> type, content_type |-> "cbor", meta |-> meta, dedup |-> dedup,
     custom |-> custom, size |-> size]

Bare == [f \in Fields |-> None]

Good(i) == Envelope(<<"id1", "id2", "id3">>[i], "orders", Bare, None, <<>>, "small")
Unsendable(i) == [Good(i) EXCEPT !.type = Illegal]
Oversized(i) == [Good(i) EXCEPT !.size = "above the server's"]

Keys == {<<"traceparent", "lower">>, <<"traceparent", "Upper">>, <<"nats-", "Upper">>,
         <<"colon:", "lower">>, <<"app", "lower">>, <<"app", "Upper">>}

Metas ==
    {[Bare EXCEPT !["tenant_id"] = t, !["traceparent"] = p] :
        t \in {None, Empty, Illegal, "v"}, p \in {None, Illegal, "v"}}

Custom == {[k \in keys |-> k[2]] : keys \in {s \in SUBSET Keys : Cardinality(s) <= 3}}

Headed ==
    {Envelope("id1", "orders", m, d, c, "small") :
        m \in Metas, d \in {None, "id1", "d"}, c \in Custom}

Routed ==
    {Envelope("id1", t, [Bare EXCEPT !["destination"] = d], None, <<>>, s) :
        t \in {"orders", Empty, "wild*"}, d \in {None, "subject", "wild*"},
        s \in {"small", "above max_payload"}}

Stored ==
    {Envelope("id1", "orders",
              [f \in Fields |-> CASE f = "conversation_id" -> c [] f = "sent_at" -> s
                                  [] f = "expires_at" -> u [] f = "tenant_id" -> t
                                  [] OTHER -> None],
              d, x, "small") :
        c \in {None, "c"}, s \in {None, "1 ms", "1.5 ms"}, u \in {None, "1.5 us"},
        t \in {None, "v"}, d \in {None, "d"}, x \in {<<>>, <<"app", "lower">> :> "lower"}}

Positions(n) ==
    {b \in [1 .. n -> UNION {{Good(i), Unsendable(i), Oversized(i)} : i \in 1 .. n}] :
        \A i \in 1 .. n : b[i] \in {Good(i), Unsendable(i), Oversized(i)}}

SameKey == <<[Good(1) EXCEPT !.dedup = "d"], [Good(2) EXCEPT !.dedup = "d"]>>

Call(resolvers, routes, batches, releases) ==
    [resolver : resolvers, route : routes, envelopes : batches, writers : releases]

MCCalls ==
    Call({"prefix"}, {"stage"}, {<<e>> : e \in Headed}, {<<"this">>})
    \cup Call({"prefix", "destination"}, {"direct", "enqueue"}, {<<e>> : e \in Routed},
              {<<"this">>})
    \cup Call({"prefix"}, {"direct", "stage", "enqueue"}, {<<e>> : e \in Stored},
              {<<"this">>})
    \cup Call({"prefix"}, {"stage"}, {<<e>> : e \in Stored}, {<<"older">>, <<"newer">>})
    \cup Call({"prefix"}, {"direct"}, {SameKey} \cup Positions(2) \cup Positions(3),
              {<<"this", "this", "this">>})
    \cup Call({"prefix"}, {"enqueue"}, {<<Good(1), Good(2)>>},
              {<<"this", "next">>, <<"edited", "newer">>})

=============================================================================
