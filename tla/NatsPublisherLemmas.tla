------------------------ MODULE NatsPublisherLemmas -------------------------
(***************************************************************************)
(* What the proofs about publish_batch rest on, for every batch of         *)
(* envelopes: what the mapper writes can be read back, the sort that ends  *)
(* the call orders by position, and every step keeps the types and the one *)
(* place of every envelope.                                                *)
(***************************************************************************)
EXTENDS NatsPublisher, FiniteSetTheorems, TLAPS

-----------------------------------------------------------------------------
(* The mapper.                                                             *)

(* The hash map iterates over every custom header once.                    *)
LEMMA EveryHeaderOnce ==
    ASSUME NEW e, IsEnvelope(e), NEW order \in Orders(e)
    PROVE  /\ DOMAIN order \subseteq Nat
           /\ \A k \in DOMAIN order : order[k] \in DOMAIN e.custom
           /\ \A j, k \in DOMAIN order : order[j] = order[k] => j = k
           /\ \A key \in DOMAIN e.custom : \E k \in DOMAIN order : order[k] = key
           /\ \A k \in DOMAIN order : \A j \in 1 .. k - 1 : j \in DOMAIN order
<1> DEFINE S == DOMAIN e.custom
           n == Cardinality(S)
<1>1. IsFiniteSet(S) /\ n \in Nat
  BY FS_CardinalityType DEF IsEnvelope
<1>2. order \in Bijection(1 .. n, S)
  BY DEF Orders
<1> QED BY <1>1, <1>2 DEF Bijection, Injection, Surjection, IsInjective

(* The elements of a part of a sequence.                                   *)
LEMMA SubSeqIs ==
    ASSUME NEW S, NEW s, NEW m \in Int, NEW n \in Int, \A i \in m .. n : s[i] \in S
    PROVE  /\ SubSeq(s, m, n) \in Seq(S)
           /\ Len(SubSeq(s, m, n)) = IF m <= n THEN n - m + 1 ELSE 0
           /\ \A i \in 1 .. n - m + 1 : SubSeq(s, m, n)[i] = s[m + i - 1]
<1>1. SubSeq(s, m, n) = [i \in 1 .. (1 + n - m) |-> s[i + m - 1]]
  OBVIOUS
<1>2. CASE m <= n
  <2>1. /\ n - m + 1 \in Nat /\ 1 + n - m = n - m + 1
        /\ \A i \in 1 .. n - m + 1 : i + m - 1 = m + i - 1 /\ m + i - 1 \in m .. n
    BY <1>2
  <2>2. SubSeq(s, m, n) \in [1 .. n - m + 1 -> S]
    BY <1>1, <2>1
  <2>3. SubSeq(s, m, n) \in Seq(S) /\ Len(SubSeq(s, m, n)) = n - m + 1
    BY <2>1, <2>2
  <2> QED BY <1>1, <1>2, <2>1, <2>3
<1>3. CASE ~ (m <= n)
  <2>1. 1 .. (1 + n - m) = {} /\ 1 .. n - m + 1 = {}
    BY <1>3
  <2>2. SubSeq(s, m, n) = <<>>
    BY <1>1, <2>1
  <2> QED BY <1>3, <2>1, <2>2
<1> QED BY <1>2, <1>3

(* A set of natural numbers that is not empty has a least member.          *)
LEMMA LeastMember ==
    ASSUME NEW S \in SUBSET Nat, S # {}
    PROVE  Min(S) \in S /\ \A y \in S : Min(S) <= y
<1> DEFINE R == OpToRel(<, Nat)
<1>1. IsWellFoundedOn(R, Nat)
  BY NatLessThanWellFounded
<1>2. \A x, y \in Nat : <<x, y>> \in R <=> x < y
  BY DEF OpToRel
<1> HIDE DEF R
<1>3. PICK x \in S : \A y \in S : ~ (<<y, x>> \in R)
  BY <1>1, WFMin, Zenon
<1>4. \A y \in S : ~ (y < x)
  BY <1>2, <1>3, Zenon
<1>5. \A y \in S : x <= y
  BY <1>4
<1> QED BY <1>5, Zenon DEF Min

(* What stops the loop, seen from the whole map.                           *)
LEMMA LoopStops ==
    ASSUME NEW e, IsEnvelope(e), NEW order \in Orders(e)
    PROVE  (\E k \in DOMAIN order : CustomError(e, order, k) # None) <=>
              ~ /\ \A key \in DOMAIN e.custom : ~ IsReserved(key) /\ ~ IsUnsupported(key)
                /\ \A key1, key2 \in DOMAIN e.custom :
                      IsTrace(key1) /\ key1[1] = key2[1] /\ e.meta[key1[1]] = None
                          => key1 = key2
<1>1. \A k \in DOMAIN order :
         CustomError(e, order, k) # None <=>
            \/ IsReserved(order[k]) \/ IsUnsupported(order[k])
            \/ /\ IsTrace(order[k]) /\ e.meta[order[k][1]] = None
               /\ \E j \in 1 .. k - 1 : order[j][1] = order[k][1]
  BY NatsEnvelopeMapperAssumption
     DEF CustomError, IsReserved, IsTrace, IsUnsupported, Overridden, Fields
<1>2. ASSUME NEW k \in DOMAIN order, CustomError(e, order, k) # None,
             \A key \in DOMAIN e.custom : ~ IsReserved(key) /\ ~ IsUnsupported(key),
             \A key1, key2 \in DOMAIN e.custom :
                IsTrace(key1) /\ key1[1] = key2[1] /\ e.meta[key1[1]] = None
                    => key1 = key2
      PROVE  FALSE
  <2>1. order[k] \in DOMAIN e.custom
    BY EveryHeaderOnce
  <2>2. PICK j \in 1 .. k - 1 : /\ IsTrace(order[k]) /\ e.meta[order[k][1]] = None
                                /\ order[j][1] = order[k][1]
    BY <1>1, <1>2, <2>1
  <2>3. k \in Nat /\ j \in DOMAIN order /\ order[j] \in DOMAIN e.custom /\ j # k
    BY EveryHeaderOnce
  <2> QED BY <1>2, <2>1, <2>2, <2>3, EveryHeaderOnce
<1>3. ASSUME NEW key \in DOMAIN e.custom, IsReserved(key) \/ IsUnsupported(key)
      PROVE  \E k \in DOMAIN order : CustomError(e, order, k) # None
  BY <1>1, <1>3, EveryHeaderOnce
<1>4. ASSUME NEW key1 \in DOMAIN e.custom, NEW key2 \in DOMAIN e.custom,
             IsTrace(key1), key1[1] = key2[1], e.meta[key1[1]] = None, key1 # key2
      PROVE  \E k \in DOMAIN order : CustomError(e, order, k) # None
  <2>1. PICK j \in DOMAIN order, k \in DOMAIN order : order[j] = key1 /\ order[k] = key2
    BY EveryHeaderOnce
  <2>2. j \in Nat /\ k \in Nat /\ j # k
    BY <1>4, <2>1, EveryHeaderOnce
  <2>3. IsTrace(key2) /\ e.meta[key2[1]] = None
    BY <1>4 DEF IsTrace
  <2>4. CASE j < k
    <3>1. j \in 1 .. k - 1
      BY <2>2, <2>4, EveryHeaderOnce DEF Orders, Bijection, Injection
    <3> QED BY <1>1, <1>4, <2>1, <2>3, <3>1
  <2>5. CASE k < j
    <3>1. k \in 1 .. j - 1
      BY <2>2, <2>5, EveryHeaderOnce DEF Orders, Bijection, Injection
    <3> QED BY <1>1, <1>4, <2>1, <2>3, <3>1
  <2> QED BY <2>2, <2>4, <2>5
<1> QED BY <1>2, <1>3, <1>4

(* The values of the framework headers.                                    *)
LEMMA FrameworkValues ==
    ASSUME NEW e
    PROVE  LET f == FrameworkHeaders(e) IN
           /\ \A n \in DOMAIN f : n = Lower(n[1])
           /\ \A name : Lower(name) \in DOMAIN f <=>
                 \/ name \in Required \cup {"nats-msg-id"}
                 \/ name \in Fields /\ e.meta[name] # None
           /\ f[Lower("message-id")] = e.id
           /\ f[Lower("message-type")] = e.type
           /\ f[Lower("content-type")] = e.content_type
           /\ f[Lower("nats-msg-id")] = MsgId(e)
           /\ \A name \in Fields : e.meta[name] # None => f[Lower(name)] = e.meta[name]
<1> DEFINE f == FrameworkHeaders(e)
           names == Required \cup {"nats-msg-id"} \cup {g \in Fields : e.meta[g] # None}
<1>1. /\ DOMAIN f = {Lower(g) : g \in names}
      /\ \A n \in DOMAIN f :
            f[n] = CASE n[1] = "message-id"   -> e.id
                     [] n[1] = "message-type" -> e.type
                     [] n[1] = "content-type" -> e.content_type
                     [] n[1] = "nats-msg-id"  -> IF e.dedup = None THEN e.id ELSE e.dedup
                     [] OTHER                 -> e.meta[n[1]]
  BY DEF FrameworkHeaders, FrameworkHeadersOn
<1> HIDE DEF f
<1>2. \A name : Lower(name)[1] = name
  BY DEF Lower
<1>3. \A name : Lower(name) \in DOMAIN f <=> name \in names
  BY <1>1, <1>2
<1>4. \A n \in DOMAIN f : n = Lower(n[1])
  BY <1>1, <1>2
<1>5. /\ f[Lower("message-id")] = e.id
      /\ f[Lower("message-type")] = e.type
      /\ f[Lower("content-type")] = e.content_type
      /\ f[Lower("nats-msg-id")] = MsgId(e)
  BY <1>1, <1>2, <1>3 DEF Required, MsgId
<1>6. ASSUME NEW name \in Fields, e.meta[name] # None
      PROVE  f[Lower(name)] = e.meta[name]
  <2>1. Lower(name) \in DOMAIN f /\ Lower(name)[1] = name
    BY <1>2, <1>3, <1>6
  <2>2. name \notin Required \cup {"nats-msg-id"}
    BY NatsEnvelopeMapperAssumption
  <2> QED BY <1>1, <2>1, <2>2 DEF Required
<1> QED BY <1>3, <1>4, <1>5, <1>6 DEF f

(* encode refuses exactly what is not expressible, and what it writes does *)
(* not depend on the order of the hash map.                                *)
LEMMA EncodeAccepts ==
    ASSUME NEW e, IsEnvelope(e), NEW order \in Orders(e)
    PROVE  /\ encode(e, order).error \in MapError \cup {None}
           /\ encode(e, order).error = None <=> Expressible(e)
           /\ Expressible(e) =>
                 encode(e, order) = [error   |-> None,
                                     headers |-> Over(FrameworkHeaders(e), CustomHeaders(e))]
<1> DEFINE stops == {k \in DOMAIN order : CustomError(e, order, k) # None}
           f == FrameworkHeaders(e)
           legal == ~ \E n \in DOMAIN f : f[n] = Illegal
           keys == /\ \A key \in DOMAIN e.custom : ~ IsReserved(key) /\ ~ IsUnsupported(key)
                   /\ \A key1, key2 \in DOMAIN e.custom :
                         IsTrace(key1) /\ key1[1] = key2[1] /\ e.meta[key1[1]] = None
                             => key1 = key2
<1>1. stops = {} <=> keys
  BY LoopStops
<1>2. legal <=> Illegal \notin {e.type, e.dedup} \cup {e.meta[g] : g \in Fields}
  <2>1. ASSUME NEW n \in DOMAIN f, f[n] = Illegal
        PROVE  Illegal \in {e.type, e.dedup} \cup {e.meta[g] : g \in Fields}
    <3>1. n = Lower(n[1]) /\ Lower(n[1]) \in DOMAIN f
      BY FrameworkValues
    <3>2. \/ n[1] \in {"message-id", "message-type", "content-type", "nats-msg-id"}
          \/ n[1] \in Fields /\ e.meta[n[1]] # None
      BY <3>1, FrameworkValues DEF Required
    <3>3. CASE n[1] \in Fields /\ e.meta[n[1]] # None
      BY <2>1, <3>1, <3>3, FrameworkValues
    <3>4. CASE n[1] \in {"message-id", "message-type", "content-type", "nats-msg-id"}
      BY <2>1, <3>1, <3>4, FrameworkValues DEF IsEnvelope, MsgId
    <3> QED BY <3>2, <3>3, <3>4
  <2>2. ASSUME legal PROVE e.type # Illegal /\ e.dedup # Illegal
    <3>1. Lower("message-type") \in DOMAIN f /\ Lower("nats-msg-id") \in DOMAIN f
      BY FrameworkValues DEF Required
    <3>2. e.type # Illegal /\ MsgId(e) # Illegal
      BY <2>2, <3>1, FrameworkValues
    <3>3. Illegal # None
      BY NatsEnvelopeMapperAssumption
    <3> QED BY <3>2, <3>3 DEF MsgId
  <2>3. ASSUME legal, NEW g \in Fields PROVE e.meta[g] # Illegal
    <3>1. Illegal # None
      BY NatsEnvelopeMapperAssumption
    <3>2. CASE e.meta[g] # None
      <4>1. Lower(g) \in DOMAIN f /\ f[Lower(g)] = e.meta[g]
        BY <3>2, FrameworkValues
      <4> QED BY <2>3, <4>1
    <3> QED BY <3>1, <3>2
  <2> QED BY <2>1, <2>2, <2>3
<1>3. Expressible(e) <=> keys /\ legal
  BY <1>2 DEF Expressible
<1>4. stops # {} => CustomError(e, order, Min(stops)) \in MapError
  <2>1. stops \in SUBSET Nat
    BY EveryHeaderOnce
  <2>2. stops # {} => Min(stops) \in stops
    BY <2>1, LeastMember
  <2>3. \A k \in stops : CustomError(e, order, k) \in MapError
    BY DEF CustomError, MapError
  <2> QED BY <2>2, <2>3
<1>5. None \notin MapError
  BY NatsEnvelopeMapperAssumption DEF MapError
<1>6. encode(e, order) =
         IF stops # {}
         THEN [error |-> CustomError(e, order, Min(stops)), headers |-> <<>>]
         ELSE IF ~ legal THEN [error |-> "InvalidHeaderValue", headers |-> <<>>]
         ELSE [error |-> None, headers |-> Over(f, CustomHeaders(e))]
  BY DEF encode
<1> HIDE DEF stops, legal, keys, f
<1>7. CASE stops # {}
  BY <1>1, <1>3, <1>4, <1>5, <1>6, <1>7
<1>8. CASE stops = {} /\ ~ legal
  BY <1>3, <1>5, <1>6, <1>8 DEF MapError
<1>9. CASE stops = {} /\ legal
  BY <1>1, <1>3, <1>6, <1>9 DEF f
<1> QED BY <1>7, <1>8, <1>9

(* What encode writes, and what a consumer is given: JetStream adds its    *)
(* own headers.                                                            *)
Wire(e) == Over(FrameworkHeaders(e), CustomHeaders(e))
Delivered(headers) == Over([n \in {<<"nats-", "Stream">>} |-> "s"], headers)

(* The loop over the custom headers writes each value it keeps under one   *)
(* name: a trace header's canonical one, or the name it had.               *)
LEMMA CustomValues ==
    ASSUME NEW e, IsEnvelope(e), Expressible(e)
    PROVE  LET c == CustomHeaders(e) IN
           /\ \A n \in DOMAIN c :
                 \/ /\ n[1] \in Trace /\ n = Lower(n[1]) /\ e.meta[n[1]] = None
                    /\ \E key \in DOMAIN e.custom : key[1] = n[1]
                 \/ n[1] \notin Framework \cup {"nats-"} /\ n \in DOMAIN e.custom
           /\ \A key \in DOMAIN e.custom :
                 ~ IsTrace(key) => key \in DOMAIN c /\ c[key] = e.custom[key]
           /\ \A key \in DOMAIN e.custom :
                 IsTrace(key) /\ e.meta[key[1]] = None =>
                     Lower(key[1]) \in DOMAIN c /\ c[Lower(key[1])] = e.custom[key]
<1> DEFINE c == CustomHeaders(e)
           kept == {key \in DOMAIN e.custom : ~ Overridden(e, key)}
<1>1. /\ DOMAIN c = {HeaderName(key) : key \in kept}
      /\ \A n \in DOMAIN c : c[n] = e.custom[CHOOSE key \in kept : HeaderName(key) = n]
  BY DEF CustomHeaders
<1>2. /\ \A name : Lower(name)[1] = name
      /\ \A key : HeaderName(key)[1] = key[1]
      /\ \A key : IsTrace(key) => HeaderName(key) = Lower(key[1])
      /\ \A key : ~ IsTrace(key) => HeaderName(key) = key
  BY DEF Lower, HeaderName
<1>3. ASSUME NEW key \in kept
      PROVE  HeaderName(key) \in DOMAIN c /\ c[HeaderName(key)] = e.custom[key]
  <2>1. \A other \in kept : HeaderName(other) = HeaderName(key) => other = key
    <3> SUFFICES ASSUME NEW other \in kept, HeaderName(other) = HeaderName(key)
                 PROVE  other = key
      OBVIOUS
    <3>1. other[1] = key[1]
      BY <1>2
    <3>2. CASE IsTrace(key)
      <4>1. e.meta[key[1]] = None
        BY <3>2 DEF Overridden
      <4> QED BY <3>1, <3>2, <4>1 DEF Expressible
    <3>3. CASE ~ IsTrace(key)
      <4>1. ~ IsTrace(other)
        BY <3>1, <3>3 DEF IsTrace
      <4> QED BY <1>2, <3>3, <4>1
    <3> QED BY <3>2, <3>3
  <2>2. HeaderName(key) \in DOMAIN c
    BY <1>1
  <2>3. (CHOOSE other \in kept : HeaderName(other) = HeaderName(key)) = key
    BY <2>1
  <2> QED BY <1>1, <2>2, <2>3
<1>4. ASSUME NEW n \in DOMAIN c
      PROVE  \/ /\ n[1] \in Trace /\ n = Lower(n[1]) /\ e.meta[n[1]] = None
                /\ \E key \in DOMAIN e.custom : key[1] = n[1]
             \/ n[1] \notin Framework \cup {"nats-"} /\ n \in DOMAIN e.custom
  <2>1. PICK key \in kept : n = HeaderName(key)
    BY <1>1
  <2>2. n[1] = key[1]
    BY <1>2, <2>1
  <2>3. CASE IsTrace(key)
    BY <1>2, <2>1, <2>2, <2>3 DEF IsTrace, Overridden
  <2>4. CASE ~ IsTrace(key)
    BY <1>2, <2>1, <2>2, <2>4 DEF IsTrace, IsEnvelope, Expressible, IsReserved
  <2> QED BY <2>3, <2>4
<1> HIDE DEF c
<1>5. ASSUME NEW key \in DOMAIN e.custom, ~ IsTrace(key)
      PROVE  key \in DOMAIN c /\ c[key] = e.custom[key]
  BY <1>2, <1>3, <1>5 DEF Overridden
<1>6. ASSUME NEW key \in DOMAIN e.custom, IsTrace(key), e.meta[key[1]] = None
      PROVE  Lower(key[1]) \in DOMAIN c /\ c[Lower(key[1])] = e.custom[key]
  BY <1>2, <1>3, <1>6 DEF Overridden
<1> QED BY <1>4, <1>5, <1>6 DEF c

(* Every framework header is there at most once, in the spelling encode    *)
(* chose, and the server's headers disturb none of them.                   *)
LEMMA WireValues ==
    ASSUME NEW e, IsEnvelope(e), Expressible(e),
           NEW h, h \in {Wire(e), Delivered(Wire(e))}
    PROVE  /\ \A n \in DOMAIN h : n[1] \in Framework => n = Lower(n[1])
           /\ Lower("message-id") \in DOMAIN h /\ h[Lower("message-id")] = e.id
           /\ Lower("message-type") \in DOMAIN h /\ h[Lower("message-type")] = e.type
           /\ Lower("content-type") \in DOMAIN h
           /\ h[Lower("content-type")] = e.content_type
           /\ Lower("nats-msg-id") \in DOMAIN h /\ h[Lower("nats-msg-id")] = MsgId(e)
           /\ \A f \in Fields : e.meta[f] # None =>
                 Lower(f) \in DOMAIN h /\ h[Lower(f)] = e.meta[f]
           /\ \A f \in Fields : e.meta[f] = None /\ Lower(f) \in DOMAIN h =>
                 f \in Trace /\ \E key \in DOMAIN e.custom : key[1] = f
           /\ \A key \in DOMAIN e.custom : IsTrace(key) /\ e.meta[key[1]] = None =>
                 Lower(key[1]) \in DOMAIN h /\ h[Lower(key[1])] = e.custom[key]
           /\ CustomNames(h) = {key \in DOMAIN e.custom : ~ IsTrace(key)}
           /\ \A key \in CustomNames(h) : h[key] = e.custom[key]
<1> DEFINE fw == FrameworkHeaders(e)
           c == CustomHeaders(e)
           w == Wire(e)
<1>1. /\ DOMAIN w = DOMAIN fw \cup DOMAIN c
      /\ \A n \in DOMAIN w : w[n] = IF n \in DOMAIN fw THEN fw[n] ELSE c[n]
  BY DEF Wire, Over
<1>2. \A name : Lower(name)[1] = name
  BY DEF Lower
<1>3. /\ \A n \in DOMAIN fw : n = Lower(n[1]) /\ n[1] \in Framework
      /\ \A n \in DOMAIN c : n[1] # "nats-"
      /\ "nats-" \notin Framework
  <2>1. "nats-" \notin Framework
    BY NatsEnvelopeMapperAssumption DEF Framework, Required
  <2>2. \A n \in DOMAIN c : n[1] # "nats-"
    BY <2>1, CustomValues DEF Framework, Fields
  <2>3. \A n \in DOMAIN fw : n = Lower(n[1]) /\ n[1] \in Framework
    BY FrameworkValues DEF Framework
  <2> QED BY <2>1, <2>2, <2>3
<1>4. /\ DOMAIN w \subseteq DOMAIN h
      /\ \A n \in DOMAIN h : n \in DOMAIN w \/ n[1] = "nats-"
      /\ \A n \in DOMAIN w : h[n] = w[n] /\ n[1] # "nats-"
  <2>1. \A n \in DOMAIN w : n[1] # "nats-"
    BY <1>1, <1>3
  <2>2. CASE h = w
    BY <2>1, <2>2
  <2>3. CASE h = Delivered(w)
    <3>1. /\ DOMAIN h = {<<"nats-", "Stream">>} \cup DOMAIN w
          /\ \A n \in DOMAIN h : n # <<"nats-", "Stream">> => h[n] = w[n]
      BY <2>3 DEF Delivered, Over
    <3>2. <<"nats-", "Stream">>[1] = "nats-"
      OBVIOUS
    <3> QED BY <2>1, <3>1, <3>2
  <2> QED BY <2>2, <2>3
<1>5. \A n \in DOMAIN fw : n \in DOMAIN h /\ h[n] = fw[n]
  BY <1>1, <1>4
<1>6. \A n \in DOMAIN c : n \notin DOMAIN fw => n \in DOMAIN h /\ h[n] = c[n]
  BY <1>1, <1>4
<1>7. \A n \in DOMAIN h : n \in DOMAIN fw \/ n \in DOMAIN c \/ n[1] = "nats-"
  BY <1>1, <1>4
<1> HIDE DEF fw, c, w
<1>8. ASSUME NEW n \in DOMAIN h, n[1] \in Framework
      PROVE  n = Lower(n[1])
  BY <1>3, <1>7, <1>8, CustomValues DEF c
<1>9. /\ Lower("message-id") \in DOMAIN h /\ h[Lower("message-id")] = e.id
      /\ Lower("message-type") \in DOMAIN h /\ h[Lower("message-type")] = e.type
      /\ Lower("content-type") \in DOMAIN h /\ h[Lower("content-type")] = e.content_type
      /\ Lower("nats-msg-id") \in DOMAIN h /\ h[Lower("nats-msg-id")] = MsgId(e)
  BY <1>5, FrameworkValues DEF fw, Required
<1>10. ASSUME NEW f \in Fields, e.meta[f] # None
       PROVE  Lower(f) \in DOMAIN h /\ h[Lower(f)] = e.meta[f]
  BY <1>5, <1>10, FrameworkValues DEF fw
<1>11. ASSUME NEW f \in Fields, e.meta[f] = None
       PROVE  Lower(f) \notin DOMAIN fw
  BY <1>11, FrameworkValues, NatsEnvelopeMapperAssumption DEF fw
<1>12. ASSUME NEW f \in Fields, e.meta[f] = None, Lower(f) \in DOMAIN h
       PROVE  f \in Trace /\ \E key \in DOMAIN e.custom : key[1] = f
  <2>1. f # "nats-" /\ f \in Framework
    BY NatsEnvelopeMapperAssumption DEF Framework
  <2>2. Lower(f) \in DOMAIN c
    BY <1>2, <1>7, <1>11, <1>12, <2>1
  <2> QED BY <1>2, <2>1, <2>2, CustomValues DEF c
<1>13. ASSUME NEW key \in DOMAIN e.custom, IsTrace(key), e.meta[key[1]] = None
       PROVE  Lower(key[1]) \in DOMAIN h /\ h[Lower(key[1])] = e.custom[key]
  <2>1. Lower(key[1]) \notin DOMAIN fw
    BY <1>11, <1>13 DEF IsTrace, Fields
  <2>2. Lower(key[1]) \in DOMAIN c /\ c[Lower(key[1])] = e.custom[key]
    BY <1>13, CustomValues DEF c
  <2> QED BY <1>6, <2>1, <2>2
<1>14. ASSUME NEW n \in CustomNames(h)
       PROVE  n \in DOMAIN e.custom /\ ~ IsTrace(n)
  <2>1. n \in DOMAIN c /\ n[1] \notin Framework
    BY <1>3, <1>7 DEF CustomNames
  <2> QED BY <2>1, CustomValues DEF c, IsTrace, Framework, Fields
<1>15. ASSUME NEW key \in DOMAIN e.custom, ~ IsTrace(key)
       PROVE  key \in CustomNames(h) /\ h[key] = e.custom[key]
  <2>1. key[1] \notin Framework \cup {"nats-"}
    BY <1>15 DEF IsEnvelope, IsTrace, Expressible, IsReserved
  <2>2. key \in DOMAIN c /\ c[key] = e.custom[key]
    BY <1>15, CustomValues DEF c
  <2>3. key \notin DOMAIN fw
    BY <1>3, <2>1
  <2> QED BY <1>6, <2>1, <2>2, <2>3 DEF CustomNames
<1> QED BY <1>8, <1>9, <1>10, <1>12, <1>13, <1>14, <1>15

(* decode finds a framework header under the one name it can have.         *)
LEMMA ReadsOnce ==
    ASSUME NEW e, IsEnvelope(e), Expressible(e),
           NEW h, h \in {Wire(e), Delivered(Wire(e))}, NEW name \in Framework
    PROVE  /\ Cardinality(Spelled(h, name)) <= 1
           /\ Read(h, name) = IF Lower(name) \in DOMAIN h THEN h[Lower(name)] ELSE None
<1>1. Lower(name)[1] = name
  BY DEF Lower
<1>2. CASE Lower(name) \in DOMAIN h
  <2>1. Spelled(h, name) = {Lower(name)}
    BY <1>1, <1>2, WireValues DEF Spelled
  <2>2. Cardinality(Spelled(h, name)) = 1
    BY <2>1, FS_Singleton
  <2>3. (CHOOSE n \in Spelled(h, name) : TRUE) = Lower(name)
    BY <2>1
  <2> QED BY <1>2, <2>1, <2>2, <2>3 DEF Read
<1>3. CASE Lower(name) \notin DOMAIN h
  <2>1. Spelled(h, name) = {}
    BY <1>3, WireValues DEF Spelled
  <2>2. Cardinality(Spelled(h, name)) = 0
    BY <2>1, FS_EmptySet
  <2> QED BY <1>3, <2>1, <2>2 DEF Read
<1> QED BY <1>2, <1>3

(* The Nats-Msg-Id of a message is the envelope's, and there is one.       *)
LEMMA MsgIdWritten ==
    ASSUME NEW e, IsEnvelope(e), Expressible(e)
    PROVE  Read(Wire(e), "nats-msg-id") = MsgId(e) /\ MsgId(e) # None
<1>1. "nats-msg-id" \in Framework
  BY DEF Framework
<1>2. Read(Wire(e), "nats-msg-id") = MsgId(e)
  BY <1>1, ReadsOnce, WireValues
<1>3. MsgId(e) # None
  BY DEF MsgId, IsEnvelope
<1> QED BY <1>2, <1>3

(* What a consumer decodes is what was published, normalised.              *)
LEMMA RoundTrip ==
    ASSUME NEW e, IsEnvelope(e), Expressible(e)
    PROVE  IF e.type = Empty
           THEN decode(Delivered(Wire(e))).error = "MalformedHeader"
           ELSE decode(Delivered(Wire(e))) = Normal(e)
<1> DEFINE h == Delivered(Wire(e))
<1>1. Required \subseteq Framework /\ "nats-msg-id" \in Framework /\ Fields \subseteq Framework
  BY DEF Framework
<1>2. /\ Read(h, "message-id") = e.id
      /\ Read(h, "message-type") = e.type
      /\ Read(h, "content-type") = e.content_type
      /\ Read(h, "nats-msg-id") = MsgId(e)
  BY <1>1, ReadsOnce, WireValues DEF Required
<1>3. \A name \in Framework : ~ (Cardinality(Spelled(h, name)) > 1)
  <2> SUFFICES ASSUME NEW name \in Framework
               PROVE  ~ (Cardinality(Spelled(h, name)) > 1)
    OBVIOUS
  <2>1. Cardinality(Spelled(h, name)) <= 1
    BY ReadsOnce
  <2>2. Cardinality(Spelled(h, name)) \in Nat
    <3>1. Spelled(h, name) \subseteq {Lower(name)}
      BY WireValues DEF Spelled
    <3>2. IsFiniteSet({Lower(name)})
      BY FS_Singleton, Zenon
    <3> QED BY <3>1, <3>2, FS_Subset, FS_CardinalityType
  <2> QED BY <2>1, <2>2
<1>4. \A name \in Required : Read(h, name) # None
  BY <1>2 DEF Required, IsEnvelope
<1>5. ASSUME NEW f \in Fields
      PROVE  Read(h, f) = Normal(e).meta[f]
  <2> DEFINE given == {key \in DOMAIN e.custom : f \in Trace /\ key[1] = f}
  <2>1. Normal(e).meta[f] = IF e.meta[f] = None /\ given # {}
                            THEN e.custom[CHOOSE key \in given : TRUE] ELSE e.meta[f]
    BY DEF Normal
  <2>2. Read(h, f) = IF Lower(f) \in DOMAIN h THEN h[Lower(f)] ELSE None
    BY <1>1, ReadsOnce
  <2>3. CASE e.meta[f] # None
    BY <2>1, <2>2, <2>3, WireValues
  <2>4. CASE e.meta[f] = None /\ given # {}
    <3>1. PICK key \in given : key = CHOOSE k \in given : TRUE
      BY <2>4
    <3>2. key \in DOMAIN e.custom /\ key[1] = f /\ IsTrace(key) /\ e.meta[key[1]] = None
      BY <2>4, <3>1 DEF IsTrace
    <3>3. Lower(f) \in DOMAIN h /\ h[Lower(f)] = e.custom[key]
      BY <3>2, WireValues
    <3> QED BY <2>1, <2>2, <2>4, <3>1, <3>3
  <2>5. CASE e.meta[f] = None /\ given = {}
    <3>1. Lower(f) \notin DOMAIN h
      BY <2>5, WireValues
    <3> QED BY <2>1, <2>2, <2>5, <3>1
  <2> QED BY <2>3, <2>4, <2>5
<1>6. DedupOf(h) = Normal(e).dedup
  BY <1>2 DEF DedupOf, Normal, MsgId, IsEnvelope
<1>7. [n \in CustomNames(h) |-> h[n]] = Normal(e).custom
  <2>1. /\ CustomNames(h) = {key \in DOMAIN e.custom : ~ IsTrace(key)}
        /\ \A key \in CustomNames(h) : h[key] = e.custom[key]
    BY WireValues
  <2>2. Normal(e).custom = [key \in {k \in DOMAIN e.custom : ~ IsTrace(k)} |-> e.custom[key]]
    BY DEF Normal
  <2> QED BY <2>1, <2>2
<1>8. decode(h) = IF e.type = Empty THEN [error |-> "MalformedHeader"]
                  ELSE [id |-> e.id, type |-> e.type, content_type |-> e.content_type,
                        meta |-> [f \in Fields |-> Read(h, f)], dedup |-> DedupOf(h),
                        custom |-> [n \in CustomNames(h) |-> h[n]]]
  <2> HIDE DEF h
  <2> QED BY <1>2, <1>3, <1>4 DEF decode
<1>9. [f \in Fields |-> Read(h, f)] = Normal(e).meta
  <2>1. Normal(e).meta = [f \in Fields |-> Normal(e).meta[f]]
    BY DEF Normal
  <2> HIDE DEF h
  <2> QED BY <1>5, <2>1
<1>10. Normal(e) = [id |-> e.id, type |-> e.type, content_type |-> e.content_type,
                    meta |-> Normal(e).meta, dedup |-> Normal(e).dedup,
                    custom |-> Normal(e).custom]
  BY DEF Normal
<1> HIDE DEF h
<1>11. CASE e.type = Empty
  BY <1>8, <1>11 DEF h
<1>12. CASE e.type # Empty
  BY <1>6, <1>7, <1>8, <1>9, <1>10, <1>12 DEF h
<1> QED BY <1>11, <1>12

(* prepare lets through what has a subject, is expressible and fits, and   *)
(* says why it refuses the rest.                                           *)
Sendable(e) == HasSubject(e) /\ Expressible(e) /\ e.size # "above max_payload"

(* prepare fails exactly on the envelopes that cannot be sent, and hands   *)
(* the wire headers of the others to the window.                           *)
LEMMA Prepares ==
    ASSUME NEW e, IsEnvelope(e), NEW order \in Orders(e)
    PROVE  /\ prepare(e, order).error \in PrepareError \cup {None}
           /\ prepare(e, order).error = None <=> Sendable(e)
           /\ Sendable(e) => prepare(e, order).headers = Wire(e)
<1> DEFINE wire == encode(e, order)
<1>1. /\ wire.error \in MapError \cup {None}
      /\ wire.error = None <=> Expressible(e)
      /\ Expressible(e) => wire = [error |-> None, headers |-> Wire(e)]
  BY EncodeAccepts DEF Wire
<1>2. None \notin PrepareError
  BY NatsPublisherAssumption DEF Verdict
<1>3. prepare(e, order) =
         IF ~ HasSubject(e) THEN [error |-> "Subject", headers |-> <<>>]
         ELSE IF wire.error # None THEN wire
         ELSE IF e.size = "above max_payload"
              THEN [wire EXCEPT !.error = "PayloadTooLarge"]
         ELSE wire
  BY DEF prepare
<1> HIDE DEF wire
<1>4. CASE ~ HasSubject(e)
  <2>1. prepare(e, order).error = "Subject"
    BY <1>3, <1>4
  <2> QED BY <1>2, <1>4, <2>1 DEF Sendable, PrepareError
<1>5. CASE HasSubject(e) /\ wire.error # None
  <2>1. prepare(e, order) = wire
    BY <1>3, <1>5
  <2> QED BY <1>1, <1>5, <2>1 DEF Sendable, PrepareError
<1>6. CASE HasSubject(e) /\ wire.error = None /\ e.size = "above max_payload"
  <2>1. prepare(e, order).error = "PayloadTooLarge"
    BY <1>1, <1>3, <1>6
  <2> QED BY <1>2, <1>6, <2>1 DEF Sendable, PrepareError
<1>7. CASE HasSubject(e) /\ wire.error = None /\ e.size # "above max_payload"
  <2>1. prepare(e, order) = wire
    BY <1>3, <1>7
  <2>2. wire = [error |-> None, headers |-> Wire(e)]
    BY <1>1, <1>7
  <2>3. prepare(e, order).error = None /\ prepare(e, order).headers = Wire(e)
    BY <2>1, <2>2
  <2>4. Sendable(e)
    BY <1>1, <1>7 DEF Sendable
  <2> QED BY <2>3, <2>4
<1> QED BY <1>4, <1>5, <1>6, <1>7

-----------------------------------------------------------------------------
(* The state of a batch.  Every envelope is in one place: still prepared,  *)
(* in the window, or answered.                                             *)

SendStates == {"unsent", "sent", "MaxPayloadExceeded", "Connection", "MaxAckPending",
               "Timeout"}
Answers == {"Ok", "Broker", "StreamNotFound", "Timeout", "Connection"}

Headers == {Wire(batch[i]) : i \in 1 .. N}

Item == [i : 1 .. N, headers : Headers]
Sent == [i : 1 .. N, headers : Headers, st : SendStates]
Tagged == (1 .. N) \X Verdict
Messages == [i : 1 .. N, headers : Headers, round : Nat]

BatchOK == batch \in Seq(Range(batch)) /\ \A i \in 1 .. N : IsEnvelope(batch[i])

Typed ==
    /\ pc \in {"prepare", "windows", "send", "acks", "done"}
    /\ round \in 1 .. MaxRounds
    /\ late \in BOOLEAN
    /\ prepared \in Seq(Item)
    /\ window \in Seq(Sent)
    /\ Len(window) <= Depth
    /\ outcomes \in Seq(Tagged)
    /\ acks \in [1 .. N -> Answers \cup {None}]
    /\ in_time \in SUBSET (1 .. N)
    /\ net \in SUBSET Messages
    /\ stream \in SUBSET Messages

Waits(i) == \E k \in 1 .. Len(prepared) : prepared[k].i = i
Flies(i) == \E k \in 1 .. Len(window) : window[k].i = i
Ended(i) == \E k \in 1 .. Len(outcomes) : outcomes[k][1] = i

Once ==
    /\ \A j, k \in 1 .. Len(prepared) : prepared[j].i = prepared[k].i => j = k
    /\ \A j, k \in 1 .. Len(window) : window[j].i = window[k].i => j = k
    /\ \A j, k \in 1 .. Len(outcomes) : outcomes[j][1] = outcomes[k][1] => j = k
    /\ \A i \in 1 .. N : /\ ~ (Waits(i) /\ Flies(i))
                         /\ ~ (Waits(i) /\ Ended(i))
                         /\ ~ (Flies(i) /\ Ended(i))

Covered ==
    /\ pc = "prepare" => /\ Turn \in 1 .. N
                         /\ \A i \in 1 .. N : (Waits(i) \/ Ended(i)) <=> i < Turn
    /\ pc # "prepare" => \A i \in 1 .. N : Waits(i) \/ Flies(i) \/ Ended(i)
    /\ pc \in {"prepare", "windows", "done"} => window = <<>>
    /\ pc = "done" => prepared = <<>>
    /\ pc = "acks" => \A k \in 1 .. Len(window) : window[k].st # "unsent"

(* What is in a window or on the wire has passed prepare, and carries the  *)
(* headers of its envelope.                                                *)
Carried ==
    /\ \A k \in 1 .. Len(prepared) : /\ Sendable(batch[prepared[k].i])
                                     /\ prepared[k].headers = Wire(batch[prepared[k].i])
    /\ \A k \in 1 .. Len(window) : /\ Sendable(batch[window[k].i])
                                   /\ window[k].headers = Wire(batch[window[k].i])
    /\ \A m \in net \cup stream : /\ Sendable(batch[m.i])
                                  /\ m.headers = Wire(batch[m.i])
                                  /\ batch[m.i].size # "above the server's"

(* The stream holds one message for every Nats-Msg-Id.                     *)
OnePerId ==
    \A m, n \in stream : MsgId(batch[m.i]) = MsgId(batch[n.i]) => m = n

(* An ack is for a send whose answer is awaited or has been reported.      *)
Heard ==
    /\ pc = "prepare" => \A i \in 1 .. N : acks[i] = None
    /\ \A k \in 1 .. Len(prepared) : acks[prepared[k].i] = None
    /\ \A k \in 1 .. Len(window) : acks[window[k].i] # None => window[k].st = "sent"
    /\ \A i \in in_time : acks[i] # None

Confirmed(i) == \E m \in stream : MsgId(batch[m.i]) = MsgId(batch[i])

Justified ==
    /\ \A i \in 1 .. N : acks[i] = "Ok" => Confirmed(i)
    /\ \A k \in 1 .. Len(window) :
          window[k].st = "MaxPayloadExceeded" => TooLarge(k)
    /\ \A k \in 1 .. Len(outcomes) :
          /\ outcomes[k][2] = "Ok" => Confirmed(outcomes[k][1])
          /\ outcomes[k][2] \in PrepareError <=> ~ Sendable(batch[outcomes[k][1]])
          /\ outcomes[k][2] = "MaxPayloadExceeded" =>
                batch[outcomes[k][1]].size = "above the server's"
          /\ outcomes[k][2] # "WrongLastMessage"

(* What is returned for an envelope is its verdict.                        *)
Returned ==
    pc = "done" => /\ Len(results) = N
                   /\ \A k \in 1 .. Len(outcomes) :
                         results[outcomes[k][1]] = outcomes[k][2]

BatchInv ==
    /\ BatchOK /\ Typed /\ Once /\ Covered /\ Carried /\ OnePerId /\ Heard
    /\ AckedInTimeCounts /\ Justified /\ Returned

-----------------------------------------------------------------------------
(* The sort that ends publish_batch.                                       *)

(* A strictly increasing map of 1 .. M into itself moves nothing.          *)
LEMMA IncreasingIsIdentity ==
    ASSUME NEW M \in Nat, NEW g \in [1 .. M -> 1 .. M],
           \A j, k \in 1 .. M : j < k => g[j] < g[k]
    PROVE  \A k \in 1 .. M : g[k] = k
<1>1. \A k \in 1 .. M : g[k] >= k
  <2> DEFINE Bad == {k \in 1 .. M : g[k] < k}
  <2> SUFFICES ASSUME Bad # {} PROVE FALSE
    OBVIOUS
  <2>1. PICK k \in Bad : \A j \in Bad : k <= j
    <3>1. Bad \in SUBSET Nat
      OBVIOUS
    <3> QED BY <3>1, LeastMember, Zenon
  <2>2. k - 1 \in 1 .. M /\ k - 1 \notin Bad
    BY <2>1
  <2>3. g[k - 1] >= k - 1 /\ g[k - 1] < g[k]
    BY <2>1, <2>2
  <2> QED BY <2>1, <2>2, <2>3
<1>2. \A k \in 1 .. M : g[k] <= k
  <2> DEFINE Bad == {d \in 0 .. M - 1 : g[M - d] > M - d}
  <2> SUFFICES ASSUME Bad # {} PROVE FALSE
    <3> SUFFICES ASSUME NEW k \in 1 .. M, g[k] > k PROVE Bad # {}
      OBVIOUS
    <3>1. M - k \in 0 .. M - 1 /\ M - (M - k) = k
      OBVIOUS
    <3> QED BY <3>1, Zenon
  <2>1. PICK d \in Bad : \A c \in Bad : d <= c
    <3>1. Bad \in SUBSET Nat
      OBVIOUS
    <3> QED BY <3>1, LeastMember, Zenon
  <2>2. d # 0
    BY <2>1
  <2>3. d - 1 \in 0 .. M - 1 /\ d - 1 \notin Bad /\ M - (d - 1) = (M - d) + 1
    <3>1. d \in 0 .. M - 1
      BY <2>1
    <3>2. d - 1 \in 0 .. M - 1 /\ ~ (d <= d - 1) /\ M - (d - 1) = (M - d) + 1
      BY <2>2, <3>1
    <3> HIDE DEF Bad
    <3> QED BY <2>1, <3>2
  <2>4. g[(M - d) + 1] <= (M - d) + 1 /\ (M - d) + 1 \in 1 .. M /\ M - d \in 1 .. M
    BY <2>1, <2>3
  <2>5. g[M - d] < g[(M - d) + 1]
    BY <2>1, <2>4
  <2> QED BY <2>1, <2>4, <2>5
<1> QED BY <1>1, <1>2

(* The pairs name every index of 1 .. M once.                              *)
NameEach(pairs, M) ==
    /\ Len(pairs) \in Nat /\ DOMAIN pairs = 1 .. Len(pairs)
    /\ \A k \in 1 .. Len(pairs) : pairs[k][1] \in 1 .. M
    /\ \A j, k \in 1 .. Len(pairs) : pairs[j][1] = pairs[k][1] => j = k
    /\ \A i \in 1 .. M : \E k \in 1 .. Len(pairs) : pairs[k][1] = i

(* Sorted by index, they come out each at its own position.                *)
LEMMA SortedByPosition ==
    ASSUME NEW M \in Nat, NEW pairs, NameEach(pairs, M)
    PROVE  /\ Len(ByPosition(pairs)) = M
           /\ \A k \in 1 .. Len(pairs) : ByPosition(pairs)[pairs[k][1]] = pairs[k][2]
<1> DEFINE L == Len(pairs)
           f == [k \in 1 .. L |-> pairs[k][1]]
           back == [i \in 1 .. M |-> CHOOSE k \in 1 .. L : pairs[k][1] = i]
<1>1. L \in Nat /\ DOMAIN pairs = 1 .. L /\ \A k \in 1 .. L : pairs[k][1] \in 1 .. M
  BY DEF NameEach
<1>a. /\ \A j, k \in 1 .. L : pairs[j][1] = pairs[k][1] => j = k
      /\ \A i \in 1 .. M : \E k \in 1 .. L : pairs[k][1] = i
  BY DEF NameEach
<1>b. back = [i \in 1 .. M |-> back[i]]
  OBVIOUS
<1>2. \A i \in 1 .. M : back[i] \in 1 .. L /\ pairs[back[i]][1] = i
  <2> SUFFICES ASSUME NEW i \in 1 .. M
               PROVE  back[i] \in 1 .. L /\ pairs[back[i]][1] = i
    OBVIOUS
  <2>1. back[i] = CHOOSE k \in 1 .. L : pairs[k][1] = i
    OBVIOUS
  <2>2. \E k \in 1 .. L : pairs[k][1] = i
    BY <1>a
  <2> HIDE DEF back, L
  <2> QED BY <2>1, <2>2
<1>3. L = M
  <2>1. f \in Bijection(1 .. L, 1 .. M)
    <3>1. f \in [1 .. L -> 1 .. M]
      BY <1>1
    <3>2. IsInjective(f)
      BY <1>a DEF IsInjective
    <3>3. \A i \in 1 .. M : \E k \in 1 .. L : f[k] = i
      BY <1>a
    <3> QED BY <3>1, <3>2, <3>3 DEF Bijection, Injection, Surjection
  <2> HIDE DEF L, f
  <2>2. IsFiniteSet(1 .. L) /\ Cardinality(1 .. L) = L
    <3>1. 1 \in Int /\ L \in Int /\ ~ (1 > L) => L - 1 + 1 = L
      BY <1>1
    <3> QED BY <1>1, <3>1, FS_Interval
  <2>3. Cardinality(1 .. M) = M
    BY FS_Interval
  <2> QED BY <2>1, <2>2, <2>3, FS_Bijection DEF ExistsBijection
<1> HIDE DEF f, back, L
<1>4. back \in Bijection(1 .. M, 1 .. M) /\ Sorts(back, pairs)
  <2>1. back \in [1 .. M -> 1 .. M]
    BY <1>2, <1>3, <1>b
  <2>2. IsInjective(back)
    BY <1>2, <2>1 DEF IsInjective
  <2>3. \A k \in 1 .. M : \E i \in 1 .. M : back[i] = k
    <3> SUFFICES ASSUME NEW k \in 1 .. M PROVE \E i \in 1 .. M : back[i] = k
      OBVIOUS
    <3>1. k \in 1 .. L /\ pairs[k][1] \in 1 .. M
      BY <1>1, <1>3
    <3>2. back[pairs[k][1]] \in 1 .. L /\ pairs[back[pairs[k][1]]][1] = pairs[k][1]
      BY <1>2, <3>1
    <3>3. back[pairs[k][1]] = k
      BY <1>a, <3>1, <3>2
    <3> QED BY <3>1, <3>3
  <2>4. Sorts(back, pairs)
    <3>1. \A j, k \in 1 .. M : j < k => pairs[back[j]][1] <= pairs[back[k]][1]
      <4> SUFFICES ASSUME NEW j \in 1 .. M, NEW k \in 1 .. M, j < k
                   PROVE  pairs[back[j]][1] <= pairs[back[k]][1]
        OBVIOUS
      <4>1. pairs[back[j]][1] = j /\ pairs[back[k]][1] = k
        BY <1>2
      <4>2. j <= k
        OBVIOUS
      <4> QED BY <4>1, <4>2
    <3> QED BY <2>1, <3>1 DEF Sorts
  <2> QED BY <2>1, <2>2, <2>3, <2>4, Zenon DEF Bijection, Injection, Surjection
<1> DEFINE p == CHOOSE q \in Bijection(DOMAIN pairs, DOMAIN pairs) : Sorts(q, pairs)
<1>5. p \in Bijection(1 .. M, 1 .. M) /\ Sorts(p, pairs)
  BY <1>1, <1>3, <1>4
<1>6. ByPosition(pairs) = [k \in 1 .. L |-> pairs[p[k]][2]]
  BY DEF ByPosition, L
<1> HIDE DEF p
<1>7. /\ p \in [1 .. M -> 1 .. M]
      /\ \A j, k \in 1 .. M : p[j] = p[k] => j = k
      /\ \A j, k \in 1 .. M : j < k => pairs[p[j]][1] <= pairs[p[k]][1]
  BY <1>5, Zenon DEF Bijection, Injection, IsInjective, Sorts
<1> DEFINE g == [k \in 1 .. M |-> pairs[p[k]][1]]
<1>8. g \in [1 .. M -> 1 .. M]
  BY <1>1, <1>3, <1>7
<1>9. ASSUME NEW j \in 1 .. M, NEW k \in 1 .. M, j < k PROVE g[j] < g[k]
  <2>1. p[j] \in 1 .. L /\ p[k] \in 1 .. L /\ p[j] # p[k]
    BY <1>3, <1>7, <1>9
  <2>2. pairs[p[j]][1] # pairs[p[k]][1]
    BY <1>a, <2>1
  <2>3. pairs[p[j]][1] <= pairs[p[k]][1]
    BY <1>7, <1>9
  <2> QED BY <1>1, <2>1, <2>2, <2>3
<1>10. \A k \in 1 .. M : g[k] = k
  <2> HIDE DEF g
  <2> QED BY <1>8, <1>9, IncreasingIsIdentity, Zenon
<1>11. ASSUME NEW k \in 1 .. L PROVE ByPosition(pairs)[pairs[k][1]] = pairs[k][2]
  <2> DEFINE i == pairs[k][1]
  <2>1. i \in 1 .. M
    BY <1>1
  <2>2. pairs[p[i]][1] = i /\ p[i] \in 1 .. L
    BY <1>3, <1>7, <1>10, <2>1, Zenon
  <2>3. p[i] = k
    BY <1>a, <2>2
  <2>4. ByPosition(pairs)[i] = pairs[p[i]][2]
    <3> HIDE DEF i
    <3> QED BY <1>3, <1>6, <2>1
  <2> QED BY <2>3, <2>4
<1>12. Len(ByPosition(pairs)) = M
  BY <1>3, <1>6
<1> QED BY <1>11, <1>12 DEF L

-----------------------------------------------------------------------------
(* The inductive steps.                                                    *)

(* The batch and the resolver are fixed for the call.                      *)
LEMMA SameBatch ==
    ASSUME Next
    PROVE  /\ batch' = batch /\ resolver' = resolver /\ N' = N /\ Headers' = Headers
           /\ \A e : Sendable(e)' <=> Sendable(e)
           /\ BatchOK => BatchOK'
<1>1. batch' = batch /\ resolver' = resolver
  BY
     DEF Next, Runs, Prepare, OpenWindow, AwaitAck, WindowDone, Return, SendTimesOut, Send,
         SendEnds, PublishAgain, DeadlinePasses, AckFails, Stores, Refuses
<1>2. N' = N /\ Headers' = Headers
  BY <1>1 DEF N, Headers
<1>3. \A e : Sendable(e)' <=> Sendable(e)
  BY <1>1 DEF Sendable, HasSubject
<1>4. BatchOK => BatchOK'
  BY <1>1, <1>2 DEF BatchOK
<1> QED BY <1>1, <1>2, <1>3, <1>4

(* The members of a sequence.                                              *)
LEMMA Members ==
    ASSUME NEW S, NEW s \in Seq(S)
    PROVE  Len(s) \in Nat /\ DOMAIN s = 1 .. Len(s) /\ \A k \in 1 .. Len(s) : s[k] \in S
OBVIOUS

(* What the types say of the places an envelope can be in.                 *)
LEMMA Elements ==
    ASSUME Typed
    PROVE  /\ Len(prepared) \in Nat
           /\ \A k \in 1 .. Len(prepared) :
                 prepared[k] \in Item /\ prepared[k].i \in 1 .. N
           /\ Len(window) \in Nat
           /\ \A k \in 1 .. Len(window) :
                 window[k] \in Sent /\ window[k].i \in 1 .. N /\ window[k].st \in SendStates
           /\ Len(outcomes) \in Nat
           /\ \A k \in 1 .. Len(outcomes) :
                 outcomes[k][1] \in 1 .. N /\ outcomes[k][2] \in Verdict
           /\ \A m \in net \cup stream : m.i \in 1 .. N
<1>1. Len(prepared) \in Nat /\ \A k \in 1 .. Len(prepared) : prepared[k] \in Item
  BY Members DEF Typed
<1>2. Len(window) \in Nat /\ \A k \in 1 .. Len(window) : window[k] \in Sent
  BY Members DEF Typed
<1>3. Len(outcomes) \in Nat /\ \A k \in 1 .. Len(outcomes) : outcomes[k] \in Tagged
  BY Members DEF Typed
<1>4. \A x \in Item : x.i \in 1 .. N
  BY DEF Item
<1>5. \A x \in Sent : x.i \in 1 .. N /\ x.st \in SendStates
  BY DEF Sent
<1>6. \A x \in Tagged : x[1] \in 1 .. N /\ x[2] \in Verdict
  BY DEF Tagged
<1>7. \A m \in net \cup stream : m.i \in 1 .. N
  BY DEF Typed, Messages
<1> QED BY <1>1, <1>2, <1>3, <1>4, <1>5, <1>6, <1>7

(* A turn of the loop adds to the one sequence or to the other.            *)
LEMMA PrepareAdds ==
    ASSUME BatchOK, Typed, Covered, Prepare
    PROVE  /\ Turn \in 1 .. N /\ window = <<>> /\ window' = window /\ acks' = acks
           /\ \/ /\ Sendable(batch[Turn])
                 /\ prepared' = Append(prepared, [i |-> Turn, headers |-> Wire(batch[Turn])])
                 /\ outcomes' = outcomes
              \/ /\ ~ Sendable(batch[Turn])
                 /\ \E error \in PrepareError : outcomes' = Append(outcomes, <<Turn, error>>)
                 /\ prepared' = prepared
<1>1. Turn \in 1 .. N /\ window = <<>> /\ window' = window /\ acks' = acks
  BY DEF Covered, Prepare
<1>2. IsEnvelope(batch[Turn])
  BY <1>1 DEF BatchOK
<1>3. PICK order \in Orders(batch[Turn]) :
         LET wire == prepare(batch[Turn], order) IN
         \/ /\ wire.error = None
            /\ prepared' = Append(prepared, [i |-> Turn, headers |-> wire.headers])
            /\ UNCHANGED outcomes
         \/ /\ wire.error # None
            /\ outcomes' = Append(outcomes, <<Turn, wire.error>>)
            /\ UNCHANGED prepared
  BY DEF Prepare
<1> DEFINE wire == prepare(batch[Turn], order)
<1>4. /\ wire.error \in PrepareError \cup {None}
      /\ wire.error = None <=> Sendable(batch[Turn])
      /\ Sendable(batch[Turn]) => wire.headers = Wire(batch[Turn])
  BY <1>2, Prepares
<1> HIDE DEF wire
<1>5. CASE wire.error = None
  BY <1>1, <1>3, <1>4, <1>5 DEF wire
<1>6. CASE wire.error # None
  BY <1>1, <1>3, <1>4, <1>6 DEF wire
<1> QED BY <1>5, <1>6

(* What a window takes, and what it leaves.                                *)
LEMMA WindowTakes ==
    ASSUME Typed, OpenWindow
    PROVE  /\ Take \in 1 .. Len(prepared) /\ Take <= Depth
           /\ Len(window') = Take
           /\ \A k \in 1 .. Take :
                 window'[k] = [i |-> prepared[k].i, headers |-> prepared[k].headers,
                               st |-> "unsent"]
           /\ Len(prepared') = Len(prepared) - Take
           /\ \A k \in 1 .. Len(prepared) - Take : prepared'[k] = prepared[Take + k]
<1>1. Len(prepared) \in Nat /\ Len(prepared) # 0
  BY DEF Typed, OpenWindow
<1>2. Take \in 1 .. Len(prepared) /\ Take <= Depth
  BY <1>1, NatsPublisherAssumption DEF Take, Smaller
<1>3. prepared' = SubSeq(prepared, Take + 1, Len(prepared))
  BY DEF OpenWindow
<1>4. window' = [k \in 1 .. Take |->
                    [i |-> prepared[k].i, headers |-> prepared[k].headers, st |-> "unsent"]]
  BY DEF OpenWindow
<1> HIDE DEF Take
<1>5. Len(window') = Take
  BY <1>2, <1>4
<1>6. /\ Len(prepared') = Len(prepared) - Take
      /\ \A k \in 1 .. Len(prepared) - Take : prepared'[k] = prepared[Take + k]
  <2> DEFINE n == Len(prepared)
             t == Take
  <2>1. n \in Nat /\ t \in 1 .. n /\ n - (t + 1) + 1 = n - t
    BY <1>1, <1>2
  <2>2. \A k \in 1 .. n : prepared[k] \in Item
    BY Elements
  <2> HIDE DEF n, t
  <2>3. /\ Len(prepared') = n - t
        /\ \A k \in 1 .. n - t : prepared'[k] = prepared[(t + 1) + k - 1]
    <3>1. \A k \in t + 1 .. n : prepared[k] \in Item
      BY <2>1, <2>2
    <3>2. t + 1 \in Int /\ n \in Int /\ (~ (t + 1 <= n) => n - t = 0)
      BY <2>1
    <3>3. prepared' = SubSeq(prepared, t + 1, n)
      BY <1>3 DEF n, t
    <3>4. /\ Len(SubSeq(prepared, t + 1, n)) = IF t + 1 <= n THEN n - (t + 1) + 1 ELSE 0
          /\ \A k \in 1 .. n - (t + 1) + 1 :
                SubSeq(prepared, t + 1, n)[k] = prepared[(t + 1) + k - 1]
      BY <3>1, <3>2, SubSeqIs
    <3> QED BY <2>1, <3>2, <3>3, <3>4
  <2>4. \A k \in 1 .. n - t : (t + 1) + k - 1 = t + k
    BY <2>1
  <2> QED BY <2>3, <2>4 DEF n, t
<1> QED BY <1>2, <1>4, <1>5, <1>6

(* A send changes the state of one item of the window.                     *)
LEMMA SendChanges ==
    ASSUME Typed, NEW k \in 1 .. Len(window), Send(k) \/ SendTimesOut(k)
    PROVE  /\ pc = "send" /\ pc' \in {"send", "acks"}
           /\ \E outcome \in SendStates \ {"unsent"} :
                 /\ window' = [window EXCEPT ![k].st = outcome]
                 /\ outcome = "MaxPayloadExceeded" <=> outcome # "Timeout" /\ TooLarge(k)
           /\ window[k].st = "unsent"
           /\ pc' = "acks" => \A j \in 1 .. Len(window) : j # k => window[j].st # "unsent"
           /\ \/ net' = net
              \/ ~ TooLarge(k) /\ net' = net \cup {Message(k)}
           /\ UNCHANGED <<resolver, batch, round, prepared, late, acks, in_time, outcomes,
                          results, stream>>
<1>1. PICK outcome \in SendStates \ {"unsent"} :
         /\ SendEnds(k, outcome)
         /\ outcome = "MaxPayloadExceeded" <=> outcome # "Timeout" /\ TooLarge(k)
  <2>1. CASE Send(k)
    BY <2>1 DEF Send, SendStates
  <2>2. CASE SendTimesOut(k)
    BY <2>2 DEF SendTimesOut, SendStates
  <2> QED BY <2>1, <2>2
<1>2. \/ net' = net
      \/ ~ TooLarge(k) /\ net' = net \cup {Message(k)}
  BY DEF Send, SendTimesOut, MayHaveLeft
<1>3. pc = "send" /\ NextUnsent(k)
  BY DEF Send, SendTimesOut
<1>4. pc' = "acks" => \A j \in 1 .. Len(window) : j # k => window[j].st # "unsent"
  <2>1. Len(window) \in Nat
    BY DEF Typed
  <2>2. pc' = "acks" => k = Len(window)
    BY <1>1 DEF SendEnds
  <2> QED BY <1>3, <2>1, <2>2 DEF NextUnsent
<1> QED BY <1>1, <1>2, <1>3, <1>4, Zenon DEF SendEnds, NextUnsent

(* The head of the window gets its verdict.                                *)
LEMMA AwaitAnswers ==
    ASSUME Typed, Covered, AwaitAck
    PROVE  /\ window # <<>> /\ window' = Tail(window)
           /\ \E result \in Verdict \ PrepareError :
                 /\ outcomes' = Append(outcomes, <<window[1].i, result>>)
                 /\ \/ window[1].st = "sent" /\ acks[window[1].i] # None
                       /\ result = acks[window[1].i]
                    \/ window[1].st = "sent" /\ acks[window[1].i] = None
                       /\ result = "Timeout"
                    \/ window[1].st # "sent" /\ result = window[1].st
<1>1. window # <<>> /\ Len(window) \in Nat \ {0} /\ 1 \in 1 .. Len(window)
  BY DEF Typed, AwaitAck
<1>2. Head(window) = window[1]
  BY <1>1 DEF Typed
<1>3. window[1].i \in 1 .. N /\ window[1].st \in SendStates \ {"unsent"}
  <2>1. window[1].i \in 1 .. N /\ window[1].st \in SendStates
    BY <1>1, Elements
  <2>2. window[1].st # "unsent"
    <3>1. pc = "acks"
      BY DEF AwaitAck
    <3> QED BY <1>1, <3>1 DEF Covered
  <2> QED BY <2>1, <2>2
<1>4. PICK result \in IF window[1].st = "sent" THEN AckResult(window[1].i)
                      ELSE {window[1].st} :
         outcomes' = Append(outcomes, <<window[1].i, result>>)
  BY <1>2, Zenon DEF AwaitAck
<1>5. CASE window[1].st = "sent" /\ acks[window[1].i] # None
  <2>1. result = acks[window[1].i]
    BY <1>4, <1>5 DEF AckResult
  <2>2. result \in Verdict \ PrepareError
    BY <1>3, <1>5, <2>1 DEF Typed, Verdict, PrepareError, MapError, Answers
  <2> QED BY <1>1, <1>4, <1>5, <2>1, <2>2 DEF AwaitAck
<1>6. CASE window[1].st = "sent" /\ acks[window[1].i] = None
  <2>1. result = "Timeout"
    BY <1>4, <1>6 DEF AckResult
  <2>2. result \in Verdict \ PrepareError
    BY <2>1 DEF Verdict, PrepareError, MapError
  <2> QED BY <1>1, <1>4, <1>6, <2>1, <2>2 DEF AwaitAck
<1>7. CASE window[1].st # "sent"
  <2>1. result = window[1].st
    BY <1>4, <1>7
  <2>2. result \in Verdict \ PrepareError
    BY <1>3, <1>7, <2>1 DEF Verdict, PrepareError, MapError, SendStates
  <2> QED BY <1>1, <1>4, <1>7, <2>1, <2>2 DEF AwaitAck
<1> QED BY <1>5, <1>6, <1>7

(* An answer is heard by a send that awaits it, once.                      *)
LEMMA ResolveHears ==
    ASSUME Typed, NEW i \in 1 .. N, NEW answer \in Answers \cup {None}, Resolve(i, answer)
    PROVE  \/ acks' = acks /\ in_time' = in_time
           \/ /\ answer # None /\ acks[i] = None
              /\ \E k \in 1 .. Len(window) : window[k].i = i /\ window[k].st = "sent"
              /\ acks' = [acks EXCEPT ![i] = answer]
              /\ in_time' \in {in_time, in_time \cup {i}}
BY DEF Resolve

(* Appending, and taking the head off.                                     *)
LEMMA Appended ==
    ASSUME NEW S, NEW s \in Seq(S), NEW x \in S
    PROVE  /\ Append(s, x) \in Seq(S) /\ Len(Append(s, x)) = Len(s) + 1
           /\ \A k \in 1 .. Len(s) : Append(s, x)[k] = s[k]
           /\ Append(s, x)[Len(s) + 1] = x
OBVIOUS

(* The same of an element that need not be in S.                           *)
LEMMA AppendedAny ==
    ASSUME NEW S, NEW s \in Seq(S), NEW x
    PROVE  /\ Len(s) \in Nat /\ Len(Append(s, x)) = Len(s) + 1
           /\ \A k \in 1 .. Len(s) : Append(s, x)[k] = s[k]
           /\ Append(s, x)[Len(s) + 1] = x
OBVIOUS

(* What Tail leaves of a sequence that has a first element.                *)
LEMMA Behead ==
    ASSUME NEW S, NEW s \in Seq(S), s # <<>>
    PROVE  /\ Tail(s) \in Seq(S) /\ Len(Tail(s)) = Len(s) - 1 /\ Len(s) \in Nat \ {0}
           /\ \A k \in 1 .. Len(s) - 1 : Tail(s)[k] = s[k + 1]
OBVIOUS

(* Every step keeps the types of the batch's state.                        *)
LEMMA TypedStep ==
    ASSUME BatchOK, Typed, Covered, Next
    PROVE  Typed'
<1>1. /\ N' = N /\ Headers' = Headers /\ Item' = Item /\ Sent' = Sent
      /\ Tagged' = Tagged /\ Messages' = Messages
  BY SameBatch, Zenon DEF Item, Sent, Tagged, Messages
<1>2. CASE Prepare
  <2>1. Turn \in 1 .. N
    BY <1>2, PrepareAdds
  <2>2. [i |-> Turn, headers |-> Wire(batch[Turn])] \in Item
    BY <2>1 DEF Item, Headers
  <2>3. \A error \in PrepareError : <<Turn, error>> \in Tagged
    BY <2>1 DEF Tagged, Verdict
  <2>4. prepared' \in Seq(Item) /\ outcomes' \in Seq(Tagged)
    <3>1. prepared \in Seq(Item) /\ outcomes \in Seq(Tagged)
      BY DEF Typed
    <3>2. \/ /\ prepared' = Append(prepared, [i |-> Turn, headers |-> Wire(batch[Turn])])
             /\ outcomes' = outcomes
          \/ /\ \E error \in PrepareError : outcomes' = Append(outcomes, <<Turn, error>>)
             /\ prepared' = prepared
      BY <1>2, PrepareAdds
    <3> QED BY <2>2, <2>3, <3>1, <3>2, Appended, ZenonT(60)
  <2> QED BY <1>1, <1>2, <2>4 DEF Typed, Prepare
<1>3. CASE OpenWindow
  <2>1. window' \in Seq(Sent) /\ Len(window') <= Depth
    <3>1. Take \in 1 .. Len(prepared) /\ Take <= Depth /\ Take \in Nat /\ Len(window') = Take
      BY <1>3, WindowTakes, Elements
    <3>2. \A k \in 1 .. Take :
             [i |-> prepared[k].i, headers |-> prepared[k].headers, st |-> "unsent"] \in Sent
      <4> SUFFICES ASSUME NEW k \in 1 .. Take
                   PROVE  [i |-> prepared[k].i, headers |-> prepared[k].headers,
                           st |-> "unsent"] \in Sent
        OBVIOUS
      <4>1. prepared[k] \in Item
        BY <3>1, Elements
      <4> QED BY <4>1 DEF Item, Sent, SendStates
    <3>3. window' = [k \in 1 .. Take |->
                        [i |-> prepared[k].i, headers |-> prepared[k].headers,
                         st |-> "unsent"]]
      BY <1>3 DEF OpenWindow
    <3>4. window' \in [1 .. Take -> Sent]
      BY <3>2, <3>3
    <3> QED BY <3>1, <3>4
  <2>2. prepared' \in Seq(Item)
    <3>1. Take + 1 \in Int /\ Len(prepared) \in Int
          /\ \A k \in Take + 1 .. Len(prepared) : k \in 1 .. Len(prepared)
      BY <1>3, WindowTakes, Elements
    <3>2. prepared' = SubSeq(prepared, Take + 1, Len(prepared))
      BY <1>3 DEF OpenWindow
    <3>3. \A k \in Take + 1 .. Len(prepared) : prepared[k] \in Item
      BY <3>1, Elements
    <3> QED BY <3>1, <3>2, <3>3, SubSeqIs
  <2> QED BY <1>1, <1>3, <2>1, <2>2, Zenon DEF Typed, OpenWindow
<1>4. ASSUME NEW k \in 1 .. Len(window), Send(k) \/ SendTimesOut(k)
      PROVE  Typed'
  <2>1. PICK outcome \in SendStates : window' = [window EXCEPT ![k].st = outcome]
    BY <1>4, SendChanges
  <2>2. window[k] \in Sent
    BY Elements
  <2>3. [window[k] EXCEPT !.st = outcome] \in Sent
    BY <2>2 DEF Sent
  <2>4. window' \in Seq(Sent) /\ Len(window') = Len(window)
    BY <2>1, <2>3 DEF Typed
  <2>5. Message(k) \in Messages
    <3>1. round \in Nat
      BY NatsPublisherAssumption DEF Typed
    <3> QED BY <2>2, <3>1, Zenon DEF Message, Messages, Sent
  <2>6. net' \in SUBSET Messages
    BY <1>4, <2>5, SendChanges DEF Typed
  <2>7. /\ pc' \in {"send", "acks"}
        /\ UNCHANGED <<round, prepared, late, acks, in_time, outcomes, results, stream>>
    BY <1>4, SendChanges
  <2> QED BY <1>1, <2>4, <2>6, <2>7 DEF Typed
<1>5. CASE AwaitAck
  <2>1. window' \in Seq(Sent) /\ Len(window') <= Depth
    <3>1. window \in Seq(Sent) /\ window # <<>> /\ window' = Tail(window)
      BY <1>5, AwaitAnswers DEF Typed
    <3>2. window' \in Seq(Sent) /\ Len(window') = Len(window) - 1 /\ Len(window) \in Nat
      BY <3>1, Behead
    <3> QED BY <3>2, NatsPublisherAssumption DEF Typed
  <2>2. window[1].i \in 1 .. N
    BY <1>5, AwaitAnswers, Behead, Elements DEF Typed
  <2>3. PICK result \in Verdict : outcomes' = Append(outcomes, <<window[1].i, result>>)
    BY <1>5, AwaitAnswers
  <2>4. <<window[1].i, result>> \in Tagged
    BY <2>2 DEF Tagged
  <2>5. outcomes' \in Seq(Tagged)
    BY <2>3, <2>4, Appended DEF Typed
  <2> QED BY <1>1, <1>5, <2>1, <2>5 DEF Typed, AwaitAck
<1>6. CASE WindowDone
  BY <1>1, <1>6 DEF Typed, WindowDone
<1>7. CASE Return
  BY <1>1, <1>7 DEF Typed, Return
<1>8. CASE PublishAgain
  <2>1. round' \in 1 .. MaxRounds
    BY <1>8, NatsPublisherAssumption DEF Typed, PublishAgain
  <2>2. acks' \in [1 .. N -> Answers \cup {None}]
    BY <1>8 DEF PublishAgain
  <2>3. outcomes' \in Seq(Tagged)
    BY <1>8 DEF PublishAgain
  <2> QED BY <1>1, <1>8, <2>1, <2>2, <2>3, Zenon DEF Typed, PublishAgain
<1>9. CASE DeadlinePasses
  BY <1>1, <1>9 DEF Typed, DeadlinePasses
<1>10. ASSUME NEW i \in 1 .. N, NEW answer \in Answers \cup {None}, Resolve(i, answer)
       PROVE  acks' \in [1 .. N -> Answers \cup {None}] /\ in_time' \in SUBSET (1 .. N)
  <2>1. acks \in [1 .. N -> Answers \cup {None}] /\ in_time \in SUBSET (1 .. N)
    BY DEF Typed
  <2>2. \/ acks' = acks /\ in_time' = in_time
        \/ /\ acks' = [acks EXCEPT ![i] = answer]
           /\ in_time' \in {in_time, in_time \cup {i}}
    BY <1>10, ResolveHears
  <2> QED BY <2>1, <2>2, Zenon
<1>11. ASSUME NEW i \in 1 .. N, AckFails(i)
       PROVE  Typed'
  <2>1. PICK error \in Answers : Resolve(i, error)
    BY <1>11 DEF AckFails, Answers
  <2>2. acks' \in [1 .. N -> Answers \cup {None}] /\ in_time' \in SUBSET (1 .. N)
    BY <1>10, <2>1
  <2> QED BY <1>1, <1>11, <2>2 DEF Typed, AckFails
<1>12. ASSUME NEW message \in net, Stores(message) \/ Refuses(message)
       PROVE  Typed'
  <2>1. message \in Messages /\ message.i \in 1 .. N
    BY Elements DEF Typed
  <2>2. PICK answer \in Answers \cup {None} : Resolve(message.i, answer)
    BY <1>12 DEF Stores, Refuses, Answered, Answers
  <2>3. acks' \in [1 .. N -> Answers \cup {None}] /\ in_time' \in SUBSET (1 .. N)
    BY <1>10, <2>1, <2>2
  <2>4. /\ net' \in SUBSET Messages /\ stream' \in SUBSET Messages
        /\ UNCHANGED <<round, pc, prepared, window, late, outcomes>>
    BY <1>12, <2>1 DEF Stores, Refuses, Typed
  <2> QED BY <1>1, <2>3, <2>4 DEF Typed
<1> QED BY <1>2, <1>3, <1>4, <1>5, <1>6, <1>7, <1>8, <1>9, <1>11, <1>12
           DEF Next, Runs

(* Every envelope stays in one place as the loop, the windows and the acks *)
(* move it on.                                                             *)
LEMMA OnceStep ==
    ASSUME BatchOK, Typed, Once, Covered, Next
    PROVE  Once' /\ Covered'
<1>1. N' = N /\ N \in Nat
  BY SameBatch DEF BatchOK, N
<1>2. ASSUME UNCHANGED <<prepared, window, outcomes>>
      PROVE  /\ Once' /\ Turn' = Turn
             /\ \A i : (Waits(i)' <=> Waits(i)) /\ (Flies(i)' <=> Flies(i))
                       /\ (Ended(i)' <=> Ended(i))
  <2>1. \A i : (Waits(i)' <=> Waits(i)) /\ (Flies(i)' <=> Flies(i)) /\ (Ended(i)' <=> Ended(i))
    BY <1>2 DEF Waits, Flies, Ended
  <2> QED BY <1>1, <1>2, <2>1 DEF Once, Turn
<1>3. CASE Prepare
  <2>1. /\ pc = "prepare" /\ Turn \in 1 .. N /\ window = <<>> /\ window' = window
        /\ \A i \in 1 .. N : (Waits(i) \/ Ended(i)) <=> i < Turn
        /\ pc' = IF Turn = N THEN "windows" ELSE "prepare"
    BY <1>3 DEF Prepare, Covered
  <2>2. /\ Len(prepared) \in Nat /\ Len(outcomes) \in Nat /\ Len(window) = 0
        /\ Turn = Len(prepared) + Len(outcomes) + 1
    BY <2>1, Elements DEF Turn
  <2>3. \A i : ~ Flies(i) /\ ~ Flies(i)'
    BY <2>1, <2>2 DEF Flies
  <2>4. \A k \in 1 .. Len(prepared) : prepared[k].i \in 1 .. N /\ prepared[k].i # Turn
    <3> SUFFICES ASSUME NEW k \in 1 .. Len(prepared)
                 PROVE  prepared[k].i \in 1 .. N /\ prepared[k].i # Turn
      OBVIOUS
    <3>1. prepared[k].i \in 1 .. N /\ Waits(prepared[k].i)
      BY Elements DEF Waits
    <3>2. prepared[k].i < Turn
      BY <2>1, <3>1
    <3> QED BY <2>1, <3>1, <3>2
  <2>5. \A k \in 1 .. Len(outcomes) : outcomes[k][1] \in 1 .. N /\ outcomes[k][1] # Turn
    <3> SUFFICES ASSUME NEW k \in 1 .. Len(outcomes)
                 PROVE  outcomes[k][1] \in 1 .. N /\ outcomes[k][1] # Turn
      OBVIOUS
    <3>1. outcomes[k][1] \in 1 .. N /\ Ended(outcomes[k][1])
      BY Elements DEF Ended
    <3>2. outcomes[k][1] < Turn
      BY <2>1, <3>1
    <3> QED BY <2>1, <3>1, <3>2
  <2>6. CASE \E x : x.i = Turn /\ prepared' = Append(prepared, x) /\ outcomes' = outcomes
    <3>1. PICK x : x.i = Turn /\ prepared' = Append(prepared, x) /\ outcomes' = outcomes
      BY <2>6
    <3>2. /\ Len(prepared') = Len(prepared) + 1
          /\ \A k \in 1 .. Len(prepared) : prepared'[k] = prepared[k]
          /\ prepared'[Len(prepared) + 1] = x
      BY <3>1 DEF Typed
    <3>3. Turn' = Turn + 1
      BY <2>2, <3>1, <3>2 DEF Turn
    <3>4. \A i : (Waits(i)' <=> Waits(i) \/ i = Turn) /\ (Ended(i)' <=> Ended(i))
      BY <2>2, <3>1, <3>2 DEF Waits, Ended
    <3>5. \A j, k \in 1 .. Len(prepared') : prepared'[j].i = prepared'[k].i => j = k
      BY <2>2, <2>4, <3>1, <3>2 DEF Once
    <3>6. ~ Waits(Turn) /\ ~ Ended(Turn)
      BY <2>4, <2>5 DEF Waits, Ended
    <3>7. Once'
      <4>1. \A i \in 1 .. N : ~ (Waits(i)' /\ Ended(i)')
        BY <3>4, <3>6 DEF Once
      <4> QED BY <1>1, <2>1, <2>3, <3>1, <3>5, <4>1 DEF Once
    <3>8. \A i \in 1 .. N : (Waits(i)' \/ Ended(i)') <=> i < Turn + 1
      BY <2>1, <3>4
    <3>9. Covered'
      <4>1. CASE Turn = N
        <5>1. \A i \in 1 .. N : Waits(i)' \/ Ended(i)'
          BY <1>1, <3>8, <4>1
        <5> QED BY <1>1, <2>1, <4>1, <5>1 DEF Covered
      <4>2. CASE Turn # N
        <5>1. Turn' \in 1 .. N'
          BY <1>1, <2>1, <3>3, <4>2
        <5>2. \A i \in 1 .. N' : (Waits(i)' \/ Ended(i)') <=> i < Turn'
          BY <1>1, <3>3, <3>8
        <5> QED BY <2>1, <4>2, <5>1, <5>2 DEF Covered
      <4> QED BY <4>1, <4>2
    <3> QED BY <3>7, <3>9
  <2>7. CASE /\ prepared' = prepared
             /\ \E error : outcomes' = Append(outcomes, <<Turn, error>>)
    <3>1. PICK error : outcomes' = Append(outcomes, <<Turn, error>>)
      BY <2>7
    <3>2. /\ Len(outcomes') = Len(outcomes) + 1
          /\ \A k \in 1 .. Len(outcomes) : outcomes'[k] = outcomes[k]
          /\ outcomes'[Len(outcomes) + 1] = <<Turn, error>>
      BY <3>1 DEF Typed
    <3>3. Turn' = Turn + 1
      BY <2>2, <2>7, <3>2 DEF Turn
    <3>4. \A i : (Ended(i)' <=> Ended(i) \/ i = Turn) /\ (Waits(i)' <=> Waits(i))
      BY <2>2, <2>7, <3>2 DEF Waits, Ended
    <3>5. \A j, k \in 1 .. Len(outcomes') : outcomes'[j][1] = outcomes'[k][1] => j = k
      <4> TAKE j, k \in 1 .. Len(outcomes')
      <4>1. CASE j \in 1 .. Len(outcomes) /\ k \in 1 .. Len(outcomes)
        BY <3>2, <4>1 DEF Once
      <4>2. CASE j = Len(outcomes) + 1 /\ k \in 1 .. Len(outcomes)
        BY <2>5, <3>2, <4>2
      <4>3. CASE j \in 1 .. Len(outcomes) /\ k = Len(outcomes) + 1
        BY <2>5, <3>2, <4>3
      <4>4. CASE j = Len(outcomes) + 1 /\ k = Len(outcomes) + 1
        BY <4>4
      <4>5. /\ j \in 1 .. Len(outcomes) \/ j = Len(outcomes) + 1
            /\ k \in 1 .. Len(outcomes) \/ k = Len(outcomes) + 1
        BY <2>2, <3>2
      <4> QED BY <4>1, <4>2, <4>3, <4>4, <4>5, Zenon
    <3>6. ~ Waits(Turn) /\ ~ Ended(Turn)
      BY <2>4, <2>5 DEF Waits, Ended
    <3>7. Once'
      <4>1. \A i \in 1 .. N : ~ (Waits(i)' /\ Ended(i)')
        BY <3>4, <3>6 DEF Once
      <4> QED BY <1>1, <2>1, <2>3, <2>7, <3>5, <4>1 DEF Once
    <3>8. \A i \in 1 .. N : (Waits(i)' \/ Ended(i)') <=> i < Turn + 1
      BY <2>1, <3>4
    <3>9. Covered'
      <4>1. CASE Turn = N
        <5>1. \A i \in 1 .. N : Waits(i)' \/ Ended(i)'
          BY <1>1, <3>8, <4>1
        <5> QED BY <1>1, <2>1, <4>1, <5>1 DEF Covered
      <4>2. CASE Turn # N
        <5>1. Turn' \in 1 .. N'
          BY <1>1, <2>1, <3>3, <4>2
        <5>2. \A i \in 1 .. N' : (Waits(i)' \/ Ended(i)') <=> i < Turn'
          BY <1>1, <3>3, <3>8
        <5> QED BY <2>1, <4>2, <5>1, <5>2 DEF Covered
      <4> QED BY <4>1, <4>2
    <3> QED BY <3>7, <3>9
  <2> QED BY <1>3, <2>6, <2>7, PrepareAdds
<1>4. CASE OpenWindow
  <2>1. pc = "windows" /\ pc' = "send" /\ window = <<>> /\ outcomes' = outcomes
    BY <1>4 DEF OpenWindow, Covered
  <2>2. /\ Len(prepared) \in Nat /\ Take \in 1 .. Len(prepared) /\ Len(window') = Take
        /\ Len(prepared') = Len(prepared) - Take
        /\ \A k \in 1 .. Take : window'[k].i = prepared[k].i /\ k \in 1 .. Len(prepared)
        /\ \A k \in 1 .. Len(prepared) - Take :
              prepared'[k] = prepared[Take + k] /\ Take + k \in 1 .. Len(prepared)
    BY <1>4, WindowTakes, Elements
  <2>3. \A i : (Waits(i)' => Waits(i)) /\ (Flies(i)' => Waits(i)) /\ (Ended(i)' <=> Ended(i))
    BY <2>1, <2>2, ZenonT(30) DEF Waits, Flies, Ended
  <2>4. \A i : Waits(i) => Waits(i)' \/ Flies(i)'
    <3> SUFFICES ASSUME NEW i, NEW k \in 1 .. Len(prepared), prepared[k].i = i
                 PROVE  Waits(i)' \/ Flies(i)'
      BY DEF Waits
    <3>1. CASE k <= Take
      <4>1. k \in 1 .. Take
        BY <2>2, <3>1
      <4>2. k \in 1 .. Len(window') /\ window'[k].i = i
        BY <2>2, <4>1
      <4> QED BY <4>2 DEF Flies
    <3>2. CASE ~ (k <= Take)
      <4>1. k - Take \in 1 .. Len(prepared) - Take /\ Take + (k - Take) = k
        BY <2>2, <3>2
      <4>2. k - Take \in 1 .. Len(prepared') /\ prepared'[k - Take].i = i
        BY <2>2, <4>1
      <4> QED BY <4>2 DEF Waits
    <3> QED BY <3>1, <3>2
  <2>5. \A i : ~ (Waits(i)' /\ Flies(i)')
    <3> SUFFICES ASSUME NEW j \in 1 .. Len(prepared) - Take, NEW k \in 1 .. Take,
                        prepared'[j].i = window'[k].i
                 PROVE  FALSE
      BY <2>2 DEF Waits, Flies
    <3>1. prepared[Take + j].i = prepared[k].i /\ Take + j # k
      BY <2>2
    <3> QED BY <2>2, <3>1 DEF Once
  <2>6. /\ \A j, k \in 1 .. Len(prepared') : prepared'[j].i = prepared'[k].i => j = k
        /\ \A j, k \in 1 .. Len(window') : window'[j].i = window'[k].i => j = k
    <3>1. ASSUME NEW j \in 1 .. Len(prepared'), NEW k \in 1 .. Len(prepared'),
                 prepared'[j].i = prepared'[k].i
          PROVE  j = k
      <4>1. j \in 1 .. Len(prepared) - Take /\ k \in 1 .. Len(prepared) - Take
        BY <2>2, <3>1
      <4>2. /\ Take + j \in 1 .. Len(prepared) /\ Take + k \in 1 .. Len(prepared)
            /\ prepared[Take + j].i = prepared[Take + k].i
        BY <2>2, <3>1, <4>1, ZenonT(30)
      <4>3. Take + j = Take + k
        BY <4>2 DEF Once
      <4> QED BY <2>2, <4>1, <4>3
    <3>2. ASSUME NEW j \in 1 .. Len(window'), NEW k \in 1 .. Len(window'),
                 window'[j].i = window'[k].i
          PROVE  j = k
      BY <2>2, <3>2 DEF Once
    <3> QED BY <3>1, <3>2
  <2>7. Once'
    BY <1>1, <2>1, <2>3, <2>5, <2>6 DEF Once
  <2>8. Covered'
    <3>1. \A i \in 1 .. N : Waits(i) \/ Ended(i)
      BY <2>1 DEF Covered, Flies
    <3> QED BY <1>1, <2>1, <2>3, <2>4, <3>1 DEF Covered
  <2> QED BY <2>7, <2>8
<1>5. ASSUME NEW k \in 1 .. Len(window), Send(k) \/ SendTimesOut(k)
      PROVE  Once' /\ Covered'
  <2>1. PICK outcome \in SendStates \ {"unsent"} : window' = [window EXCEPT ![k].st = outcome]
    BY <1>5, SendChanges
  <2>2. Len(window) \in Nat /\ \A j \in 1 .. Len(window) : window[j] \in Sent
    BY Elements
  <2>3. /\ Len(window') = Len(window)
        /\ \A j \in 1 .. Len(window) : window'[j].i = window[j].i
        /\ \A j \in 1 .. Len(window) : window'[j].st = IF j = k THEN outcome ELSE window[j].st
    <3>1. DOMAIN window = 1 .. Len(window) /\ Len(window') = Len(window)
      BY <2>1, Members DEF Typed
    <3>2. [window[k] EXCEPT !.st = outcome].i = window[k].i
          /\ [window[k] EXCEPT !.st = outcome].st = outcome
      BY <2>2 DEF Sent
    <3> QED BY <2>1, <3>1, <3>2
  <2>4. /\ pc = "send" /\ pc' \in {"send", "acks"} /\ prepared' = prepared
        /\ outcomes' = outcomes
        /\ pc' = "acks" => \A j \in 1 .. Len(window) : j # k => window[j].st # "unsent"
    BY <1>5, SendChanges
  <2>5. \A i : (Waits(i)' <=> Waits(i)) /\ (Flies(i)' <=> Flies(i)) /\ (Ended(i)' <=> Ended(i))
    BY <2>3, <2>4 DEF Waits, Flies, Ended
  <2>6. Once'
    BY <1>1, <2>3, <2>4, <2>5, ZenonT(60) DEF Once
  <2>7. Covered'
    BY <1>1, <2>3, <2>4, <2>5 DEF Covered
  <2> QED BY <2>6, <2>7
<1>6. CASE AwaitAck
  <2>1. PICK result \in Verdict : outcomes' = Append(outcomes, <<window[1].i, result>>)
    BY <1>6, AwaitAnswers
  <2>2. /\ Len(outcomes) \in Nat /\ Len(outcomes') = Len(outcomes) + 1
        /\ \A k \in 1 .. Len(outcomes) : outcomes'[k] = outcomes[k]
        /\ outcomes'[Len(outcomes) + 1] = <<window[1].i, result>>
    <3> DEFINE pair == <<window[1].i, result>>
    <3>1. outcomes \in Seq(Tagged) /\ outcomes' = Append(outcomes, pair)
      BY <2>1 DEF Typed
    <3> HIDE DEF pair
    <3>2. /\ Len(outcomes) \in Nat /\ Len(outcomes') = Len(outcomes) + 1
          /\ \A k \in 1 .. Len(outcomes) : outcomes'[k] = outcomes[k]
          /\ outcomes'[Len(outcomes) + 1] = pair
      BY <3>1, AppendedAny, Zenon
    <3> QED BY <3>2 DEF pair
  <2>3. /\ Len(window) \in Nat \ {0} /\ Len(window') = Len(window) - 1
        /\ \A k \in 1 .. Len(window) - 1 : window'[k] = window[k + 1]
    BY <1>6, AwaitAnswers, Behead, Zenon DEF Typed
  <2>4. prepared' = prepared /\ pc = "acks" /\ pc' = "acks"
    BY <1>6 DEF AwaitAck
  <2>5. \A i : (Waits(i)' <=> Waits(i)) /\ (Ended(i)' <=> Ended(i) \/ i = window[1].i)
    BY <2>2, <2>4 DEF Waits, Ended
  <2>6. \A i : Flies(i) <=> Flies(i)' \/ i = window[1].i
    <3>1. ASSUME NEW i, Flies(i), i # window[1].i PROVE Flies(i)'
      <4>1. PICK k \in 1 .. Len(window) : window[k].i = i
        BY <3>1 DEF Flies
      <4>2. k # 1
        BY <3>1, <4>1
      <4>3. k - 1 \in 1 .. Len(window') /\ window'[k - 1] = window[(k - 1) + 1] /\ (k - 1) + 1 = k
        BY <2>3, <4>2
      <4>4. window'[k - 1].i = i
        BY <4>1, <4>3
      <4> QED BY <4>3, <4>4 DEF Flies
    <3>2. ASSUME NEW i, Flies(i)' PROVE Flies(i)
      <4>1. PICK k \in 1 .. Len(window') : window'[k].i = i
        BY <3>2 DEF Flies
      <4>2. k + 1 \in 1 .. Len(window) /\ window'[k] = window[k + 1]
        BY <2>3
      <4> QED BY <4>1, <4>2 DEF Flies
    <3>3. Flies(window[1].i)
      <4>1. 1 \in 1 .. Len(window)
        BY <2>3
      <4> QED BY <4>1 DEF Flies
    <3> QED BY <3>1, <3>2, <3>3
  <2>7. /\ window[1].i \in 1 .. N
        /\ Flies(window[1].i) /\ ~ Waits(window[1].i) /\ ~ Ended(window[1].i)
    <3>1. 1 \in 1 .. Len(window)
      BY <2>3
    <3>2. window[1].i \in 1 .. N
      BY <3>1, Elements
    <3> QED BY <2>6, <3>2 DEF Once
  <2>8. \A x : x = window[1].i => ~ Flies(x)'
    <3> SUFFICES ASSUME NEW x, x = window[1].i, Flies(x)' PROVE FALSE
      OBVIOUS
    <3>1. PICK k \in 1 .. Len(window') : window'[k].i = x
      BY DEF Flies
    <3>2. k + 1 \in 1 .. Len(window) /\ window'[k] = window[k + 1] /\ 1 \in 1 .. Len(window)
      BY <2>3
    <3>3. k + 1 = 1
      BY <3>1, <3>2 DEF Once
    <3> QED BY <2>3, <3>3
  <2>9. \A j, k \in 1 .. Len(window') : window'[j].i = window'[k].i => j = k
    <3> SUFFICES ASSUME NEW j \in 1 .. Len(window) - 1, NEW k \in 1 .. Len(window) - 1,
                        window[j + 1].i = window[k + 1].i
                 PROVE  j = k
      BY <2>3
    <3>1. j + 1 \in 1 .. Len(window) /\ k + 1 \in 1 .. Len(window)
      BY <2>3
    <3>2. j + 1 = k + 1
      BY <3>1 DEF Once
    <3> QED BY <3>2
  <2>10. \A j, k \in 1 .. Len(outcomes') : outcomes'[j][1] = outcomes'[k][1] => j = k
    <3>1. \A k \in 1 .. Len(outcomes) : outcomes[k][1] # window[1].i
      BY <2>7 DEF Ended
    <3>2. \A k \in 1 .. Len(outcomes') :
             \/ k \in 1 .. Len(outcomes) /\ outcomes'[k][1] = outcomes[k][1]
             \/ k = Len(outcomes) + 1 /\ outcomes'[k][1] = window[1].i
      BY <2>2
    <3> QED BY <3>1, <3>2 DEF Once
  <2>11. Once'
    <3>1. \A i \in 1 .. N : ~ (Waits(i)' /\ Flies(i)') /\ ~ (Waits(i)' /\ Ended(i)')
                            /\ ~ (Flies(i)' /\ Ended(i)')
      BY <2>5, <2>6, <2>7, <2>8 DEF Once
    <3> QED BY <1>1, <2>4, <2>9, <2>10, <3>1 DEF Once
  <2>12. Covered'
    <3>1. \A k \in 1 .. Len(window') : window'[k].st # "unsent"
      <4>1. \A k \in 1 .. Len(window') :
               k + 1 \in 1 .. Len(window) /\ window'[k] = window[k + 1]
        BY <2>3
      <4> QED BY <2>4, <4>1 DEF Covered
    <3>2. \A i \in 1 .. N : Waits(i)' \/ Flies(i)' \/ Ended(i)'
      BY <2>4, <2>5, <2>6 DEF Covered
    <3> QED BY <1>1, <2>4, <3>1, <3>2 DEF Covered
  <2> QED BY <2>11, <2>12
<1>7. CASE WindowDone
  BY <1>1, <1>2, <1>7 DEF Covered, WindowDone
<1>8. CASE Return
  BY <1>1, <1>2, <1>8 DEF Covered, Return
<1>9. CASE PublishAgain
  <2>1. /\ prepared = <<>> /\ window = <<>> /\ prepared' = <<>> /\ window' = <<>>
        /\ outcomes' = <<>> /\ pc' = "prepare" /\ N # 0
    BY <1>1, <1>9 DEF PublishAgain, Covered
  <2>2. \A i : ~ Waits(i)' /\ ~ Flies(i)' /\ ~ Ended(i)'
    BY <2>1 DEF Waits, Flies, Ended
  <2>3. Turn' = 1
    BY <2>1 DEF Turn
  <2> QED BY <1>1, <2>1, <2>2, <2>3 DEF Once, Covered
<1>10. ASSUME UNCHANGED <<pc, prepared, window, outcomes>> PROVE Once' /\ Covered'
  BY <1>1, <1>2, <1>10 DEF Covered
<1>11. CASE DeadlinePasses
  BY <1>10, <1>11 DEF DeadlinePasses
<1>12. ASSUME NEW i \in 1 .. N, AckFails(i) PROVE Once' /\ Covered'
  BY <1>10, <1>12 DEF AckFails
<1>13. ASSUME NEW message \in net, Stores(message) \/ Refuses(message)
       PROVE  Once' /\ Covered'
  BY <1>10, <1>13 DEF Stores, Refuses
<1> QED BY <1>3, <1>4, <1>5, <1>6, <1>7, <1>8, <1>9, <1>11, <1>12, <1>13
           DEF Next, Runs

=============================================================================
