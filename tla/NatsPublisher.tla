---------------------------- MODULE NatsPublisher ----------------------------
(***************************************************************************)
(* NatsPublisher::publish_batch: sends go out in windows, each with one    *)
(* deadline, and results come back by position; publish is a batch of one. *)
(* JetStream stores, refuses, answers late or not at all, and suppresses   *)
(* what carries a Nats-Msg-Id it has seen.  The caller publishes a batch   *)
(* again when it failed.                                                   *)
(***************************************************************************)
EXTENDS NatsEnvelopeMapper

CONSTANTS
    Depth,      \* NatsSettings::batch_pipeline_depth
    MaxRounds,  \* bound: how often the caller publishes its batch
    MaxAgain    \* bound: the longest batch published more than once

VARIABLES
    resolver,  \* PrefixSubjects or DestinationSubjects
    batch,     \* the envelopes
    round,     \* which publish of the batch this is
    pc,
    prepared,  \* encoded and not yet in a window: [i, headers]
    window,    \* the window: [i, headers, st]
    late,      \* its deadline has passed
    acks,      \* what the ack future of each index resolves to
    in_time,   \* the indices acked before the deadline
    outcomes,  \* verdicts, tagged with their index
    results,   \* what the call returns
    net,       \* messages on their way to the server
    stream     \* messages JetStream has stored

vars == <<resolver, batch, round, pc, prepared, window, late, acks, in_time,
          outcomes, results, net, stream>>

N == Len(batch)

-----------------------------------------------------------------------------
(* NatsPublishError and its Classify table.  WrongLastMessage is in the    *)
(* table only: the publisher never states which message it expects to be   *)
(* the last one, so no server answers with it.                             *)

MapError == {"DuplicateHeader", "ReservedHeaderName", "UnsupportedHeaderName",
             "InvalidHeaderValue"}

PrepareError == MapError \cup {"Subject", "PayloadTooLarge"}

Verdict == {"Ok", "Timeout", "Connection", "MaxAckPending", "Broker", "StreamNotFound",
            "MaxPayloadExceeded", "WrongLastMessage"} \cup PrepareError

ASSUME NatsPublisherAssumption ==
    /\ Depth \in Nat \ {0} /\ MaxRounds \in Nat \ {0} /\ MaxAgain \in Nat
    /\ None \notin Verdict

(* Mutant: a timeout is taken for a refusal.                               *)
PermanentTimeout(error) ==
    error \in PrepareError \cup {"MaxPayloadExceeded", "WrongLastMessage", "Timeout"}

IsPermanent(error) ==
    error \in PrepareError \cup {"MaxPayloadExceeded", "WrongLastMessage"}

(* validate_subject on what the resolver made of the envelope.             *)
IsSubject(token) == token \notin {Empty, Illegal, "wild*"}

HasSubject(e) ==
    IF resolver = "destination" /\ e.meta["destination"] # None
    THEN IsSubject(e.meta["destination"]) ELSE IsSubject(e.type)

(* prepare: subject, then encode, then the max_payload guard.              *)
prepare(e, order) ==
    LET wire == encode(e, order) IN
    IF ~ HasSubject(e) THEN [error |-> "Subject", headers |-> <<>>]
    ELSE IF wire.error # None THEN wire
    ELSE IF e.size = "above max_payload"
         THEN [wire EXCEPT !.error = "PayloadTooLarge"]
    ELSE wire

InitWith(subjects, envelopes) ==
    /\ resolver = subjects /\ batch = envelopes
    /\ round = 1
    /\ pc = IF N = 0 THEN "windows" ELSE "prepare"
    /\ prepared = <<>> /\ window = <<>> /\ late = FALSE
    /\ acks = [i \in 1 .. N |-> None] /\ in_time = {}
    /\ outcomes = <<>> /\ results = <<>>
    /\ net = {} /\ stream = {}

-----------------------------------------------------------------------------
(* One turn of the loop over the envelopes.                                *)
Turn == Len(prepared) + Len(outcomes) + 1

Prepare ==
    /\ pc = "prepare"
    /\ \E order \in Orders(batch[Turn]) :
          LET wire == prepare(batch[Turn], order) IN
          \/ /\ wire.error = None
             /\ prepared' = Append(prepared, [i |-> Turn, headers |-> wire.headers])
             /\ UNCHANGED outcomes
          \/ /\ wire.error # None
             /\ outcomes' = Append(outcomes, <<Turn, wire.error>>)
             /\ UNCHANGED prepared
    /\ pc' = IF Turn = N THEN "windows" ELSE "prepare"
    /\ UNCHANGED <<resolver, batch, round, window, late, acks, in_time, results, net,
                   stream>>

Smaller(a, b) == IF a <= b THEN a ELSE b

(* Mutant: batch_pipeline_depth is forgotten.                              *)
TakeAll == Len(prepared)

Take == Smaller(Len(prepared), Depth)

OpenWindow ==
    /\ pc = "windows" /\ prepared # <<>>
    /\ window' = [k \in 1 .. Take |->
                     [i |-> prepared[k].i, headers |-> prepared[k].headers, st |-> "unsent"]]
    /\ prepared' = SubSeq(prepared, Take + 1, Len(prepared))
    /\ late' = FALSE
    /\ pc' = "send"
    /\ UNCHANGED <<resolver, batch, round, acks, in_time, outcomes, results, net, stream>>

(* issue_window_sends, in order: the send goes out, fails, or is given up  *)
(* at the deadline.  One that failed or was given up may still have left.  *)
NextUnsent(k) ==
    /\ window[k].st = "unsent"
    /\ \A j \in 1 .. k - 1 : window[j].st # "unsent"

SendEnds(k, outcome) ==
    /\ window' = [window EXCEPT ![k].st = outcome]
    /\ pc' = IF k = Len(window) THEN "acks" ELSE "send"
    /\ UNCHANGED <<resolver, batch, round, prepared, late, acks, in_time, outcomes,
                   results, stream>>

Message(k) == [i |-> window[k].i, headers |-> window[k].headers, round |-> round]

(* A payload above the server's limit never leaves: async-nats checks.     *)
TooLarge(k) == batch[window[k].i].size = "above the server's"

MayHaveLeft(k) ==
    \/ net' = net
    \/ ~ TooLarge(k) /\ net' = net \cup {Message(k)}

Send(k) ==
    /\ pc = "send" /\ NextUnsent(k)
    /\ IF TooLarge(k)
       THEN SendEnds(k, "MaxPayloadExceeded") /\ UNCHANGED net
       ELSE \/ SendEnds(k, "sent") /\ net' = net \cup {Message(k)}
            \/ \E error \in {"Connection", "MaxAckPending"} :
                  SendEnds(k, error) /\ MayHaveLeft(k)

SendTimesOut(k) ==
    /\ pc = "send" /\ NextUnsent(k) /\ late
    /\ SendEnds(k, "Timeout") /\ MayHaveLeft(k)

(* What awaiting a send gives: timeout_at looks at the ack first and at    *)
(* the deadline second.  Nothing yet means waiting.                        *)
(* Mutants: the deadline first; no deadline.                               *)
AckResultDeadlineFirst(i) ==
    IF late THEN {"Timeout"} ELSE {acks[i]} \ {None}

AckResultUnbounded(i) == {acks[i]} \ {None}

AckResult(i) ==
    IF acks[i] # None THEN {acks[i]} ELSE {"Timeout" : x \in {late} \cap {TRUE}}

(* await_window_acks, in order.                                            *)
AwaitAck ==
    /\ pc = "acks" /\ window # <<>>
    /\ LET item == Head(window) IN
       \E result \in IF item.st = "sent" THEN AckResult(item.i) ELSE {item.st} :
          outcomes' = Append(outcomes, <<item.i, result>>)
    /\ window' = Tail(window)
    /\ UNCHANGED <<resolver, batch, round, pc, prepared, late, acks, in_time, results,
                   net, stream>>

WindowDone ==
    /\ pc = "acks" /\ window = <<>>
    /\ pc' = "windows"
    /\ UNCHANGED <<resolver, batch, round, prepared, window, late, acks, in_time,
                   outcomes, results, net, stream>>

(* sort_by_key, and the indices dropped.                                   *)
(* Mutant: the results are returned in the order they came.                *)
InOrderOfArrival(pairs) == [k \in 1 .. Len(pairs) |-> pairs[k][2]]

Sorts(p, pairs) == \A j, k \in DOMAIN p : j < k => pairs[p[j]][1] <= pairs[p[k]][1]

ByPosition(pairs) ==
    LET p == CHOOSE p \in Bijection(DOMAIN pairs, DOMAIN pairs) : Sorts(p, pairs)
    IN [k \in 1 .. Len(pairs) |-> pairs[p[k]][2]]

Return ==
    /\ pc = "windows" /\ prepared = <<>>
    /\ results' = ByPosition(outcomes)
    /\ pc' = "done"
    /\ UNCHANGED <<resolver, batch, round, prepared, window, late, acks, in_time,
                   outcomes, net, stream>>

(* A caller of publish_batch, which is not part of this repository, hands  *)
(* it the same batch again.  (The dispatcher retries one envelope at a     *)
(* time: a batch of one.)                                                  *)
PublishAgain ==
    /\ pc = "done" /\ round < MaxRounds /\ N <= MaxAgain
    /\ \E i \in 1 .. N : results[i] # "Ok" /\ ~ IsPermanent(results[i])
    /\ round' = round + 1
    /\ pc' = "prepare"
    /\ acks' = [i \in 1 .. N |-> None] /\ in_time' = {}
    /\ outcomes' = <<>> /\ results' = <<>> /\ late' = FALSE
    /\ UNCHANGED <<resolver, batch, prepared, window, net, stream>>

-----------------------------------------------------------------------------
(* The clock and the server.                                               *)

DeadlinePasses ==
    /\ pc \in {"send", "acks"} /\ ~ late
    /\ late' = TRUE
    /\ UNCHANGED <<resolver, batch, round, pc, prepared, window, acks, in_time, outcomes,
                   results, net, stream>>

(* The ack future of index i resolves, if it is still awaited.            *)
Resolve(i, answer) ==
    LET heard == /\ answer # None /\ acks[i] = None
                 /\ \E k \in 1 .. Len(window) : window[k].i = i /\ window[k].st = "sent"
    IN /\ acks' = IF heard THEN [acks EXCEPT ![i] = answer] ELSE acks
       /\ in_time' = IF heard /\ ~ late THEN in_time \cup {i} ELSE in_time

(* async-nats gives an ack up: its own timeout, or a lost connection.      *)
AckFails(i) ==
    /\ acks[i] = None
    /\ \E k \in 1 .. Len(window) : window[k].i = i /\ window[k].st = "sent"
    /\ \E error \in {"Timeout", "Connection"} : Resolve(i, error)
    /\ UNCHANGED <<resolver, batch, round, pc, prepared, window, late, outcomes, results,
                   net, stream>>

Answered(message, answer) ==
    Resolve(message.i, IF message.round = round THEN answer ELSE None)

(* Stored unless the stream has seen its Nats-Msg-Id; the ack may be lost. *)
Stores(message) ==
    /\ net' = net \ {message}
    /\ LET key == Read(message.headers, "nats-msg-id")
           seen == key # None /\ \E m \in stream : Read(m.headers, "nats-msg-id") = key
       IN stream' = IF seen THEN stream ELSE stream \cup {message}
    /\ \E answer \in {"Ok", "Broker", None} : Answered(message, answer)
    /\ UNCHANGED <<resolver, batch, round, pc, prepared, window, late, outcomes, results>>

Refuses(message) ==
    /\ net' = net \ {message}
    /\ \E answer \in {"StreamNotFound", None} : Answered(message, answer)
    /\ UNCHANGED <<resolver, batch, round, pc, prepared, window, late, outcomes, results,
                   stream>>

(* The steps of the publisher's own task.                                  *)
Runs ==
    \/ Prepare \/ OpenWindow \/ AwaitAck \/ WindowDone \/ Return
    \/ \E k \in 1 .. Len(window) : SendTimesOut(k)

Next ==
    \/ Runs \/ PublishAgain \/ DeadlinePasses
    \/ \E k \in 1 .. Len(window) : Send(k)
    \/ \E i \in 1 .. N : AckFails(i)
    \/ \E message \in net : Stores(message) \/ Refuses(message)

(* What happens to one batch, whatever the server does.                    *)
BatchSpec(subjects, envelopes) == InitWith(subjects, envelopes) /\ [][Next]_vars

-----------------------------------------------------------------------------
(* Verdicts are known ones, and no more than batch_pipeline_depth sends    *)
(* wait for their acks at a time.                                          *)
TypeOK ==
    /\ pc \in {"prepare", "windows", "send", "acks", "done"}
    /\ round \in 1 .. MaxRounds
    /\ Len(window) <= Depth
    /\ \A k \in 1 .. Len(outcomes) : outcomes[k][1] \in 1 .. N /\ outcomes[k][2] \in Verdict

MsgId(e) == IF e.dedup = None THEN e.id ELSE e.dedup

(* The results are positional whatever failed on the way: one per          *)
(* envelope, an Ok only for an envelope whose Nats-Msg-Id the stream       *)
(* holds, a preparation error exactly for those that cannot be sent, in    *)
(* whatever order the hash map iterated.                                   *)
Positional ==
    pc = "done" =>
        /\ Len(results) = N
        /\ \A i \in 1 .. N :
              /\ results[i] = "Ok" =>
                    \E m \in stream : MsgId(batch[m.i]) = MsgId(batch[i])
              /\ results[i] \in PrepareError <=>
                    \/ ~ HasSubject(batch[i]) \/ ~ Expressible(batch[i])
                    \/ batch[i].size = "above max_payload"

(* A permanent verdict makes the dispatcher give the message up: no such   *)
(* message is in the stream or on its way.                                 *)
PermanentIsNotStored ==
    pc = "done" =>
        \A i \in 1 .. N, m \in stream \cup net :
            IsPermanent(results[i]) => m.i # i

(* A slow neighbour never costs a message its verdict: what was acked      *)
(* before the deadline is reported as acked.                               *)
AckedInTimeCounts ==
    \A k \in 1 .. Len(outcomes) :
        outcomes[k][1] \in in_time => outcomes[k][2] = acks[outcomes[k][1]]

(* Publishing again after a timeout stores no second copy: every message   *)
(* carries a Nats-Msg-Id, the same on every attempt.                       *)
StoredOnce == \A m, n \in stream : m.i = n.i => m = n

(* A consumer decodes what is stored into the envelope that was published, *)
(* up to the two documented normalisations.  An empty type name, which     *)
(* only DestinationSubjects lets through, is refused by decode.            *)
StoredDecodes ==
    \A m \in stream :
        LET delivered == Over([n \in {<<"nats-", "Stream">>} |-> "s"], m.headers)
        IN IF batch[m.i].type = Empty
           THEN resolver = "destination" /\ decode(delivered).error = "MalformedHeader"
           ELSE decode(delivered) = Normal(batch[m.i])

(* publish_batch returns, whatever the server does: every wait in it ends  *)
(* at the deadline of its window.                                          *)
BatchReturns == [](pc = "prepare" => <>(pc = "done"))

=============================================================================
