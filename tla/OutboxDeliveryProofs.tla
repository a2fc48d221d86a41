------------------------ MODULE OutboxDeliveryProofs ------------------------
(***************************************************************************)
(* publish_batch answers by position, and what it stores can be read back, *)
(* for every batch of envelopes, every depth of the pipeline and whatever  *)
(* the server does.  And a message has the same headers on every route to  *)
(* the stream, for every call of a service and every writer of the rows.   *)
(***************************************************************************)
EXTENDS OutboxDelivery, NatsPublisherLemmas

-----------------------------------------------------------------------------
(* The inductive steps of publish_batch: what is sent, stored and heard.   *)

(* What is taken into a window and sent is what prepare let through.       *)
LEMMA CarriedStep ==
    ASSUME BatchOK, Typed, Covered, Carried, Next
    PROVE  Carried'
<1>1. /\ batch' = batch /\ resolver' = resolver
      /\ Len(prepared) \in Nat /\ Len(window) \in Nat
  BY SameBatch, Elements, ZenonT(60)
<1> DEFINE Good(i, h) == Sendable(batch[i]) /\ h = Wire(batch[i])
<1>2. /\ \A k \in 1 .. Len(prepared) : Good(prepared[k].i, prepared[k].headers)
      /\ \A k \in 1 .. Len(window) : Good(window[k].i, window[k].headers)
      /\ \A m \in net \cup stream :
            Good(m.i, m.headers) /\ batch[m.i].size # "above the server's"
  BY DEF Carried
<1>3. ASSUME \A k \in 1 .. Len(prepared') : Good(prepared'[k].i, prepared'[k].headers),
             \A k \in 1 .. Len(window') : Good(window'[k].i, window'[k].headers),
             \A m \in net' \cup stream' :
                Good(m.i, m.headers) /\ batch[m.i].size # "above the server's"
      PROVE  Carried'
  BY <1>1, <1>3, ZenonT(30) DEF Carried, Sendable, HasSubject
<1> HIDE DEF Good
<1>4. CASE Prepare
  <2>1. /\ window' = window /\ net' = net /\ stream' = stream
        /\ \/ prepared' = prepared
           \/ /\ Sendable(batch[Turn])
              /\ prepared' = Append(prepared, [i |-> Turn, headers |-> Wire(batch[Turn])])
    BY <1>4, PrepareAdds DEF Prepare
  <2>2. \A k \in 1 .. Len(prepared') : Good(prepared'[k].i, prepared'[k].headers)
    <3>1. CASE prepared' = prepared
      BY <1>2, <3>1
    <3>2. CASE /\ Sendable(batch[Turn])
               /\ prepared' = Append(prepared, [i |-> Turn, headers |-> Wire(batch[Turn])])
      <4> DEFINE x == [i |-> Turn, headers |-> Wire(batch[Turn])]
      <4>1. Good(x.i, x.headers)
        BY <3>2 DEF Good
      <4> HIDE DEF x
      <4>2. /\ Len(prepared') = Len(prepared) + 1
            /\ \A k \in 1 .. Len(prepared) : prepared'[k] = prepared[k]
            /\ prepared'[Len(prepared) + 1] = x
        BY <3>2 DEF Typed, x
      <4>3. \A k \in 1 .. Len(prepared') : k \in 1 .. Len(prepared) \/ k = Len(prepared) + 1
        BY <1>1, <4>2
      <4> QED BY <1>2, <4>1, <4>2, <4>3
    <3> QED BY <2>1, <3>1, <3>2
  <2> QED BY <1>2, <1>3, <2>1, <2>2, ZenonT(60)
<1>5. CASE OpenWindow
  <2>1. /\ \A k \in 1 .. Len(window') :
              /\ k \in 1 .. Len(prepared)
              /\ window'[k].i = prepared[k].i /\ window'[k].headers = prepared[k].headers
        /\ \A k \in 1 .. Len(prepared') :
              \E j \in 1 .. Len(prepared) : prepared'[k] = prepared[j]
    <3>1. /\ Take \in 1 .. Len(prepared) /\ Len(window') = Take
          /\ Len(prepared') = Len(prepared) - Take
          /\ \A k \in 1 .. Take : window'[k].i = prepared[k].i
                                 /\ window'[k].headers = prepared[k].headers
          /\ \A k \in 1 .. Len(prepared) - Take : prepared'[k] = prepared[Take + k]
      BY <1>5, WindowTakes
    <3>2. /\ \A k \in 1 .. Len(prepared) - Take : Take + k \in 1 .. Len(prepared)
          /\ \A k \in 1 .. Take : k \in 1 .. Len(prepared)
      BY <1>1, <3>1
    <3> QED BY <3>1, <3>2, ZenonT(30)
  <2>2. net' = net /\ stream' = stream
    BY <1>5 DEF OpenWindow
  <2>3. \A k \in 1 .. Len(prepared') : Good(prepared'[k].i, prepared'[k].headers)
    BY <1>2, <2>1
  <2>4. \A k \in 1 .. Len(window') : Good(window'[k].i, window'[k].headers)
    BY <1>2, <2>1
  <2> QED BY <1>2, <1>3, <2>2, <2>3, <2>4
<1>6. ASSUME NEW k \in 1 .. Len(window), Send(k) \/ SendTimesOut(k)
      PROVE  Carried'
  <2>1. PICK outcome \in SendStates : window' = [window EXCEPT ![k].st = outcome]
    BY <1>6, SendChanges
  <2>2. /\ Len(window') = Len(window)
        /\ \A j \in 1 .. Len(window) :
              window'[j].i = window[j].i /\ window'[j].headers = window[j].headers
    <3>1. DOMAIN window = 1 .. Len(window) /\ Len(window') = Len(window) /\ window[k] \in Sent
      BY <2>1, Members DEF Typed
    <3>2. [window[k] EXCEPT !.st = outcome].i = window[k].i
          /\ [window[k] EXCEPT !.st = outcome].headers = window[k].headers
      BY <3>1 DEF Sent
    <3> QED BY <2>1, <3>1, <3>2
  <2>3. /\ prepared' = prepared /\ stream' = stream
        /\ net' = net \/ (~ TooLarge(k) /\ net' = net \cup {Message(k)})
    BY <1>6, SendChanges
  <2>4. Message(k).i = window[k].i /\ Message(k).headers = window[k].headers
    BY DEF Message
  <2>5. \A m \in net' : m \in net \/ (~ TooLarge(k) /\ m = Message(k))
    BY <2>3
  <2>6. \A m \in net' \cup stream' :
           Good(m.i, m.headers) /\ batch[m.i].size # "above the server's"
    BY <1>2, <2>3, <2>4, <2>5, ZenonT(60) DEF TooLarge
  <2>7. \A j \in 1 .. Len(window') : Good(window'[j].i, window'[j].headers)
    BY <1>2, <2>2
  <2> QED BY <1>2, <1>3, <2>3, <2>6, <2>7
<1>7. CASE AwaitAck
  <2>1. /\ Len(window) \in Nat \ {0} /\ Len(window') = Len(window) - 1
        /\ \A k \in 1 .. Len(window) - 1 : window'[k] = window[k + 1]
    BY <1>7, AwaitAnswers, Behead, Zenon DEF Typed
  <2>2. \A k \in 1 .. Len(window') : k + 1 \in 1 .. Len(window) /\ window'[k] = window[k + 1]
    BY <2>1
  <2>3. \A k \in 1 .. Len(window') : Good(window'[k].i, window'[k].headers)
    BY <1>2, <2>2
  <2>4. prepared' = prepared /\ net' = net /\ stream' = stream
    BY <1>7 DEF AwaitAck
  <2> QED BY <1>2, <1>3, <2>3, <2>4
<1>8. ASSUME UNCHANGED <<prepared, window>>, net' \cup stream' \subseteq net \cup stream
      PROVE  Carried'
  BY <1>2, <1>3, <1>8
<1>9. CASE WindowDone \/ Return \/ PublishAgain \/ DeadlinePasses
  BY <1>8, <1>9 DEF WindowDone, Return, PublishAgain, DeadlinePasses
<1>10. ASSUME NEW i \in 1 .. N, AckFails(i) PROVE Carried'
  BY <1>8, <1>10 DEF AckFails
<1>11. ASSUME NEW message \in net, Stores(message) \/ Refuses(message)
       PROVE  Carried'
  <2>1. UNCHANGED <<prepared, window>> /\ net' \cup stream' \subseteq net \cup stream
    BY <1>11 DEF Stores, Refuses
  <2> QED BY <1>8, <2>1
<1> QED BY <1>4, <1>5, <1>6, <1>7, <1>9, <1>10, <1>11 DEF Next, Runs

(* JetStream stores a message unless it holds one with the same            *)
(* Nats-Msg-Id.                                                            *)
LEMMA StoresKeeps ==
    ASSUME BatchOK, Typed, Carried, OnePerId, NEW message \in net, Stores(message)
    PROVE  /\ stream \subseteq stream'
           /\ \E m \in stream' : MsgId(batch[m.i]) = MsgId(batch[message.i])
           /\ \A m, n \in stream' : MsgId(batch[m.i]) = MsgId(batch[n.i]) => m = n
<1>1. \A m \in net \cup stream :
         /\ Read(m.headers, "nats-msg-id") = MsgId(batch[m.i])
         /\ MsgId(batch[m.i]) # None
  <2> SUFFICES ASSUME NEW m \in net \cup stream
               PROVE  /\ Read(m.headers, "nats-msg-id") = MsgId(batch[m.i])
                      /\ MsgId(batch[m.i]) # None
    OBVIOUS
  <2>1. m.i \in 1 .. N /\ Sendable(batch[m.i]) /\ m.headers = Wire(batch[m.i])
    BY Elements DEF Carried
  <2>2. IsEnvelope(batch[m.i]) /\ Expressible(batch[m.i])
    BY <2>1 DEF BatchOK, Sendable
  <2> QED BY <2>1, <2>2, MsgIdWritten
<1> DEFINE key == Read(message.headers, "nats-msg-id")
           seen == key # None /\ \E m \in stream : Read(m.headers, "nats-msg-id") = key
<1>2. stream' = IF seen THEN stream ELSE stream \cup {message}
  BY DEF Stores
<1>3. key = MsgId(batch[message.i]) /\ key # None
  BY <1>1
<1>4. seen <=> \E m \in stream : MsgId(batch[m.i]) = MsgId(batch[message.i])
  BY <1>1, <1>3
<1> HIDE DEF seen, key
<1>5. CASE seen
  BY <1>2, <1>4, <1>5 DEF OnePerId
<1>6. CASE ~ seen
  BY <1>2, <1>4, <1>6 DEF OnePerId
<1> QED BY <1>5, <1>6

(* The stream only grows, and never takes a second message with an id it   *)
(* already holds.                                                          *)
LEMMA OnePerIdStep ==
    ASSUME BatchOK, Typed, Carried, OnePerId, Next
    PROVE  OnePerId' /\ stream \subseteq stream'
<1>1. batch' = batch
  BY SameBatch
<1>2. CASE \E message \in net : Stores(message)
  <2>1. /\ stream \subseteq stream'
        /\ \A m, n \in stream' : MsgId(batch[m.i]) = MsgId(batch[n.i]) => m = n
    BY <1>2, StoresKeeps
  <2> QED BY <1>1, <2>1 DEF OnePerId
<1>3. CASE ~ \E message \in net : Stores(message)
  <2>1. stream' = stream
    <3>1. Prepare \/ OpenWindow \/ AwaitAck \/ WindowDone \/ Return => stream' = stream
      BY DEF Prepare, OpenWindow, AwaitAck, WindowDone, Return
    <3>2. PublishAgain \/ DeadlinePasses => stream' = stream
      BY DEF PublishAgain, DeadlinePasses
    <3>3. \A k \in 1 .. Len(window) : SendTimesOut(k) \/ Send(k) => stream' = stream
      BY DEF SendTimesOut, Send, SendEnds
    <3>4. /\ \A i \in 1 .. N : AckFails(i) => stream' = stream
          /\ \A message \in net : Refuses(message) => stream' = stream
      BY DEF AckFails, Refuses
    <3> QED BY <1>3, <3>1, <3>2, <3>3, <3>4, Zenon DEF Next, Runs
  <2> QED BY <1>1, <2>1 DEF OnePerId
<1> QED BY <1>2, <1>3

(* An ack is only ever heard by a send that is waiting for it, and what    *)
(* was heard in time is what is reported.                                  *)
LEMMA HeardStep ==
    ASSUME BatchOK, Typed, Once, Covered, Heard, AckedInTimeCounts, Next
    PROVE  Heard' /\ AckedInTimeCounts'
<1>1. /\ N' = N /\ Len(prepared) \in Nat /\ Len(window) \in Nat /\ Len(outcomes) \in Nat
      /\ acks \in [1 .. N -> Answers \cup {None}]
  BY SameBatch, Elements DEF Typed
<1>2. CASE Prepare
  <2>1. /\ pc = "prepare" /\ Turn \in 1 .. N /\ acks' = acks /\ in_time' = in_time
        /\ window' = window /\ window = <<>> /\ \A i \in 1 .. N : acks[i] = None
    BY <1>2, PrepareAdds, ZenonT(30) DEF Prepare, Heard
  <2>2. in_time = {}
    BY <2>1 DEF Heard, Typed
  <2>3. prepared' \in Seq(Item)
    BY <1>1, TypedStep, SameBatch DEF Typed, Item
  <2>4. \A k \in 1 .. Len(prepared') : prepared'[k].i \in 1 .. N
    <3>1. \A k \in 1 .. Len(prepared') : prepared'[k] \in Item
      BY <2>3, Members
    <3> QED BY <3>1 DEF Item
  <2>5. Len(window') = 0
    BY <2>1
  <2>6. AckedInTimeCounts'
    BY <2>1, <2>2 DEF AckedInTimeCounts
  <2>7. Heard'
    BY <1>1, <2>1, <2>2, <2>4, <2>5 DEF Heard
  <2> QED BY <2>6, <2>7
<1>3. CASE OpenWindow
  <2>1. /\ pc' = "send" /\ acks' = acks /\ in_time' = in_time /\ outcomes' = outcomes
    BY <1>3 DEF OpenWindow
  <2>2. /\ \A k \in 1 .. Len(window') :
              k \in 1 .. Len(prepared) /\ window'[k].i = prepared[k].i
        /\ \A k \in 1 .. Len(prepared') :
              \E j \in 1 .. Len(prepared) : prepared'[k] = prepared[j]
    <3>1. /\ Take \in 1 .. Len(prepared) /\ Len(window') = Take
          /\ Len(prepared') = Len(prepared) - Take
          /\ \A k \in 1 .. Take : window'[k].i = prepared[k].i
          /\ \A k \in 1 .. Len(prepared) - Take : prepared'[k] = prepared[Take + k]
      BY <1>3, WindowTakes
    <3>2. /\ \A k \in 1 .. Len(prepared) - Take : Take + k \in 1 .. Len(prepared)
          /\ \A k \in 1 .. Take : k \in 1 .. Len(prepared)
      BY <1>1, <3>1
    <3> QED BY <3>1, <3>2
  <2>3. /\ \A k \in 1 .. Len(prepared') : acks[prepared'[k].i] = None
        /\ \A k \in 1 .. Len(window') : acks[window'[k].i] = None
    <3>1. \A j \in 1 .. Len(prepared) : acks[prepared[j].i] = None
      BY DEF Heard
    <3>2. \A k \in 1 .. Len(window') : acks[window'[k].i] = None
      BY <2>2, <3>1
    <3>3. ASSUME NEW k \in 1 .. Len(prepared') PROVE acks[prepared'[k].i] = None
      <4>1. PICK j \in 1 .. Len(prepared) : prepared'[k] = prepared[j]
        BY <2>2
      <4> QED BY <3>1, <4>1
    <3> QED BY <3>2, <3>3
  <2>4. Heard'
    BY <2>1, <2>3 DEF Heard
  <2> QED BY <2>1, <2>4 DEF AckedInTimeCounts
<1>4. ASSUME NEW k \in 1 .. Len(window), Send(k) \/ SendTimesOut(k)
      PROVE  Heard' /\ AckedInTimeCounts'
  <2>1. PICK outcome \in SendStates : window' = [window EXCEPT ![k].st = outcome]
    BY <1>4, SendChanges
  <2>2. /\ Len(window') = Len(window)
        /\ \A j \in 1 .. Len(window) : window'[j].i = window[j].i
        /\ \A j \in 1 .. Len(window) : j # k => window'[j].st = window[j].st
    <3>1. DOMAIN window = 1 .. Len(window) /\ Len(window') = Len(window) /\ window[k] \in Sent
      BY <2>1, Members DEF Typed
    <3>2. [window[k] EXCEPT !.st = outcome].i = window[k].i
      BY <3>1 DEF Sent
    <3> QED BY <2>1, <3>1, <3>2
  <2>3. /\ pc' \in {"send", "acks"} /\ window[k].st = "unsent"
        /\ UNCHANGED <<prepared, acks, in_time, outcomes>>
    BY <1>4, SendChanges
  <2>4. acks[window[k].i] = None
    BY <2>3 DEF Heard
  <2>5. Heard'
    BY <2>2, <2>3, <2>4 DEF Heard
  <2> QED BY <2>3, <2>5 DEF AckedInTimeCounts
<1>5. CASE AwaitAck
  <2>1. /\ Len(window) \in Nat \ {0} /\ Len(window') = Len(window) - 1
        /\ \A k \in 1 .. Len(window) - 1 : window'[k] = window[k + 1]
    BY <1>5, AwaitAnswers, Behead, Zenon DEF Typed
  <2>2. /\ 1 \in 1 .. Len(window)
        /\ \A k \in 1 .. Len(window') :
              k + 1 \in 1 .. Len(window) /\ window'[k] = window[k + 1]
    BY <2>1
  <2>3. pc' = "acks" /\ UNCHANGED <<prepared, acks, in_time>>
    BY <1>5 DEF AwaitAck
  <2>4. Heard'
    BY <2>2, <2>3 DEF Heard
  <2>5. PICK result \in Verdict :
           /\ outcomes' = Append(outcomes, <<window[1].i, result>>)
           /\ \/ window[1].st = "sent" /\ acks[window[1].i] # None
                 /\ result = acks[window[1].i]
              \/ window[1].st = "sent" /\ acks[window[1].i] = None /\ result = "Timeout"
              \/ window[1].st # "sent" /\ result = window[1].st
    BY <1>5, AwaitAnswers
  <2>6. window[1].i \in in_time => result = acks[window[1].i]
    BY <2>2, <2>5 DEF Heard
  <2>7. /\ Len(outcomes') = Len(outcomes) + 1
        /\ \A k \in 1 .. Len(outcomes) : outcomes'[k] = outcomes[k]
        /\ outcomes'[Len(outcomes) + 1] = <<window[1].i, result>>
    <3> DEFINE pair == <<window[1].i, result>>
    <3>1. outcomes \in Seq(Tagged) /\ outcomes' = Append(outcomes, pair)
      BY <2>5 DEF Typed
    <3> HIDE DEF pair
    <3>2. /\ Len(outcomes') = Len(outcomes) + 1
          /\ \A k \in 1 .. Len(outcomes) : outcomes'[k] = outcomes[k]
          /\ outcomes'[Len(outcomes) + 1] = pair
      BY <3>1, AppendedAny, Zenon
    <3> QED BY <3>2 DEF pair
  <2>8. \A k \in 1 .. Len(outcomes') :
           \/ k \in 1 .. Len(outcomes) /\ outcomes'[k] = outcomes[k]
           \/ outcomes'[k][1] = window[1].i /\ outcomes'[k][2] = result
    BY <1>1, <2>7
  <2>9. AckedInTimeCounts'
    BY <2>3, <2>6, <2>8 DEF AckedInTimeCounts
  <2> QED BY <2>4, <2>9
<1>6. CASE WindowDone \/ Return \/ DeadlinePasses
  <2>1. /\ pc' # "prepare" /\ UNCHANGED <<prepared, window, acks, in_time, outcomes>>
    BY <1>6 DEF WindowDone, Return, DeadlinePasses
  <2> QED BY <2>1, Zenon DEF Heard, AckedInTimeCounts
<1>7. CASE PublishAgain
  <2>1. /\ acks' = [i \in 1 .. N |-> None] /\ in_time' = {} /\ outcomes' = <<>>
        /\ prepared' = <<>> /\ window' = <<>>
    BY <1>7 DEF PublishAgain, Covered
  <2> QED BY <1>1, <2>1 DEF Heard, AckedInTimeCounts
<1>8. ASSUME NEW i \in 1 .. N, NEW answer \in Answers \cup {None}, Resolve(i, answer),
             UNCHANGED <<pc, prepared, window, outcomes>>
      PROVE  Heard' /\ AckedInTimeCounts'
  <2>1. CASE acks' = acks /\ in_time' = in_time
    BY <1>1, <1>8, <2>1, Zenon DEF Heard, AckedInTimeCounts
  <2>2. CASE /\ answer # None
             /\ \E k \in 1 .. Len(window) : window[k].i = i /\ window[k].st = "sent"
             /\ acks' = [acks EXCEPT ![i] = answer]
             /\ in_time' \in {in_time, in_time \cup {i}}
    <3>1. PICK k \in 1 .. Len(window) : window[k].i = i /\ window[k].st = "sent"
      BY <2>2
    <3>2. pc # "prepare"
      BY <1>1, <3>1 DEF Covered
    <3>3. Flies(i) /\ ~ Waits(i) /\ ~ Ended(i)
      BY <3>1 DEF Once, Flies
    <3>4. /\ \A j \in 1 .. Len(prepared) : prepared[j].i \in 1 .. N /\ prepared[j].i # i
          /\ \A j \in 1 .. Len(outcomes) : outcomes[j][1] \in 1 .. N /\ outcomes[j][1] # i
      BY <3>3, Elements, ZenonT(60) DEF Waits, Ended
    <3>5. \A j \in 1 .. Len(window) : window[j].i \in 1 .. N /\ (window[j].i = i => j = k)
      BY <3>1, Elements DEF Once
    <3>6. acks'[i] = answer /\ \A j \in 1 .. N : j # i => acks'[j] = acks[j]
      BY <1>1, <2>2
    <3>7. \A j \in in_time' : j = i \/ (j \in in_time /\ j \in 1 .. N)
      BY <2>2 DEF Typed
    <3>8. Heard'
      BY <1>8, <2>2, <3>1, <3>2, <3>4, <3>5, <3>6, <3>7, ZenonT(60) DEF Heard
    <3>9. AckedInTimeCounts'
      BY <1>8, <3>4, <3>6, <3>7, ZenonT(30) DEF AckedInTimeCounts
    <3> QED BY <3>8, <3>9
  <2> QED BY <1>8, <2>1, <2>2, ResolveHears
<1>9. ASSUME NEW i \in 1 .. N, AckFails(i) PROVE Heard' /\ AckedInTimeCounts'
  <2>1. PICK error \in Answers : Resolve(i, error)
    BY <1>9 DEF AckFails, Answers
  <2>2. UNCHANGED <<pc, prepared, window, outcomes>>
    BY <1>9, Zenon DEF AckFails
  <2> QED BY <1>8, <2>1, <2>2
<1>10. ASSUME NEW message \in net, Stores(message) \/ Refuses(message)
       PROVE  Heard' /\ AckedInTimeCounts'
  <2>1. PICK answer \in Answers \cup {None} : Resolve(message.i, answer)
    BY <1>10 DEF Stores, Refuses, Answered, Answers
  <2>2. UNCHANGED <<pc, prepared, window, outcomes>>
    BY <1>10 DEF Stores, Refuses
  <2>3. message.i \in 1 .. N
    BY Elements
  <2> QED BY <1>8, <2>1, <2>2, <2>3
<1> QED BY <1>2, <1>3, <1>4, <1>5, <1>6, <1>7, <1>9, <1>10
    DEF Next, Runs

(* Every verdict has its reason.                                           *)
LEMMA JustifiedStep ==
    ASSUME BatchOK, Typed, Once, Covered, Carried, OnePerId, Heard, Justified, Next
    PROVE  Justified'
<1>1. /\ N' = N /\ batch' = batch /\ resolver' = resolver /\ stream \subseteq stream'
      /\ Len(window) \in Nat /\ Len(outcomes) \in Nat
      /\ acks \in [1 .. N -> Answers \cup {None}]
  BY SameBatch, OnePerIdStep, Elements, Zenon DEF Typed
<1>2. \A i : Confirmed(i) => Confirmed(i)'
  BY <1>1 DEF Confirmed
<1> DEFINE Right(i, verdict) ==
              /\ verdict = "Ok" => Confirmed(i)
              /\ verdict \in PrepareError <=> ~ Sendable(batch[i])
              /\ verdict = "MaxPayloadExceeded" => batch[i].size = "above the server's"
              /\ verdict # "WrongLastMessage"
           Grown(i, verdict) ==
              /\ verdict = "Ok" => \E m \in stream' : MsgId(batch[m.i]) = MsgId(batch[i])
              /\ verdict \in PrepareError <=> ~ Sendable(batch[i])
              /\ verdict = "MaxPayloadExceeded" => batch[i].size = "above the server's"
              /\ verdict # "WrongLastMessage"
<1>3. \A i, verdict : Right(i, verdict) => Grown(i, verdict)
  BY <1>1, ZenonT(60) DEF Confirmed
<1>4. /\ \A k \in 1 .. Len(outcomes) : Right(outcomes[k][1], outcomes[k][2])
      /\ \A i \in 1 .. N : acks[i] = "Ok" => Confirmed(i)
      /\ \A k \in 1 .. Len(window) : window[k].st = "MaxPayloadExceeded" =>
            batch[window[k].i].size = "above the server's"
  BY DEF Justified, TooLarge
<1>5. ASSUME \A i \in 1 .. N : acks'[i] = "Ok" =>
                \E m \in stream' : MsgId(batch[m.i]) = MsgId(batch[i]),
             \A k \in 1 .. Len(window') : window'[k].st = "MaxPayloadExceeded" =>
                batch[window'[k].i].size = "above the server's",
             \A k \in 1 .. Len(outcomes') : Grown(outcomes'[k][1], outcomes'[k][2])
      PROVE  Justified'
  BY <1>1, <1>5, ZenonT(60)
     DEF Justified, TooLarge, Confirmed, Sendable, HasSubject
<1> HIDE DEF Right, Grown
<1>6. \A i \in 1 .. N : acks[i] = "Ok" =>
         \E m \in stream' : MsgId(batch[m.i]) = MsgId(batch[i])
  BY <1>1, <1>4, ZenonT(60) DEF Confirmed
<1>7. \A k \in 1 .. Len(outcomes) : Grown(outcomes[k][1], outcomes[k][2])
  BY <1>3, <1>4
<1>8. ASSUME NEW x, outcomes' = Append(outcomes, x), Grown(x[1], x[2])
      PROVE  \A k \in 1 .. Len(outcomes') : Grown(outcomes'[k][1], outcomes'[k][2])
  <2>1. /\ Len(outcomes') = Len(outcomes) + 1
        /\ \A k \in 1 .. Len(outcomes) : outcomes'[k] = outcomes[k]
        /\ outcomes'[Len(outcomes) + 1] = x
    BY <1>8 DEF Typed
  <2>2. \A k \in 1 .. Len(outcomes') : k \in 1 .. Len(outcomes) \/ k = Len(outcomes) + 1
    BY <1>1, <2>1
  <2> QED BY <1>7, <1>8, <2>1, <2>2
<1>9. CASE Prepare
  <2>1. window' = window /\ acks' = acks
    BY <1>9, PrepareAdds
  <2>2. CASE outcomes' = outcomes
    BY <1>4, <1>5, <1>6, <1>7, <2>1, <2>2, ZenonT(60)
  <2>3. CASE /\ ~ Sendable(batch[Turn])
             /\ \E error \in PrepareError : outcomes' = Append(outcomes, <<Turn, error>>)
    <3>1. PICK error \in PrepareError : outcomes' = Append(outcomes, <<Turn, error>>)
      BY <2>3
    <3>2. error \notin {"Ok", "MaxPayloadExceeded", "WrongLastMessage"}
      BY DEF PrepareError, MapError
    <3>3. Grown(Turn, error)
      BY <2>3, <3>2 DEF Grown
    <3>4. <<Turn, error>>[1] = Turn /\ <<Turn, error>>[2] = error
      OBVIOUS
    <3>5. \A k \in 1 .. Len(outcomes') : Grown(outcomes'[k][1], outcomes'[k][2])
      BY <1>8, <3>1, <3>3, <3>4, ZenonT(60)
    <3> QED BY <1>4, <1>5, <1>6, <2>1, <3>5
  <2> QED BY <1>9, <2>2, <2>3, PrepareAdds
<1>10. CASE OpenWindow
  <2>1. acks' = acks /\ outcomes' = outcomes
    BY <1>10 DEF OpenWindow
  <2>2. \A k \in 1 .. Len(window') : window'[k].st = "unsent"
    BY <1>10, WindowTakes
  <2> QED BY <1>5, <1>6, <1>7, <2>1, <2>2, ZenonT(60)
<1>11. ASSUME NEW k \in 1 .. Len(window), Send(k) \/ SendTimesOut(k)
       PROVE  Justified'
  <2>1. PICK outcome \in SendStates :
           /\ window' = [window EXCEPT ![k].st = outcome]
           /\ outcome = "MaxPayloadExceeded" => TooLarge(k)
    BY <1>11, SendChanges
  <2>2. /\ Len(window') = Len(window)
        /\ \A j \in 1 .. Len(window) : window'[j].i = window[j].i
        /\ \A j \in 1 .. Len(window) : window'[j].st = IF j = k THEN outcome ELSE window[j].st
    <3>1. DOMAIN window = 1 .. Len(window) /\ Len(window') = Len(window) /\ window[k] \in Sent
      BY <2>1, Members DEF Typed
    <3>2. [window[k] EXCEPT !.st = outcome].i = window[k].i
          /\ [window[k] EXCEPT !.st = outcome].st = outcome
      BY <3>1 DEF Sent
    <3> QED BY <2>1, <3>1, <3>2
  <2>3. acks' = acks /\ outcomes' = outcomes
    BY <1>11, SendChanges
  <2>4. \A j \in 1 .. Len(window') : window'[j].st = "MaxPayloadExceeded" =>
           batch[window'[j].i].size = "above the server's"
    BY <1>4, <2>1, <2>2, ZenonT(60) DEF TooLarge
  <2> QED BY <1>5, <1>6, <1>7, <2>3, <2>4
<1>12. CASE AwaitAck
  <2>1. /\ Len(window) \in Nat \ {0} /\ Len(window') = Len(window) - 1
        /\ \A k \in 1 .. Len(window) - 1 : window'[k] = window[k + 1]
    BY <1>12, AwaitAnswers, Behead, ZenonT(30) DEF Typed
  <2>2. /\ 1 \in 1 .. Len(window)
        /\ \A k \in 1 .. Len(window') :
              k + 1 \in 1 .. Len(window) /\ window'[k] = window[k + 1]
    BY <2>1
  <2>3. acks' = acks
    BY <1>12 DEF AwaitAck
  <2>4. PICK result \in Verdict \ PrepareError :
           /\ outcomes' = Append(outcomes, <<window[1].i, result>>)
           /\ \/ window[1].st = "sent" /\ acks[window[1].i] # None
                 /\ result = acks[window[1].i]
              \/ window[1].st = "sent" /\ acks[window[1].i] = None /\ result = "Timeout"
              \/ window[1].st # "sent" /\ result = window[1].st
    BY <1>12, AwaitAnswers
  <2>5. /\ window[1].i \in 1 .. N /\ window[1].st \in SendStates
        /\ Sendable(batch[window[1].i])
    BY <2>2, Elements DEF Carried
  <2>6. result = "Ok" => acks[window[1].i] = "Ok"
    BY <2>4, <2>5 DEF SendStates
  <2>7. /\ result = "MaxPayloadExceeded" => window[1].st = "MaxPayloadExceeded"
        /\ result # "WrongLastMessage"
    BY <1>1, <2>4, <2>5 DEF Answers, SendStates
  <2>8. Grown(window[1].i, result)
    BY <1>4, <1>6, <2>2, <2>5, <2>6, <2>7, ZenonT(60) DEF Grown
  <2>9. \A k \in 1 .. Len(outcomes') : Grown(outcomes'[k][1], outcomes'[k][2])
    <3> DEFINE x == <<window[1].i, result>>
    <3>1. x[1] = window[1].i /\ x[2] = result
      OBVIOUS
    <3>2. outcomes' = Append(outcomes, x)
      BY <2>4
    <3> HIDE DEF x
    <3> QED BY <1>8, <2>8, <3>1, <3>2
  <2>10. \A k \in 1 .. Len(window') : window'[k].st = "MaxPayloadExceeded" =>
            batch[window'[k].i].size = "above the server's"
    BY <1>4, <2>2, ZenonT(60)
  <2> QED BY <1>5, <1>6, <2>3, <2>9, <2>10
<1>13. CASE WindowDone \/ Return \/ DeadlinePasses
  <2>1. UNCHANGED <<window, acks, outcomes>>
    BY <1>13 DEF WindowDone, Return, DeadlinePasses
  <2> QED BY <1>4, <1>5, <1>6, <1>7, <2>1
<1>14. CASE PublishAgain
  <2>1. acks' = [i \in 1 .. N |-> None] /\ outcomes' = <<>> /\ window' = window
    BY <1>14 DEF PublishAgain
  <2>2. \A i \in 1 .. N : acks'[i] # "Ok"
    BY <2>1, NatsPublisherAssumption DEF Verdict
  <2>3. \A k \in 1 .. Len(outcomes') : Grown(outcomes'[k][1], outcomes'[k][2])
    <3>1. 1 .. Len(outcomes') = {}
      BY <2>1
    <3> QED BY <3>1
  <2>4. \A k \in 1 .. Len(window') : window'[k].st = "MaxPayloadExceeded" =>
           batch[window'[k].i].size = "above the server's"
    BY <1>4, <2>1, ZenonT(60)
  <2> QED BY <1>5, <2>2, <2>3, <2>4
<1>15. ASSUME NEW i \in 1 .. N, NEW answer \in Answers \cup {None}, Resolve(i, answer),
              answer = "Ok" => \E m \in stream' : MsgId(batch[m.i]) = MsgId(batch[i]),
              UNCHANGED <<window, outcomes>>
       PROVE  Justified'
  <2>1. \A j \in 1 .. N : acks'[j] = acks[j] \/ (j = i /\ acks'[j] = answer)
    <3>1. acks' = acks \/ acks' = [acks EXCEPT ![i] = answer]
      BY <1>15, ResolveHears
    <3> QED BY <1>1, <3>1, Zenon
  <2>2. \A j \in 1 .. N : acks'[j] = "Ok" =>
           \E m \in stream' : MsgId(batch[m.i]) = MsgId(batch[j])
    BY <1>6, <1>15, <2>1
  <2> QED BY <1>4, <1>5, <1>7, <1>15, <2>2
<1>16. ASSUME NEW i \in 1 .. N, AckFails(i) PROVE Justified'
  <2>1. PICK error \in Answers \ {"Ok"} : Resolve(i, error)
    BY <1>16 DEF AckFails, Answers
  <2>2. UNCHANGED <<window, outcomes>>
    BY <1>16 DEF AckFails
  <2> QED BY <1>15, <2>1, <2>2
<1>17. ASSUME NEW message \in net, Refuses(message) PROVE Justified'
  <2>1. PICK answer \in (Answers \cup {None}) \ {"Ok"} : Resolve(message.i, answer)
    BY <1>17, NatsPublisherAssumption, ZenonT(30)
       DEF Refuses, Answered, Answers, Verdict
  <2>2. UNCHANGED <<window, outcomes>>
    BY <1>17 DEF Refuses
  <2>3. message.i \in 1 .. N
    BY Elements
  <2> QED BY <1>15, <2>1, <2>2, <2>3
<1>18. ASSUME NEW message \in net, Stores(message) PROVE Justified'
  <2>1. PICK answer \in Answers \cup {None} : Resolve(message.i, answer)
    BY <1>18 DEF Stores, Answered, Answers
  <2>2. UNCHANGED <<window, outcomes>>
    BY <1>18 DEF Stores
  <2>3. message.i \in 1 .. N
    BY Elements
  <2>4. \E m \in stream' : MsgId(batch[m.i]) = MsgId(batch[message.i])
    BY <1>18, StoresKeeps
  <2> QED BY <1>15, <2>1, <2>2, <2>3, <2>4
<1> QED BY <1>9, <1>10, <1>11, <1>12, <1>13, <1>14, <1>16, <1>17, <1>18
           DEF Next, Runs

(* The call returns each verdict at its envelope's position.               *)
LEMMA ReturnedStep ==
    ASSUME BatchOK, Typed, Once, Covered, Returned, Next
    PROVE  Returned'
<1>1. N' = N /\ N \in Nat
  BY SameBatch DEF BatchOK, N
<1>2. CASE Return
  <2>1. pc = "windows" /\ prepared = <<>> /\ window = <<>>
    BY <1>2, ZenonT(30) DEF Return, Covered
  <2>3. \A j, k \in 1 .. Len(outcomes) : outcomes[j][1] = outcomes[k][1] => j = k
    BY Zenon DEF Once
  <2>4. \A i \in 1 .. N : \E k \in 1 .. Len(outcomes) : outcomes[k][1] = i
    <3>1. \A i : ~ Waits(i) /\ ~ Flies(i)
      BY <2>1 DEF Waits, Flies
    <3> QED BY <2>1, <3>1 DEF Covered, Ended
  <2>5. /\ Len(ByPosition(outcomes)) = N
        /\ \A k \in 1 .. Len(outcomes) : ByPosition(outcomes)[outcomes[k][1]] = outcomes[k][2]
    <3>1. /\ Len(outcomes) \in Nat /\ DOMAIN outcomes = 1 .. Len(outcomes)
          /\ \A k \in 1 .. Len(outcomes) : outcomes[k][1] \in 1 .. N
      BY Elements, Members DEF Typed
    <3>2. NameEach(outcomes, N)
      BY <2>3, <2>4, <3>1 DEF NameEach
    <3> QED BY <1>1, <3>2, SortedByPosition
  <2>6. results' = ByPosition(outcomes) /\ outcomes' = outcomes
    BY <1>2 DEF Return
  <2> QED BY <1>1, <2>5, <2>6 DEF Returned
<1>3. CASE ~ Return
  <2> DEFINE Kept == pc' # "done" \/ (pc = "done" /\ UNCHANGED <<results, outcomes>>)
  <2>1. Prepare \/ OpenWindow \/ AwaitAck \/ WindowDone => Kept
    BY DEF Prepare, OpenWindow, AwaitAck, WindowDone
  <2>2. PublishAgain \/ DeadlinePasses => Kept
    BY DEF PublishAgain, DeadlinePasses
  <2>3. \A k \in 1 .. Len(window) : SendTimesOut(k) \/ Send(k) => Kept
    BY DEF SendTimesOut, Send, SendEnds
  <2>4. /\ \A i \in 1 .. N : AckFails(i) => Kept
        /\ \A message \in net : Stores(message) \/ Refuses(message) => Kept
    BY DEF AckFails, Stores, Refuses
  <2> HIDE DEF Kept
  <2>5. Kept
    BY <1>3, <2>1, <2>2, <2>3, <2>4, Zenon DEF Next, Runs
  <2> QED BY <1>1, <2>5 DEF Returned, Kept
<1> QED BY <1>2, <1>3

(* The invariant is inductive: every step of the publisher, the network and*)
(* the server keeps it.                                                    *)
LEMMA BatchInvStep ==
    ASSUME BatchInv, [Next]_vars
    PROVE  BatchInv'
<1>1. CASE Next
  <2>1. BatchOK' /\ Typed' /\ Once' /\ Covered'
    BY <1>1, SameBatch, TypedStep, OnceStep DEF BatchInv
  <2>2. Carried' /\ OnePerId' /\ Heard' /\ AckedInTimeCounts'
    BY <1>1, CarriedStep, OnePerIdStep, HeardStep DEF BatchInv
  <2>3. Justified' /\ Returned'
    BY <1>1, JustifiedStep, ReturnedStep DEF BatchInv
  <2> QED BY <2>1, <2>2, <2>3 DEF BatchInv
<1>2. CASE UNCHANGED vars
  <2> USE <1>2 DEF vars
  <2>1. BatchOK' /\ Typed' /\ Carried' /\ Returned'
    <3>1. /\ N' = N /\ Headers' = Headers /\ Item' = Item /\ Sent' = Sent
          /\ Tagged' = Tagged /\ Messages' = Messages
      BY DEF N, Headers, Item, Sent, Tagged, Messages
    <3>2. BatchOK' /\ Typed' /\ Returned'
      BY <3>1 DEF BatchInv, BatchOK, Typed, Returned
    <3>3. Carried'
      BY ZenonT(30) DEF BatchInv, Carried, Sendable, HasSubject
    <3> QED BY <3>2, <3>3
  <2>2. Once' /\ Covered'
    BY ZenonT(60) DEF BatchInv, Once, Covered, Waits, Flies, Ended, Turn, N
  <2>3. OnePerId' /\ Heard' /\ AckedInTimeCounts' /\ Justified'
    BY ZenonT(30)
       DEF BatchInv, OnePerId, Heard, AckedInTimeCounts, Justified, Confirmed, TooLarge,
           Sendable, HasSubject, N
  <2> QED BY <2>1, <2>2, <2>3 DEF BatchInv
<1> QED BY <1>1, <1>2

(* A batch that is handed to publish_batch satisfies the invariant.        *)
LEMMA BatchInvInit ==
    ASSUME NEW subjects, NEW Envelopes, NEW envelopes \in Seq(Envelopes),
           \A e \in Envelopes : IsEnvelope(e), InitWith(subjects, envelopes)
    PROVE  BatchInv
<1>1. N \in Nat /\ batch = envelopes
  BY DEF InitWith, N
<1>2. BatchOK
  <2>1. \A i \in 1 .. N : batch[i] \in Envelopes
    BY <1>1, Members DEF N
  <2>2. batch \in Seq(Range(batch))
    BY <1>1 DEF Range
  <2> QED BY <2>1, <2>2 DEF BatchOK
<1>3. /\ prepared = <<>> /\ window = <<>> /\ outcomes = <<>> /\ net = {} /\ stream = {}
      /\ acks = [i \in 1 .. N |-> None] /\ in_time = {} /\ late = FALSE /\ round = 1
      /\ pc = IF N = 0 THEN "windows" ELSE "prepare"
  BY DEF InitWith
<1>4. Typed
  <2>1. prepared \in Seq(Item) /\ window \in Seq(Sent) /\ outcomes \in Seq(Tagged)
    BY <1>3
  <2>2. Len(window) <= Depth /\ round \in 1 .. MaxRounds
    BY <1>3, NatsPublisherAssumption
  <2>3. acks \in [1 .. N -> Answers \cup {None}]
    BY <1>3
  <2> QED BY <1>1, <1>3, <2>1, <2>2, <2>3, ZenonT(30) DEF Typed
<1>5. \A i : ~ Waits(i) /\ ~ Flies(i) /\ ~ Ended(i)
  BY <1>3 DEF Waits, Flies, Ended
<1>6. Once
  <2>1. \A k : /\ k \notin 1 .. Len(prepared) /\ k \notin 1 .. Len(window)
               /\ k \notin 1 .. Len(outcomes)
    BY <1>3
  <2> QED BY <1>5, <2>1, ZenonT(60) DEF Once
<1>7. Covered
  <2>1. Turn = 1
    BY <1>3 DEF Turn
  <2> QED BY <1>1, <1>3, <1>5, <2>1 DEF Covered
<1>8. Carried /\ OnePerId /\ Heard /\ AckedInTimeCounts /\ Returned
  <2>1. Carried
    BY <1>3 DEF Carried
  <2>2. OnePerId
    BY <1>3 DEF OnePerId
  <2>3. Heard
    BY <1>1, <1>3 DEF Heard
  <2>4. AckedInTimeCounts
    BY <1>3 DEF AckedInTimeCounts
  <2>5. Returned
    BY <1>1, <1>3 DEF Returned
  <2> QED BY <2>1, <2>2, <2>3, <2>4, <2>5
<1>9. Justified
  <2>1. \A i \in 1 .. N : acks[i] # "Ok"
    BY <1>3, NatsPublisherAssumption DEF Verdict
  <2> QED BY <1>3, <2>1 DEF Justified
<1> QED BY <1>2, <1>4, <1>6, <1>7, <1>8, <1>9 DEF BatchInv

-----------------------------------------------------------------------------
(* The theorems: for every batch of envelopes, whatever was sent, refused, *)
(* answered late or lost, and however often the batch is published.        *)

(* The invariant holds throughout, for every batch of envelopes.           *)
LEMMA BatchInvariant ==
    ASSUME NEW CONSTANT subjects, NEW CONSTANT Envelopes,
           NEW CONSTANT envelopes \in Seq(Envelopes), \A e \in Envelopes : IsEnvelope(e)
    PROVE  BatchSpec(subjects, envelopes) => []BatchInv
<1>1. InitWith(subjects, envelopes) => BatchInv
  BY BatchInvInit
<1>2. BatchInv /\ [Next]_vars => BatchInv'
  BY BatchInvStep
<1> QED BY <1>1, <1>2, PTL DEF BatchSpec

(* Every verdict is a known one and belongs to an envelope of the batch,   *)
(* and publish_batch never has more sends in flight than                   *)
(* batch_pipeline_depth.                                                   *)
THEOREM BatchTyped ==
    ASSUME NEW CONSTANT subjects, NEW CONSTANT Envelopes,
           NEW CONSTANT envelopes \in Seq(Envelopes), \A e \in Envelopes : IsEnvelope(e)
    PROVE  BatchSpec(subjects, envelopes) => []TypeOK
<1>1. BatchInv => TypeOK
  <2> SUFFICES ASSUME BatchInv PROVE TypeOK
    OBVIOUS
  <2>1. \A k \in 1 .. Len(outcomes) : outcomes[k][1] \in 1 .. N /\ outcomes[k][2] \in Verdict
    BY Elements DEF BatchInv
  <2> QED BY <2>1 DEF BatchInv, Typed, TypeOK
<1> QED BY <1>1, BatchInvariant, PTL

(* publish_batch returns one result per envelope, in the order of the      *)
(* batch: what its comment on the length and positional invariant claims.  *)
(* An Ok is only returned for an envelope whose Nats-Msg-Id the stream     *)
(* holds, and a preparation error for exactly those that cannot be sent.   *)
THEOREM ResultsArePositional ==
    ASSUME NEW CONSTANT subjects, NEW CONSTANT Envelopes,
           NEW CONSTANT envelopes \in Seq(Envelopes), \A e \in Envelopes : IsEnvelope(e)
    PROVE  BatchSpec(subjects, envelopes) => []Positional
<1>1. BatchInv => Positional
  <2> SUFFICES ASSUME BatchInv, pc = "done", NEW i \in 1 .. N
               PROVE  /\ Len(results) = N
                      /\ results[i] = "Ok" =>
                            \E m \in stream : MsgId(batch[m.i]) = MsgId(batch[i])
                      /\ results[i] \in PrepareError <=> ~ Sendable(batch[i])
    <3>1. ASSUME BatchInv, pc = "done" PROVE Len(results) = N
      BY <3>1, ZenonT(60) DEF BatchInv, Returned
    <3> QED BY <3>1, ZenonT(60) DEF Positional, Sendable
  <2>1. PICK k \in 1 .. Len(outcomes) : outcomes[k][1] = i
    <3>1. prepared = <<>> /\ window = <<>>
      BY DEF BatchInv, Covered
    <3>2. ~ Waits(i) /\ ~ Flies(i)
      BY <3>1 DEF Waits, Flies
    <3>3. Ended(i)
      BY <3>2 DEF BatchInv, Covered
    <3> QED BY <3>3 DEF Ended
  <2>2. results[i] = outcomes[k][2] /\ Len(results) = N
    BY <2>1 DEF BatchInv, Returned
  <2> QED BY <2>1, <2>2, ZenonT(30) DEF BatchInv, Justified, Confirmed
<1> QED BY <1>1, BatchInvariant, PTL

(* What publish_batch calls permanent, and the dispatcher gives up, is     *)
(* neither in the stream nor on its way there.                             *)
THEOREM PermanentNeverStored ==
    ASSUME NEW CONSTANT subjects, NEW CONSTANT Envelopes,
           NEW CONSTANT envelopes \in Seq(Envelopes), \A e \in Envelopes : IsEnvelope(e)
    PROVE  BatchSpec(subjects, envelopes) => []PermanentIsNotStored
<1>1. BatchInv => PermanentIsNotStored
  <2> SUFFICES ASSUME BatchInv, pc = "done", NEW i \in 1 .. N, NEW m \in stream \cup net,
                      IsPermanent(results[i]), m.i = i
               PROVE  FALSE
    BY DEF PermanentIsNotStored
  <2>1. PICK k \in 1 .. Len(outcomes) : outcomes[k][1] = i
    <3>1. prepared = <<>> /\ window = <<>>
      BY DEF BatchInv, Covered
    <3>2. ~ Waits(i) /\ ~ Flies(i)
      BY <3>1 DEF Waits, Flies
    <3>3. Ended(i)
      BY <3>2 DEF BatchInv, Covered
    <3> QED BY <3>3 DEF Ended
  <2>2. results[i] = outcomes[k][2]
    BY <2>1 DEF BatchInv, Returned
  <2>3. ~ Sendable(batch[i]) \/ batch[i].size = "above the server's"
    BY <2>1, <2>2 DEF BatchInv, Justified, IsPermanent
  <2>4. Sendable(batch[m.i]) /\ batch[m.i].size # "above the server's"
    BY Zenon DEF BatchInv, Carried
  <2> QED BY <2>3, <2>4
<1> QED BY <1>1, BatchInvariant, PTL

(* An ack that arrived before its window's deadline is the verdict that is *)
(* reported, however long its neighbours were waited for.                  *)
THEOREM AcksInTimeCount ==
    ASSUME NEW CONSTANT subjects, NEW CONSTANT Envelopes,
           NEW CONSTANT envelopes \in Seq(Envelopes), \A e \in Envelopes : IsEnvelope(e)
    PROVE  BatchSpec(subjects, envelopes) => []AckedInTimeCounts
<1>1. BatchInv => AckedInTimeCounts
  BY DEF BatchInv
<1> QED BY <1>1, BatchInvariant, PTL

(* However often a batch is published, the stream keeps one copy of each   *)
(* envelope: encode writes the same Nats-Msg-Id every time.                *)
THEOREM NoSecondCopy ==
    ASSUME NEW CONSTANT subjects, NEW CONSTANT Envelopes,
           NEW CONSTANT envelopes \in Seq(Envelopes), \A e \in Envelopes : IsEnvelope(e)
    PROVE  BatchSpec(subjects, envelopes) => []StoredOnce
<1>1. BatchInv => StoredOnce
  BY ZenonT(60) DEF BatchInv, OnePerId, StoredOnce
<1> QED BY <1>1, BatchInvariant, PTL

(* What is in the stream decodes into the envelope that was published, up  *)
(* to the two normalisations of the mapper, whatever its headers are.      *)
THEOREM StoredRoundTrip ==
    ASSUME NEW CONSTANT subjects, NEW CONSTANT Envelopes,
           NEW CONSTANT envelopes \in Seq(Envelopes), \A e \in Envelopes : IsEnvelope(e)
    PROVE  BatchSpec(subjects, envelopes) => []StoredDecodes
<1>1. BatchInv => StoredDecodes
  <2> SUFFICES ASSUME BatchInv, NEW m \in stream
               PROVE  IF batch[m.i].type = Empty
                      THEN /\ resolver = "destination"
                           /\ decode(Delivered(m.headers)).error = "MalformedHeader"
                      ELSE decode(Delivered(m.headers)) = Normal(batch[m.i])
    BY DEF StoredDecodes, Delivered
  <2> DEFINE e == batch[m.i]
  <2>1. m.i \in 1 .. N /\ Sendable(e) /\ m.headers = Wire(e)
    BY Elements DEF BatchInv, Carried
  <2>2. IsEnvelope(e) /\ Expressible(e) /\ HasSubject(e)
    BY <2>1, Zenon DEF BatchInv, BatchOK, Sendable
  <2>3. IF e.type = Empty THEN decode(Delivered(m.headers)).error = "MalformedHeader"
                          ELSE decode(Delivered(m.headers)) = Normal(e)
    BY <2>1, <2>2, RoundTrip
  <2>4. e.type = Empty => resolver = "destination"
    BY <2>2 DEF HasSubject, IsSubject
  <2> QED BY <2>3, <2>4
<1> QED BY <1>1, BatchInvariant, PTL

-----------------------------------------------------------------------------
(* The outbox on the way: rows, and the loop that reads a claim.           *)

(* One turn of the loop of acquire, which has read what f gives for the    *)
(* rows before.                                                            *)
ReadTurn(rows, f, k) ==
    IF k = 0 THEN <<>>
    ELSE IF Decodable(rows[k]) THEN Append(f[k - 1], decode_row(rows[k]))
    ELSE f[k - 1]

(* f is what the loop has collected after each of its first n turns.       *)
Reads(rows, f, n) == f = [k \in 0 .. n |-> ReadTurn(rows, f, k)]

(* The loop runs: for every sequence of rows there is such an f.           *)
LEMMA LoopRuns ==
    ASSUME NEW rows, NEW n \in Nat
    PROVE  \E f : Reads(rows, f, n)
<1> DEFINE Bad == {j \in 0 .. n : ~ \E f : Reads(rows, f, j)}
<1> SUFFICES ASSUME Bad # {} PROVE FALSE
  OBVIOUS
<1>1. PICK j \in Bad : \A i \in Bad : j <= i
  <2>1. Bad \in SUBSET Nat
    OBVIOUS
  <2> QED BY <2>1, LeastMember, Zenon
<1>2. j \in 0 .. n /\ ~ \E f : Reads(rows, f, j)
  BY <1>1
<1>3. CASE j = 0
  <2> DEFINE f == [k \in 0 .. 0 |-> <<>>]
  <2>1. Reads(rows, f, 0)
    BY DEF Reads, ReadTurn
  <2> QED BY <1>2, <1>3, <2>1
<1>4. CASE j # 0
  <2>1. j - 1 \in 0 .. n /\ ~ (j <= j - 1)
    BY <1>2, <1>4
  <2>2. PICK f : Reads(rows, f, j - 1)
    BY <1>1, <2>1
  <2> DEFINE g == [k \in 0 .. j |-> IF k = j THEN ReadTurn(rows, f, j) ELSE f[k]]
  <2>3. \A k \in 0 .. j - 1 : g[k] = f[k] /\ f[k] = ReadTurn(rows, f, k)
    BY <1>2, <2>2 DEF Reads
  <2>4. ASSUME NEW k \in 0 .. j PROVE g[k] = ReadTurn(rows, g, k)
    <3>1. k = 0 \/ (k - 1 \in 0 .. j - 1)
      BY <1>2
    <3>2. ReadTurn(rows, g, k) = ReadTurn(rows, f, k)
      BY <2>3, <3>1 DEF ReadTurn
    <3>3. k = j \/ k \in 0 .. j - 1
      BY <1>2
    <3> QED BY <2>3, <3>2, <3>3, ZenonT(60)
  <2>5. Reads(rows, g, j)
    <3>1. g = [k \in 0 .. j |-> g[k]]
      OBVIOUS
    <3> HIDE DEF g
    <3> QED BY <2>4, <3>1 DEF Reads
  <2> QED BY <1>2, <2>5
<1> QED BY <1>3, <1>4

(* x is a member of the sequence s.                                        *)
In(x, s) == \E i \in 1 .. Len(s) : s[i] = x

(* acquire returns the decoded row for every row that decodes, and nothing *)
(* else: a row that does not decode keeps no other from the claim.         *)
LEMMA ReadsAll ==
    ASSUME NEW rows, Len(rows) \in Nat
    PROVE  /\ \E S : Records(rows) \in Seq(S)
           /\ \A x : In(x, Records(rows)) <=>
                 \E i \in 1 .. Len(rows) : Decodable(rows[i]) /\ x = decode_row(rows[i])
<1> DEFINE n == Len(rows)
           S == {decode_row(rows[i]) : i \in 1 .. n}
           r == CHOOSE f : Reads(rows, f, n)
           Right(k) ==
               /\ r[k] \in Seq(S)
               /\ \A x : In(x, r[k]) <=>
                     \E i \in 1 .. k : Decodable(rows[i]) /\ x = decode_row(rows[i])
           Bad == {k \in 0 .. n : ~ Right(k)}
<1>1. Records(rows) = r[n]
  BY DEF Records, Reads, ReadTurn
<1>2. Reads(rows, r, n)
  BY LoopRuns
<1> HIDE DEF r
<1>3. \A k \in 0 .. n : r[k] = ReadTurn(rows, r, k)
  BY <1>2 DEF Reads
<1>4. Right(0)
  <2>1. r[0] = <<>>
    BY <1>3 DEF ReadTurn
  <2> QED BY <2>1 DEF In
<1>5. ASSUME NEW k \in 1 .. n, Right(k - 1) PROVE Right(k)
  <2>1. r[k] = IF Decodable(rows[k]) THEN Append(r[k - 1], decode_row(rows[k]))
               ELSE r[k - 1]
    BY <1>3 DEF ReadTurn
  <2>2. \A i : i \in 1 .. k <=> i \in 1 .. k - 1 \/ i = k
    OBVIOUS
  <2>3. CASE ~ Decodable(rows[k])
    <3>1. r[k] = r[k - 1]
      BY <2>1, <2>3
    <3> QED BY <1>5, <2>2, <2>3, <3>1, Zenon
  <2>4. CASE Decodable(rows[k])
    <3> DEFINE s == r[k - 1]
               y == decode_row(rows[k])
    <3>1. s \in Seq(S) /\ y \in S /\ r[k] = Append(s, y)
      BY <1>5, <2>1, <2>4
    <3> HIDE DEF s, y, S
    <3>2. r[k] \in Seq(S) /\ \A x : In(x, r[k]) <=> In(x, s) \/ x = y
      <4>1. /\ r[k] \in Seq(S) /\ Len(s) \in Nat /\ Len(r[k]) = Len(s) + 1
            /\ \A i \in 1 .. Len(s) : r[k][i] = s[i]
            /\ r[k][Len(s) + 1] = y
        BY <3>1
      <4>2. \A i : i \in 1 .. Len(r[k]) <=> i \in 1 .. Len(s) \/ i = Len(s) + 1
        BY <4>1
      <4> QED BY <4>1, <4>2, Zenon DEF In
    <3>3. \A x : In(x, s) <=>
             \E i \in 1 .. k - 1 : Decodable(rows[i]) /\ x = decode_row(rows[i])
      BY <1>5 DEF s
    <3>4. \A x : In(x, r[k]) <=>
             \E i \in 1 .. k : Decodable(rows[i]) /\ x = decode_row(rows[i])
      BY <2>2, <2>4, <3>2, <3>3, Zenon DEF y
    <3> QED BY <3>2, <3>4 DEF S
  <2> QED BY <2>3, <2>4
<1>6. Bad = {}
  <2> SUFFICES ASSUME Bad # {} PROVE FALSE
    BY ZenonT(60)
  <2>1. PICK k \in Bad : \A i \in Bad : k <= i
    <3>1. Bad \in SUBSET Nat
      OBVIOUS
    <3> HIDE DEF Bad
    <3> QED BY <3>1, LeastMember, Zenon
  <2> HIDE DEF Right
  <2>2. k \in 1 .. n /\ k - 1 \in 0 .. n /\ ~ (k <= k - 1) /\ ~ Right(k)
    BY <1>4, <2>1
  <2>3. Right(k - 1)
    BY <2>1, <2>2
  <2> QED BY <1>5, <2>2, <2>3
<1>7. Right(n)
  <2> HIDE DEF Right
  <2> QED BY <1>6
<1> QED BY <1>1, <1>7


(* None stands for what is missing, and is not a document.                 *)
NoneIsNoFunction == \A S, f : f = [x \in S |-> f[x]] => f # None

(* The metadata that comes back from a row with the document d.            *)
RestOf(d) ==
    [f \in RestFields |->
        IF d = None THEN None ELSE IF f \in DOMAIN d THEN d[f] ELSE None]

(* The document of a row, as a release writes it.                          *)
DocumentBy(writer, d) ==
    LET document == IF d = None THEN <<>> ELSE d
        known == {f \in DOMAIN document : document[f] # None}
    IN  CASE writer = "older"  -> IF d = None THEN None ELSE [f \in known |-> document[f]]
          [] writer = "newer"  -> Over([f \in {"baggage"} |-> "b"], document)
          [] writer = "edited" -> Over([f \in Addresses |-> Empty], document)
          [] OTHER             -> d

(* What insert_row stores of a document: nothing when there is nothing.    *)
Stored(doc) == IF \A f \in RestFields : doc[f] = None THEN None ELSE doc

(* A document is read back as it was meant, also when an older release     *)
(* left out what it does not know, a newer one added a key, or nothing was *)
(* stored.  Serde's default makes up for the difference.                   *)
LEMMA DocumentReturns ==
    ASSUME NoneIsNoFunction, NEW doc, doc = [f \in RestFields |-> doc[f]],
           NEW writer \in Readable \cup {"next"}
    PROVE  RestOf(DocumentBy(writer, Stored(doc))) = doc
<1> DEFINE d == Stored(doc)
           back == RestOf(DocumentBy(writer, d))
<1>1. SUFFICES ASSUME NEW f \in RestFields PROVE back[f] = doc[f]
  <2>1. back = [f \in RestFields |-> back[f]]
    BY DEF RestOf
  <2> SUFFICES back = doc
    OBVIOUS
  <2> HIDE DEF back
  <2> QED BY <2>1
<1>2. doc # None
  BY Zenon DEF NoneIsNoFunction
<1>3. DOMAIN doc = RestFields
  OBVIOUS
<1>4. back[f] = LET w == DocumentBy(writer, d) IN
                IF w = None THEN None ELSE IF f \in DOMAIN w THEN w[f] ELSE None
  BY DEF RestOf
<1>5. f # "baggage"
  BY OutboxDeliveryAssumption
<1>6. CASE writer \in {"this", "next"}
  <2>1. DocumentBy(writer, d) = d
    BY <1>6 DEF DocumentBy
  <2> QED BY <1>2, <1>3, <1>4, <2>1 DEF Stored
<1>7. CASE writer = "older"
  <2>1. CASE d = None
    <3>1. DocumentBy(writer, d) = None
      BY <1>7, <2>1 DEF DocumentBy
    <3> QED BY <1>2, <1>4, <2>1, <3>1 DEF Stored
  <2>2. CASE d # None
    <3> DEFINE known == {g \in RestFields : doc[g] # None}
               w == [g \in known |-> doc[g]]
    <3>1. d = doc
      BY <2>2 DEF Stored
    <3>2. DocumentBy(writer, d) = w
      BY <1>3, <1>7, <2>2, <3>1 DEF DocumentBy
    <3>3. w # None
      <4>1. w = [g \in known |-> w[g]]
        OBVIOUS
      <4> HIDE DEF w, known
      <4> QED BY <4>1, Zenon DEF NoneIsNoFunction
    <3>4. f \in DOMAIN w <=> doc[f] # None
      OBVIOUS
    <3>5. f \in DOMAIN w => w[f] = doc[f]
      OBVIOUS
    <3> HIDE DEF w
    <3> QED BY <1>4, <3>2, <3>3, <3>4, <3>5
  <2> QED BY <2>1, <2>2
<1>8. CASE writer = "newer"
  <2> DEFINE more == [g \in {"baggage"} |-> "b"]
             document == IF d = None THEN <<>> ELSE d
             w == Over(more, document)
  <2>1. DocumentBy(writer, d) = w
    BY <1>8 DEF DocumentBy
  <2>2. /\ f \in DOMAIN w <=> f \in DOMAIN document
        /\ f \in DOMAIN document => w[f] = document[f]
    BY <1>5 DEF Over
  <2>3. w # None
    <3> DEFINE S == DOMAIN more \cup DOMAIN document
    <3>1. w = [g \in S |-> w[g]]
      BY DEF Over
    <3> HIDE DEF w, S
    <3> QED BY <3>1, Zenon DEF NoneIsNoFunction
  <2>4. CASE d = None
    <3>1. f \notin DOMAIN document
      BY <2>4
    <3>2. doc[f] = None
      BY <1>2, <2>4 DEF Stored
    <3> HIDE DEF w, document
    <3> QED BY <1>4, <2>1, <2>2, <3>1, <3>2
  <2>5. CASE d # None
    <3>1. document = doc
      BY <2>5 DEF Stored
    <3> HIDE DEF w, document
    <3> QED BY <1>3, <1>4, <2>1, <2>2, <2>3, <3>1
  <2> QED BY <2>4, <2>5
<1> QED BY <1>6, <1>7, <1>8 DEF Readable

(* A document edited by hand is seen to be wrong.                          *)
LEMMA EditShows ==
    ASSUME NoneIsNoFunction, NEW d, NEW f \in Addresses
    PROVE  RestOf(DocumentBy("edited", d))[f] = Empty
<1> DEFINE more == [g \in Addresses |-> Empty]
           document == IF d = None THEN <<>> ELSE d
           w == Over(more, document)
<1>1. DocumentBy("edited", d) = w
  BY DEF DocumentBy
<1>2. f \in DOMAIN w /\ w[f] = Empty
  BY DEF Over
<1>3. w # None
  <2> DEFINE S == DOMAIN more \cup DOMAIN document
  <2>1. w = [g \in S |-> w[g]]
    BY DEF Over
  <2> HIDE DEF w, S
  <2> QED BY <2>1, Zenon DEF NoneIsNoFunction
<1>4. f \in RestFields
  BY OutboxRecordsAssumption DEF RestFields, Fields
<1> HIDE DEF w
<1> QED BY <1>1, <1>2, <1>3, <1>4 DEF RestOf

(* An envelope after its time in a row with the content type c: a document *)
(* and a column each cut one timestamp.                                    *)
Cut(f, v) ==
    IF f = "sent_at" THEN encode_epoch_millis(v)
    ELSE IF f = "expires_at" THEN timestamptz(v)
    ELSE v

FromRow(b, c) ==
    [id |-> b.id, type |-> b.type, content_type |-> c,
     meta |-> [f \in Fields |-> Cut(f, b.meta[f])],
     dedup |-> b.dedup, custom |-> b.custom, size |-> b.size]

(* The row of an envelope decodes when a release that knows the version of *)
(* the document wrote it, and then gives the envelope back.                *)
LEMMA RowReturns ==
    ASSUME NoneIsNoFunction, NEW b, b.custom # None, NEW c,
           \A f \in Addresses : b.meta[f] \notin {Empty, Illegal},
           NEW writer \in Readable \cup {"next", "edited"}
    PROVE  LET row == Written(writer, insert_row(b, c)) IN
           /\ Decodable(row) <=> writer \in Readable
           /\ writer \in Readable => decode_row(row) = FromRow(b, c)
<1> DEFINE doc == MetadataRest(b)
           r == Row(b, c, Stored(doc))
           row == Written(writer, insert_row(b, c))
<1>1. /\ doc = [f \in RestFields |-> doc[f]]
      /\ doc["deduplication_id"] = b.dedup
      /\ \A f \in Fields \ Promoted :
            doc[f] = Cut(f, b.meta[f])
  BY OutboxRecordsAssumption DEF MetadataRest, RestFields, Cut
<1>2. row = Written(writer, r)
  BY DEF insert_row, Stored
<1>3. /\ r.id = b.id /\ r.type = b.type /\ r.content_type = c
      /\ r.columns = [f \in Promoted |->
                         IF f = "expires_at" THEN timestamptz(b.meta[f]) ELSE b.meta[f]]
      /\ r.metadata = Stored(doc)
      /\ r.headers = IF b.custom = <<>> THEN None ELSE b.custom
      /\ r.metadata_version = METADATA_VERSION
      /\ r.size = b.size
  BY ZenonT(60) DEF Row
<1>4. /\ row.id = r.id /\ row.type = r.type /\ row.content_type = r.content_type
      /\ row.columns = r.columns /\ row.headers = r.headers /\ row.size = r.size
      /\ row.metadata_version = IF writer = "next" THEN METADATA_VERSION + 1
                                ELSE METADATA_VERSION
      /\ row.metadata = DocumentBy(writer, Stored(doc))
  <2> HIDE DEF doc
  <2> QED BY <1>2, <1>3, SMTT(30) DEF Written, DocumentBy, Row, Readable
<1>5. Rest(row) = RestOf(row.metadata)
  <2> HIDE DEF row
  <2> QED BY DEF Rest, RestOf
<1> HIDE DEF doc, r, row
<1>6. writer # "edited" => Rest(row) = doc
  BY <1>1, <1>4, <1>5, DocumentReturns
<1>7. Decodable(row) <=> writer \in Readable
  <2>1. CASE writer = "next"
    BY <1>4, <2>1 DEF Decodable, Readable, METADATA_VERSION
  <2>2. CASE writer = "edited"
    <3>1. PICK f \in Addresses : TRUE
      BY OutboxDeliveryAssumption
    <3>2. Rest(row)[f] = Empty
      BY <1>4, <1>5, <2>2, EditShows, ZenonT(60)
    <3> QED BY <2>2, <3>2 DEF Decodable, Readable
  <2>3. CASE writer \in Readable
    <3>1. writer \notin {"next", "edited"}
      BY <2>3 DEF Readable
    <3>2. ASSUME NEW f \in Addresses PROVE doc[f] \notin {Empty, Illegal}
      <4>1. f \in Fields \ Promoted
        BY OutboxRecordsAssumption DEF Fields
      <4> QED BY <1>1, <4>1 DEF Cut, encode_epoch_millis, timestamptz, Empty, Illegal
    <3> QED BY <1>4, <1>6, <2>3, <3>1, <3>2, ZenonT(60) DEF Decodable
  <2> QED BY <2>1, <2>2, <2>3
<1>8. ASSUME writer \in Readable PROVE decode_row(row) = FromRow(b, c)
  <2>1. Rest(row) = doc
    BY <1>6, <1>8 DEF Readable
  <2>2. /\ row.id = b.id /\ row.type = b.type /\ row.content_type = c
        /\ row.size = b.size
        /\ (IF row.headers = None THEN <<>> ELSE row.headers) = b.custom
        /\ Rest(row)["deduplication_id"] = b.dedup
    BY <1>1, <1>3, <1>4, <2>1
  <2>3. [f \in Fields |-> IF f \in Promoted THEN row.columns[f] ELSE Rest(row)[f]]
           = [f \in Fields |-> Cut(f, b.meta[f])]
    <3>1. ASSUME NEW f \in Fields
          PROVE  (IF f \in Promoted THEN row.columns[f] ELSE Rest(row)[f])
                    = Cut(f, b.meta[f])
      <4>1. CASE f \in Promoted
        BY <1>3, <1>4, <4>1, OutboxRecordsAssumption DEF Cut
      <4>2. CASE f \notin Promoted
        BY <1>1, <2>1, <4>2
      <4> QED BY <4>1, <4>2
    <3> QED BY <3>1, ZenonT(60)
  <2> QED BY <2>2, <2>3, Zenon DEF decode_row, FromRow
<1> QED BY <1>7, <1>8 DEF row

(* EnvelopeBuilder::build touches the conversation only.                   *)
LEMMA BuildRoots ==
    ASSUME NEW e, IsBuilt(e)
    PROVE  /\ build(e) = [e EXCEPT !.meta["conversation_id"] =
                             IF @ = None THEN e.id ELSE @]
           /\ build(e).id = e.id /\ build(e).type = e.type
           /\ build(e).content_type = e.content_type /\ build(e).dedup = e.dedup
           /\ build(e).custom = e.custom /\ build(e).size = e.size
           /\ build(e).meta = [f \in Fields |->
                 IF f = "conversation_id" /\ e.meta[f] = None THEN e.id ELSE e.meta[f]]
<1> DEFINE meta == [f \in Fields |->
               IF f = "conversation_id" /\ e.meta[f] = None THEN e.id ELSE e.meta[f]]
<1>1. "conversation_id" \in Fields
  BY OutboxRecordsAssumption DEF Fields
<1>2. e = [id |-> e.id, type |-> e.type, content_type |-> e.content_type,
           meta |-> e.meta, dedup |-> e.dedup, custom |-> e.custom, size |-> e.size]
  BY DEF IsBuilt
<1>3. e.meta = [f \in Fields |-> e.meta[f]]
  BY DEF IsBuilt
<1>4. CASE e.meta["conversation_id"] # None
  <2>1. build(e) = e
    BY <1>4 DEF build
  <2>2. meta = e.meta
    BY <1>3, <1>4
  <2>3. [e EXCEPT !.meta["conversation_id"] = IF @ = None THEN e.id ELSE @] = e
    BY <1>1, <1>2, <1>3, <1>4
  <2> QED BY <2>1, <2>2, <2>3
<1>5. CASE e.meta["conversation_id"] = None
  <2>1. build(e) = [e EXCEPT !.meta["conversation_id"] = e.id]
    BY <1>5 DEF build
  <2>2. [e EXCEPT !.meta["conversation_id"] = IF @ = None THEN e.id ELSE @] = build(e)
    BY <1>5, <2>1
  <2>3. meta = [e.meta EXCEPT !["conversation_id"] = e.id]
    BY <1>1, <1>3, <1>5
  <2>4. [e EXCEPT !.meta["conversation_id"] = e.id]
           = [id |-> e.id, type |-> e.type, content_type |-> e.content_type,
              meta |-> meta, dedup |-> e.dedup, custom |-> e.custom, size |-> e.size]
    <3>1. [e EXCEPT !.meta["conversation_id"] = e.id] = [e EXCEPT !.meta = meta]
      BY <1>2, <2>3
    <3> HIDE DEF meta
    <3> QED BY <1>2, <3>1
  <2> HIDE DEF meta
  <2> QED BY <2>1, <2>2, <2>4 DEF meta
<1> QED BY <1>4, <1>5

(* What a message becomes on its route, field by field.                    *)
LEMMA ExpectedFields ==
    ASSUME NEW e, IsBuilt(e), route \in {"direct", "stage", "enqueue"}
    PROVE  /\ IsEnvelope(Expected(e))
           /\ Expected(e).id = e.id /\ Expected(e).custom = e.custom
           /\ route = "direct" => Expected(e) = build(e)
           /\ route # "direct" =>
                 Expected(e) = FromRow(build(e), IF route = "enqueue" THEN StoreContent
                                                 ELSE e.content_type)
<1> DEFINE b == build(e)
           c == IF route = "enqueue" THEN StoreContent ELSE e.content_type
<1>1. /\ b.id = e.id /\ b.type = e.type /\ b.content_type = e.content_type
      /\ b.dedup = e.dedup /\ b.custom = e.custom /\ b.size = e.size
      /\ b.meta = [f \in Fields |-> b.meta[f]]
  <2>1. /\ b.id = e.id /\ b.type = e.type /\ b.content_type = e.content_type
        /\ b.dedup = e.dedup /\ b.custom = e.custom /\ b.size = e.size
    BY BuildRoots, Zenon
  <2>2. b.meta = [f \in Fields |-> IF f = "conversation_id" /\ e.meta[f] = None THEN e.id
                                   ELSE e.meta[f]]
    BY BuildRoots, Zenon
  <2> HIDE DEF b
  <2>3. b.meta = [f \in Fields |-> b.meta[f]]
    BY <2>2
  <2> QED BY <2>1, <2>3
<1>2. b = [id |-> b.id, type |-> b.type, content_type |-> b.content_type,
           meta |-> b.meta, dedup |-> b.dedup, custom |-> b.custom, size |-> b.size]
  <2>1. e = [id |-> e.id, type |-> e.type, content_type |-> e.content_type,
             meta |-> e.meta, dedup |-> e.dedup, custom |-> e.custom, size |-> e.size]
    BY DEF IsBuilt
  <2> QED BY <2>1 DEF build
<1>3. Expected(e) = IF route = "direct" THEN b
                    ELSE [b EXCEPT !.meta["sent_at"] = IF @ = "1.5 ms" THEN "1 ms" ELSE @,
                                   !.meta["expires_at"] =
                                       IF @ = "1.5 us" THEN "1 us" ELSE @,
                                   !.content_type =
                                       IF route = "enqueue" THEN StoreContent ELSE @]
  <2>1. b = [e EXCEPT !.meta["conversation_id"] = IF @ = None THEN e.id ELSE @]
    BY BuildRoots, Zenon
  <2> HIDE DEF b
  <2> QED BY <2>1, ZenonT(60) DEF Expected
<1> HIDE DEF b
<1>4. ASSUME route # "direct" PROVE Expected(e) = FromRow(b, c)
  <2> DEFINE meta == [f \in Fields |-> Cut(f, b.meta[f])]
  <2>1. "sent_at" \in Fields /\ "expires_at" \in Fields
    BY OutboxRecordsAssumption DEF Fields
  <2>2. meta = [b.meta EXCEPT !["sent_at"] = IF @ = "1.5 ms" THEN "1 ms" ELSE @,
                              !["expires_at"] = IF @ = "1.5 us" THEN "1 us" ELSE @]
    BY <1>1, <2>1 DEF Cut, encode_epoch_millis, timestamptz
  <2>3. Expected(e) = [b EXCEPT !.meta = meta, !.content_type = c]
    BY <1>1, <1>2, <1>3, <1>4, <2>2
  <2> HIDE DEF meta
  <2>4. Expected(e) = [id |-> b.id, type |-> b.type, content_type |-> c, meta |-> meta,
                       dedup |-> b.dedup, custom |-> b.custom, size |-> b.size]
    BY <1>2, <2>3, ZenonT(60)
  <2> QED BY <2>4, ZenonT(60) DEF FromRow, meta
<1>5. /\ Expected(e).id = e.id /\ Expected(e).type = e.type
      /\ Expected(e).content_type \in {e.content_type, StoreContent}
      /\ Expected(e).custom = e.custom
  BY <1>1, <1>3, <1>4 DEF FromRow
<1>6. IsEnvelope(Expected(e))
  BY <1>5, OutboxRecordsAssumption DEF IsEnvelope, IsBuilt
<1> QED BY <1>3, <1>4, <1>5, <1>6 DEF b

(* What is handed to publish_batch: every message whose row could be read, *)
(* changed as its route may change it, and nothing else.                   *)
LEMMA RouteKeeps ==
    ASSUME NoneIsNoFunction, NEW call \in Calls, route = call.route
    PROVE  /\ \E S : Published(call) \in Seq(S)
           /\ \A x : In(x, Published(call)) <=>
                 \E i \in 1 .. Len(call.envelopes) :
                    call.writers[i] \in Readable /\ x = Expected(call.envelopes[i])
<1> DEFINE es == call.envelopes
           n == Len(es)
           built == [i \in 1 .. n |-> build(es[i])]
           row(i) == IF call.route = "stage" THEN stage(built[i]) ELSE enqueue(built[i])
           rows == [i \in 1 .. n |-> Written(call.writers[i], row(i))]
<1>1. IsCall(call)
  BY OutboxDeliveryAssumption
<1>2. n \in Nat /\ route \in {"direct", "stage", "enqueue"}
  BY <1>1 DEF IsCall
<1>3. \A i \in 1 .. n : IsBuilt(es[i])
  BY <1>1 DEF IsCall
<1>4. Len(built) = n
  BY <1>2
<1>5. Published(call) = IF route = "direct" THEN built ELSE Records(rows)
  BY <1>4, ZenonT(60) DEF Published
<1>6. CASE route = "direct"
  <2>1. built \in Seq({build(es[i]) : i \in 1 .. n})
    BY <1>2
  <2>2. \A i \in 1 .. n : built[i] = Expected(es[i]) /\ call.writers[i] \in Readable
    BY <1>1, <1>2, <1>3, <1>6, ExpectedFields DEF IsCall, Readable
  <2>3. Published(call) = built
    BY <1>5, <1>6, ZenonT(60)
  <2> HIDE DEF built
  <2>4. \A x : In(x, built) <=>
           \E i \in 1 .. n : call.writers[i] \in Readable /\ x = Expected(es[i])
    BY <1>4, <2>2, Zenon DEF In
  <2> QED BY <2>1, <2>3, <2>4, Zenon
<1>7. CASE route # "direct"
  <2> DEFINE c(i) == IF route = "enqueue" THEN StoreContent ELSE es[i].content_type
  <2>1. ASSUME NEW i \in 1 .. n
        PROVE  /\ Decodable(rows[i]) <=> call.writers[i] \in Readable
               /\ call.writers[i] \in Readable => decode_row(rows[i]) = Expected(es[i])
    <3> DEFINE b == build(es[i])
               w == call.writers[i]
    <3>1. rows[i] = Written(w, insert_row(b, c(i)))
      <4>1. built[i] = b /\ rows[i] = Written(w, row(i))
        BY ZenonT(60)
      <4>2. b.content_type = es[i].content_type
        BY <1>3, BuildRoots, ZenonT(60)
      <4> HIDE DEF built, b
      <4>3. row(i) = insert_row(b, c(i))
        BY <1>2, <1>7, <4>1, <4>2, ZenonT(60) DEF stage, enqueue
      <4> QED BY <4>1, <4>3, ZenonT(60)
    <3>2. w \in Readable \cup {"next", "edited"}
      BY <1>1, <1>7 DEF IsCall
    <3>3. b.custom # None /\ \A f \in Addresses : b.meta[f] \notin {Empty, Illegal}
      <4>1. IsBuilt(es[i])
        BY <1>3
      <4>2. \A f \in Addresses : f \in Fields /\ f # "conversation_id"
        BY OutboxRecordsAssumption DEF Fields
      <4>3. /\ b.custom = es[i].custom
            /\ b.meta = [f \in Fields |->
                  IF f = "conversation_id" /\ es[i].meta[f] = None THEN es[i].id
                  ELSE es[i].meta[f]]
        BY <4>1, BuildRoots, ZenonT(60)
      <4>4. es[i].custom # None /\ \A f \in Addresses : es[i].meta[f] \notin {Empty, Illegal}
        BY <4>1, ZenonT(60) DEF IsBuilt
      <4> HIDE DEF b, es
      <4> QED BY <4>2, <4>3, <4>4
    <3>4. Expected(es[i]) = FromRow(b, c(i))
      BY <1>2, <1>3, <1>7, ExpectedFields, ZenonT(60)
    <3> HIDE DEF b, w, rows, c
    <3>5. /\ Decodable(Written(w, insert_row(b, c(i)))) <=> w \in Readable
          /\ w \in Readable =>
                decode_row(Written(w, insert_row(b, c(i)))) = FromRow(b, c(i))
      BY <3>2, <3>3, RowReturns
    <3> QED BY <3>1, <3>4, <3>5, ZenonT(60) DEF w
  <2>2. Len(rows) = n
    BY <1>2
  <2>3. Published(call) = Records(rows)
    BY <1>5, <1>7, ZenonT(60)
  <2> HIDE DEF rows, n, es
  <2>4. /\ \E S : Records(rows) \in Seq(S)
        /\ \A x : In(x, Records(rows)) <=>
              \E i \in 1 .. n : Decodable(rows[i]) /\ x = decode_row(rows[i])
    BY <1>2, <2>2, ReadsAll, ZenonT(60)
  <2>5. \A x : In(x, Records(rows)) <=>
           \E i \in 1 .. n : call.writers[i] \in Readable /\ x = Expected(es[i])
    BY <2>1, <2>4, Zenon
  <2> QED BY <2>3, <2>4, <2>5, ZenonT(60) DEF n, es
<1> QED BY <1>6, <1>7, ZenonT(60)

(* The batch against the envelopes it was made from.                       *)
RoutesInv ==
    /\ route \in {"direct", "stage", "enqueue"}
    /\ Len(origin) \in Nat
    /\ \A i \in 1 .. Len(origin) : IsBuilt(origin[i])
    /\ \A i, j \in 1 .. Len(origin) : origin[i].id = origin[j].id => i = j
    /\ \A x : In(x, batch) <=>
          \E i \in 1 .. Len(origin) : writers[i] \in Readable /\ x = Expected(origin[i])

(* A batch is made from its envelopes on one of the routes.                *)
LEMMA DeliveryInit ==
    ASSUME NoneIsNoFunction, Init
    PROVE  BatchInv /\ RoutesInv
<1>1. PICK call \in Calls :
         /\ route = call.route /\ origin = call.envelopes /\ writers = call.writers
         /\ InitWith(call.resolver, Published(call))
  BY DEF Init
<1>2. IsCall(call)
  BY OutboxDeliveryAssumption
<1>3. batch = Published(call)
  BY <1>1 DEF InitWith
<1>4. /\ \E S : batch \in Seq(S)
      /\ \A x : In(x, batch) <=>
            \E i \in 1 .. Len(origin) : writers[i] \in Readable /\ x = Expected(origin[i])
  BY <1>1, <1>3, RouteKeeps, ZenonT(60)
<1>5. /\ route \in {"direct", "stage", "enqueue"}
      /\ Len(origin) \in Nat
      /\ \A i \in 1 .. Len(origin) : IsBuilt(origin[i])
      /\ \A i, j \in 1 .. Len(origin) : origin[i].id = origin[j].id => i = j
  BY <1>1, <1>2 DEF IsCall
<1>6. RoutesInv
  BY <1>4, <1>5 DEF RoutesInv
<1>7. BatchInv
  <2> DEFINE E == {batch[k] : k \in 1 .. Len(batch)}
  <2>1. batch \in Seq(E)
    BY <1>4
  <2>2. ASSUME NEW e \in E PROVE IsEnvelope(e)
    <3>1. In(e, batch)
      BY DEF In
    <3>2. PICK i \in 1 .. Len(origin) : e = Expected(origin[i])
      BY <1>4, <3>1
    <3> QED BY <1>5, <3>2, ExpectedFields
  <2>3. InitWith(call.resolver, batch)
    BY <1>1, <1>3
  <2> HIDE DEF E
  <2> QED BY <2>1, <2>2, <2>3, BatchInvInit
<1> QED BY <1>6, <1>7

(* The headers of a stored message are the ones its envelope would have    *)
(* had, however the hash map iterates.                                     *)
LEMMA StoredAsMeant ==
    ASSUME BatchInv, RoutesInv
    PROVE  SameOnEveryRoute
<1>0. ASSUME NEW i \in 1 .. Len(origin)
      PROVE  /\ IsEnvelope(Expected(origin[i])) /\ Expected(origin[i]).id = origin[i].id
             /\ Expected(origin[i]).custom = origin[i].custom
  <2>1. IsBuilt(origin[i]) /\ route \in {"direct", "stage", "enqueue"}
    BY DEF RoutesInv
  <2> QED BY <2>1, ExpectedFields, Zenon
<1>1. {batch[k].id : k \in 1 .. N} =
         {origin[i].id : i \in {j \in 1 .. Len(origin) : writers[j] \in Readable}}
  <2>1. ASSUME NEW k \in 1 .. N
        PROVE  \E i \in 1 .. Len(origin) :
                  writers[i] \in Readable /\ batch[k].id = origin[i].id
    <3>1. In(batch[k], batch)
      BY DEF In, N
    <3>2. PICK i \in 1 .. Len(origin) :
             writers[i] \in Readable /\ batch[k] = Expected(origin[i])
      BY <3>1 DEF RoutesInv
    <3> QED BY <1>0, <3>2, Zenon
  <2>2. ASSUME NEW i \in 1 .. Len(origin), writers[i] \in Readable
        PROVE  \E k \in 1 .. N : batch[k].id = origin[i].id
    <3>1. In(Expected(origin[i]), batch)
      BY <2>2 DEF RoutesInv
    <3>2. PICK k \in 1 .. N : batch[k] = Expected(origin[i])
      BY <3>1 DEF In, N
    <3> QED BY <1>0, <3>2, Zenon
  <2> DEFINE read == {j \in 1 .. Len(origin) : writers[j] \in Readable}
  <2>3. {batch[k].id : k \in 1 .. N} \subseteq {origin[i].id : i \in read}
    BY <2>1
  <2>4. {origin[i].id : i \in read} \subseteq {batch[k].id : k \in 1 .. N}
    BY <2>2
  <2> QED BY <2>3, <2>4, ZenonT(60)
<1>2. ASSUME NEW m \in stream, NEW i \in 1 .. Len(origin), origin[i].id = batch[m.i].id
      PROVE  \E order \in Orders(origin[i]) :
                m.headers = encode(Expected(origin[i]), order).headers
  <2> DEFINE e == Expected(origin[i])
  <2>1. m.i \in 1 .. N
    BY DEF BatchInv, Typed, Messages
  <2>2. In(batch[m.i], batch)
    BY <2>1 DEF In, N
  <2>3. PICK j \in 1 .. Len(origin) : batch[m.i] = Expected(origin[j])
    BY <2>2, ZenonT(60) DEF RoutesInv
  <2>4. origin[j].id = origin[i].id
    BY <1>0, <1>2, <2>3, ZenonT(60)
  <2>5. batch[m.i] = e
    BY <2>3, <2>4 DEF RoutesInv
  <2>6. IsEnvelope(e) /\ Orders(e) = Orders(origin[i])
    BY <1>0, ZenonT(60) DEF Orders
  <2> HIDE DEF e
  <2>7. Expressible(e) /\ m.headers = Wire(e)
    BY <2>5, ZenonT(60) DEF BatchInv, Carried, Sendable
  <2>8. PICK order : order \in Orders(e)
    <3>1. IsFiniteSet(DOMAIN e.custom)
      BY <2>6 DEF IsEnvelope
    <3> QED BY <3>1, FS_CardinalityType DEF Orders, ExistsBijection
  <2>9. encode(e, order).headers = Wire(e)
    BY <2>6, <2>7, <2>8, EncodeAccepts DEF Wire
  <2> QED BY <2>6, <2>7, <2>8, <2>9, ZenonT(60) DEF e
<1> QED BY <1>1, <1>2, ZenonT(60) DEF SameOnEveryRoute

(* A message goes over the wire with the same headers whichever route it   *)
(* took and whichever release wrote its row, for every set of calls an     *)
(* application can make: any number of messages, any envelopes, any mix of *)
(* rows in a claim.                                                        *)
THEOREM RoutesAgree ==
    ASSUME NoneIsNoFunction
    PROVE  Spec => []SameOnEveryRoute
<1>1. Init => BatchInv /\ RoutesInv
  BY DeliveryInit
<1>2. ASSUME BatchInv, RoutesInv,
             [Next /\ UNCHANGED <<route, origin, writers>>]_deliveryVars
      PROVE  BatchInv' /\ RoutesInv'
  <2>1. [Next]_vars /\ UNCHANGED <<route, origin, writers>>
    BY <1>2 DEF deliveryVars
  <2>2. BatchInv'
    BY <1>2, <2>1, BatchInvStep
  <2>3. batch' = batch
    BY <1>2, <2>1, SameBatch DEF vars
  <2>4. RoutesInv'
    <3>1. /\ route' \in {"direct", "stage", "enqueue"}
          /\ Len(origin') \in Nat
          /\ \A i \in 1 .. Len(origin') : IsBuilt(origin'[i])
          /\ \A i, j \in 1 .. Len(origin') : origin'[i].id = origin'[j].id => i = j
      BY <1>2, <2>1 DEF RoutesInv
    <3>2. \A x : In(x, batch)' <=> In(x, batch)
      BY <2>3 DEF In
    <3>3. \A i : Expected(origin[i])' = Expected(origin[i])
      BY <2>1 DEF Expected
    <3> QED BY <1>2, <2>1, <3>1, <3>2, <3>3 DEF RoutesInv
  <2> QED BY <2>2, <2>4
<1>3. BatchInv /\ RoutesInv => SameOnEveryRoute
  BY StoredAsMeant
<1> QED BY <1>1, <1>2, <1>3, PTL DEF Spec

=============================================================================
