--------------------------- MODULE EventBusProofs ---------------------------
(***************************************************************************)
(* Proofs about EventBus, for any number of publishers, channels, events,  *)
(* any capacity and any time to live.                                      *)
(***************************************************************************)
EXTENDS EventBus, TLAPS, SequenceTheorems

\* Where publishers are: an event bears its publisher's name and a time that
\* has come, and only a publisher that is sending has channels left.
PublisherInv ==
  \A p \in Publishers :
    /\ evt[p].by = p /\ evt[p].at <= now
    /\ pc[p] # "sending" => todo[p] = {}

\* Where channels are: subscribed ones are open, a new one is empty and not
\* on anybody's list, and nobody joined later than now.
ChannelInv ==
  \A ch \in Channels :
    /\ ch \in subs <=> state[ch] = "open"
    /\ joined[ch] <= Len(log)
    /\ state[ch] = "new" =>
         sent[ch] = <<>> /\ ~lagged[ch] /\ \A p \in Publishers : ch \notin todo[p]

Bookkeeping == Types /\ PublisherInv /\ ChannelInv

\* Buffers hold Capacity events at most, and a publisher that is sending has
\* channels left.
BufferInv ==
  /\ \A ch \in Channels :
       taken[ch] <= Len(sent[ch]) /\ Len(sent[ch]) <= taken[ch] + Capacity
  /\ \A p \in Publishers : pc[p] = "sending" => todo[p] # {}

\* What a publisher still has to send is owed to the receiver.
PendingInv ==
  \A p \in Publishers, ch \in Channels : ch \in todo[p] => evt[p] \in Owed(ch)

\* A channel holds no event of a publisher later than its present one, and
\* not that one itself before it is sent there.
OrderInv ==
  \A p \in Publishers, ch \in Channels : \A i \in DOMAIN sent[ch] :
    sent[ch][i].by = p =>
      /\ sent[ch][i].n <= evt[p].n
      /\ pc[p] = "locking" \/ ch \in todo[p] => sent[ch][i].n < evt[p].n

\* Appending adds one element, at the end.
LEMMA ToSetAppend ==
  ASSUME NEW S, NEW s \in Seq(S), NEW e \in S
  PROVE  ToSet(Append(s, e)) = ToSet(s) \cup {e}
<1>1. \A i \in 1..Len(s) : Append(s, e)[i] = s[i]
  OBVIOUS
<1>2. Append(s, e)[Len(s) + 1] = e /\ DOMAIN Append(s, e) = 1..Len(s) + 1 /\ DOMAIN s = 1..Len(s)
  OBVIOUS
<1>3. \A i \in 1..Len(s) + 1 : i \in 1..Len(s) \/ i = Len(s) + 1
  OBVIOUS
<1>4. Len(s) + 1 \in 1..Len(s) + 1 /\ 1..Len(s) \subseteq 1..Len(s) + 1
  OBVIOUS
<1> QED
  BY <1>1, <1>2, <1>3, <1>4 DEF ToSet

\* A part of a sequence is a sequence over the same set.
LEMMA SubSeqType ==
  ASSUME NEW S, NEW s \in Seq(S), NEW m \in 1..Len(s) + 1
  PROVE  SubSeq(s, m, Len(s)) \in Seq(S)
  OBVIOUS

\* Every step keeps the types.
LEMMA TypeStep ==
  ASSUME Types, [Next]_vars
  PROVE  Types'
<1> USE BoundsAssumption DEF Types, busVars, chanVars, pubVars
<1>1. CASE Tick
  <2>1. now' \in 0..MaxTime
    BY <1>1 DEF Tick
  <2> QED
    BY <1>1, <2>1 DEF Tick
<1>2. ASSUME NEW p \in Publishers, PublishStart(p)
      PROVE  Types'
  <2>1. evt[p].n + 1 \in 0..MaxEvents
    BY <1>2 DEF PublishStart, Event
  <2>2. [by |-> p, n |-> evt[p].n + 1, at |-> now] \in Event
    BY <2>1 DEF Event
  <2> QED
    BY <1>2, <2>2 DEF PublishStart
<1>3. ASSUME NEW p \in Publishers, PublishRecord(p)
      PROVE  Types'
  <2>1. evt[p] \in Event /\ Append(history, evt[p]) \in Seq(Event) /\ log' \in Seq(Event)
    BY <1>3 DEF PublishRecord
  <2>2. PICK k \in 0..Len(Append(history, evt[p])) :
          history' = SubSeq(Append(history, evt[p]), k + 1, Len(Append(history, evt[p])))
    BY <1>3 DEF PublishRecord
  <2>3. history' \in Seq(Event)
    BY <2>1, <2>2, SubSeqType
  <2>4. pc' \in [Publishers -> {"idle", "locking", "sending"}] /\ todo' \in [Publishers -> SUBSET Channels]
    BY <1>3 DEF PublishRecord
  <2> QED
    BY <1>3, <2>1, <2>3, <2>4 DEF PublishRecord
<1>4. ASSUME NEW p \in Publishers, NEW ch \in Channels, PublishSend(p, ch)
      PROVE  Types'
  <2>1. sent' \in [Channels -> Seq(Event)]
    <3>1. evt[p] \in Event /\ Append(sent[ch], evt[p]) \in Seq(Event)
      BY <1>4
    <3> QED
      BY <1>4, <3>1 DEF PublishSend
  <2>2. /\ pc' \in [Publishers -> {"idle", "locking", "sending"}]
        /\ todo' \in [Publishers -> SUBSET Channels]
        /\ lagged' \in [Channels -> BOOLEAN] /\ crashed' \in BOOLEAN
    BY <1>4 DEF PublishSend
  <2> QED
    BY <1>4, <2>1, <2>2 DEF PublishSend
<1>5. ASSUME NEW ch \in Channels, Subscribe(ch)
      PROVE  Types'
  BY <1>5 DEF Subscribe
<1>6. ASSUME NEW ch \in Channels, Unsubscribe(ch)
      PROVE  Types'
  BY <1>6 DEF Unsubscribe
<1>7. ASSUME NEW ch \in Channels, Receive(ch)
      PROVE  Types'
  BY <1>7 DEF Receive
<1>8. CASE Snapshot
  <2>1. PICK k \in 1..Len(history) : history' = SubSeq(history, k + 1, Len(history))
    BY <1>8 DEF Snapshot
  <2>2. history' \in Seq(Event)
    BY <2>1, SubSeqType
  <2> QED
    BY <1>8, <2>2 DEF Snapshot
<1>9. CASE UNCHANGED vars
  BY <1>9 DEF vars
<1> QED
  BY <1>1, <1>2, <1>3, <1>4, <1>5, <1>6, <1>7, <1>8, <1>9 DEF Next, Publish

\* Every step keeps the publishers' bookkeeping.
LEMMA PublisherStep ==
  ASSUME Types, PublisherInv, [Next]_vars
  PROVE  PublisherInv'
<1> USE BoundsAssumption DEF Types, PublisherInv, Event, busVars, chanVars, pubVars
<1>1. CASE Tick
  BY <1>1 DEF Tick
<1>2. ASSUME NEW p \in Publishers, PublishStart(p)
      PROVE  PublisherInv'
  BY <1>2 DEF PublishStart
<1>3. ASSUME NEW p \in Publishers, PublishRecord(p)
      PROVE  PublisherInv'
  BY <1>3 DEF PublishRecord
<1>4. ASSUME NEW p \in Publishers, NEW ch \in Channels, PublishSend(p, ch)
      PROVE  PublisherInv'
  BY <1>4 DEF PublishSend
<1>5. ASSUME NEW ch \in Channels, Subscribe(ch)
      PROVE  PublisherInv'
  BY <1>5 DEF Subscribe
<1>6. ASSUME NEW ch \in Channels, Unsubscribe(ch)
      PROVE  PublisherInv'
  BY <1>6 DEF Unsubscribe
<1>7. ASSUME NEW ch \in Channels, Receive(ch)
      PROVE  PublisherInv'
  BY <1>7 DEF Receive
<1>8. CASE Snapshot
  BY <1>8 DEF Snapshot
<1>9. CASE UNCHANGED vars
  BY <1>9 DEF vars
<1> QED
  BY <1>1, <1>2, <1>3, <1>4, <1>5, <1>6, <1>7, <1>8, <1>9 DEF Next, Publish

\* Every step keeps the channels' bookkeeping.
LEMMA ChannelStep ==
  ASSUME Types, PublisherInv, ChannelInv, [Next]_vars
  PROVE  ChannelInv'
<1> USE DEF Types, PublisherInv, ChannelInv, busVars, chanVars, pubVars
<1>1. CASE Tick
  BY <1>1 DEF Tick
<1>2. ASSUME NEW p \in Publishers, PublishStart(p)
      PROVE  ChannelInv'
  BY <1>2 DEF PublishStart
<1>3. ASSUME NEW p \in Publishers, PublishRecord(p)
      PROVE  ChannelInv'
  BY <1>3 DEF PublishRecord
<1>4. ASSUME NEW p \in Publishers, NEW ch \in Channels, PublishSend(p, ch)
      PROVE  ChannelInv'
  BY <1>4, SMTT(30) DEF PublishSend
<1>5. ASSUME NEW ch \in Channels, Subscribe(ch)
      PROVE  ChannelInv'
  BY <1>5 DEF Subscribe
<1>6. ASSUME NEW ch \in Channels, Unsubscribe(ch)
      PROVE  ChannelInv'
  BY <1>6 DEF Unsubscribe
<1>7. ASSUME NEW ch \in Channels, Receive(ch)
      PROVE  ChannelInv'
  BY <1>7 DEF Receive
<1>8. CASE Snapshot
  BY <1>8 DEF Snapshot
<1>9. CASE UNCHANGED vars
  BY <1>9 DEF vars
<1> QED
  BY <1>1, <1>2, <1>3, <1>4, <1>5, <1>6, <1>7, <1>8, <1>9 DEF Next, Publish

\* Every step keeps the buffers within their capacity.
LEMMA BufferStep ==
  ASSUME Types, BufferInv, [Next]_vars
  PROVE  BufferInv'
<1> USE CapacityAssumption DEF Types, BufferInv, busVars, chanVars, pubVars
<1>1. CASE Tick
  BY <1>1 DEF Tick
<1>2. ASSUME NEW p \in Publishers, PublishStart(p)
      PROVE  BufferInv'
  BY <1>2 DEF PublishStart
<1>3. ASSUME NEW p \in Publishers, PublishRecord(p)
      PROVE  BufferInv'
  BY <1>3 DEF PublishRecord
<1>4. ASSUME NEW p \in Publishers, NEW ch \in Channels, PublishSend(p, ch)
      PROVE  BufferInv'
  <2>1. ASSUME NEW c \in Channels
        PROVE  taken'[c] <= Len(sent'[c]) /\ Len(sent'[c]) <= taken'[c] + Capacity
    <3>1. CASE sent' = sent
      BY <1>4, <3>1 DEF PublishSend
    <3>2. CASE /\ Len(sent[ch]) - taken[ch] < Capacity
               /\ sent' = [sent EXCEPT ![ch] = Append(@, evt[p])]
      <4>1. evt[p] \in Event /\ sent[ch] \in Seq(Event)
        OBVIOUS
      <4>2. Len(Append(sent[ch], evt[p])) = Len(sent[ch]) + 1
        BY <4>1
      <4>3. sent'[c] = IF c = ch THEN Append(sent[ch], evt[p]) ELSE sent[c]
        BY <3>2
      <4>4. taken' = taken
        BY <1>4 DEF PublishSend
      <4>5. CASE c = ch
        <5>1. Len(sent'[c]) = Len(sent[ch]) + 1 /\ Len(sent[ch]) \in Nat
          BY <4>1, <4>2, <4>3, <4>5
        <5> QED
          BY <3>2, <4>4, <4>5, <5>1
      <4>6. CASE c # ch
        BY <4>3, <4>4, <4>6
      <4> QED
        BY <4>5, <4>6
    <3> QED
      BY <1>4, <3>1, <3>2 DEF PublishSend
  <2>2. \A q \in Publishers : pc'[q] = "sending" => todo'[q] # {}
    BY <1>4 DEF PublishSend
  <2> QED
    BY <2>1, <2>2
<1>5. ASSUME NEW ch \in Channels, Subscribe(ch)
      PROVE  BufferInv'
  BY <1>5 DEF Subscribe
<1>6. ASSUME NEW ch \in Channels, Unsubscribe(ch)
      PROVE  BufferInv'
  BY <1>6 DEF Unsubscribe
<1>7. ASSUME NEW ch \in Channels, Receive(ch)
      PROVE  BufferInv'
  BY <1>7 DEF Receive
<1>8. CASE Snapshot
  BY <1>8 DEF Snapshot
<1>9. CASE UNCHANGED vars
  BY <1>9 DEF vars
<1> QED
  BY <1>1, <1>2, <1>3, <1>4, <1>5, <1>6, <1>7, <1>8, <1>9 DEF Next, Publish

\* A window of an appended sequence is the old window and the new element.
LEMMA OwedAppend ==
  ASSUME NEW S, NEW s \in Seq(S), NEW e \in S, NEW j \in Nat, j <= Len(s)
  PROVE  {Append(s, e)[i] : i \in j + 1 .. Len(Append(s, e))} =
           {s[i] : i \in j + 1 .. Len(s)} \cup {e}
<1>1. \A i \in j + 1 .. Len(s) : Append(s, e)[i] = s[i]
  OBVIOUS
<1>2. Len(Append(s, e)) = Len(s) + 1 /\ Append(s, e)[Len(s) + 1] = e
  OBVIOUS
<1>3. j + 1 .. Len(s) + 1 = (j + 1 .. Len(s)) \cup {Len(s) + 1}
  OBVIOUS
<1> QED
  BY <1>1, <1>2, <1>3

\* Every step keeps the order of a publisher's events.
LEMMA OrderStep ==
  ASSUME Types, PublisherInv, OrderInv, [Next]_vars
  PROVE  OrderInv'
<1> USE BoundsAssumption DEF Types, PublisherInv, OrderInv, busVars, chanVars, pubVars
<1>1. CASE Tick
  BY <1>1 DEF Tick
<1>2. ASSUME NEW p \in Publishers, PublishStart(p)
      PROVE  OrderInv'
  <2>1. /\ evt[p] \in Event /\ evt'[p].n = evt[p].n + 1 /\ evt' \in [Publishers -> Event]
        /\ \A q \in Publishers : q # p => evt'[q] = evt[q] /\ pc'[q] = pc[q]
        /\ todo' = todo /\ sent' = sent
    <3>1. evt' = [evt EXCEPT ![p] = [by |-> p, n |-> evt[p].n + 1, at |-> now]]
      BY <1>2 DEF PublishStart
    <3>2. pc' = [pc EXCEPT ![p] = "locking"] /\ todo' = todo /\ sent' = sent
      BY <1>2 DEF PublishStart
    <3>3. evt' \in [Publishers -> Event]
      BY <1>2, TypeStep
    <3> QED
      BY <3>1, <3>2, <3>3
  <2>2. \A c \in Channels : \A i \in DOMAIN sent[c] : sent[c][i] \in Event
    OBVIOUS
  <2>3. ASSUME NEW q \in Publishers, NEW c \in Channels,
               NEW i \in DOMAIN sent'[c], sent'[c][i].by = q
        PROVE  sent'[c][i].n <= evt'[q].n /\ (q = p => sent'[c][i].n < evt'[q].n)
    <3>1. sent'[c] = sent[c] /\ i \in DOMAIN sent[c] /\ sent[c][i].by = q
      BY <2>1, <2>3
    <3>2. sent[c][i].n <= evt[q].n
      BY <3>1
    <3>3. sent[c][i].n \in Int /\ evt[q].n \in Int
      BY <2>2, <3>1 DEF Event
    <3>4. evt'[q].n = IF q = p THEN evt[p].n + 1 ELSE evt[q].n
      BY <2>1
    <3>5. sent'[c][i].n = sent[c][i].n
      BY <3>1
    <3>6. CASE q = p
      BY <3>2, <3>3, <3>4, <3>5, <3>6
    <3>7. CASE q # p
      BY <3>2, <3>4, <3>5, <3>7
    <3> QED
      BY <3>6, <3>7
  <2>4. ASSUME NEW q \in Publishers, NEW c \in Channels, q # p,
               NEW i \in DOMAIN sent'[c], sent'[c][i].by = q,
               pc'[q] = "locking" \/ c \in todo'[q]
        PROVE  sent'[c][i].n < evt'[q].n
    BY <2>1, <2>4
  <2> QED
    BY <2>3, <2>4
<1>3. ASSUME NEW p \in Publishers, PublishRecord(p)
      PROVE  OrderInv'
  BY <1>3, SMTT(30) DEF PublishRecord
<1>4. ASSUME NEW p \in Publishers, NEW ch \in Channels, PublishSend(p, ch)
      PROVE  OrderInv'
  <2>1. /\ evt' = evt /\ pc[p] = "sending" /\ ch \in todo[p]
        /\ \A q \in Publishers : q # p => pc'[q] = pc[q]
        /\ pc'[p] # "locking"
    BY <1>4 DEF PublishSend
  <2>2. \A q \in Publishers : todo'[q] = IF q = p THEN todo[p] \ {ch} ELSE todo[q]
    BY <1>4 DEF PublishSend
  <2>3. CASE sent' = sent
    BY <2>1, <2>2, <2>3
  <2>4. CASE sent' = [sent EXCEPT ![ch] = Append(sent[ch], evt[p])]
    <3>1. \A c \in Channels : c # ch => sent'[c] = sent[c]
      BY <2>4
    <3>2. sent[ch] \in Seq(Event) /\ sent'[ch] = Append(sent[ch], evt[p]) /\ evt[p] \in Event
      BY <2>4
    <3>3. /\ DOMAIN sent'[ch] = 1..Len(sent[ch]) + 1 /\ DOMAIN sent[ch] = 1..Len(sent[ch])
          /\ sent'[ch][Len(sent[ch]) + 1] = evt[p]
          /\ \A i \in 1..Len(sent[ch]) : sent'[ch][i] = sent[ch][i]
      BY <3>2
    <3>4. ASSUME NEW q \in Publishers, NEW i \in DOMAIN sent'[ch], sent'[ch][i].by = q
          PROVE  /\ sent'[ch][i].n <= evt'[q].n
                 /\ pc'[q] = "locking" \/ ch \in todo'[q] => sent'[ch][i].n < evt'[q].n
      <4>1. CASE i \in 1..Len(sent[ch])
        BY <3>3, <3>4, <4>1, <2>1, <2>2
      <4>2. CASE i = Len(sent[ch]) + 1
        BY <3>2, <3>3, <3>4, <4>2, <2>1, <2>2 DEF Event
      <4> QED
        BY <3>2, <3>3, <4>1, <4>2
    <3>5. ASSUME NEW q \in Publishers, NEW c \in Channels, c # ch,
                 NEW i \in DOMAIN sent'[c], sent'[c][i].by = q
          PROVE  /\ sent'[c][i].n <= evt'[q].n
                 /\ pc'[q] = "locking" \/ c \in todo'[q] => sent'[c][i].n < evt'[q].n
      <4>1. sent'[c] = sent[c] /\ evt'[q] = evt[q]
        BY <3>1, <3>5, <2>1
      <4>2. pc'[q] = "locking" \/ c \in todo'[q] => pc[q] = "locking" \/ c \in todo[q]
        BY <2>1, <2>2
      <4> QED
        BY <3>5, <4>1, <4>2
    <3> QED
      BY <3>4, <3>5, ZenonT(40)
  <2> QED
    BY <1>4, <2>3, <2>4 DEF PublishSend
<1>5. ASSUME NEW ch \in Channels, Subscribe(ch)
      PROVE  OrderInv'
  BY <1>5 DEF Subscribe
<1>6. ASSUME NEW ch \in Channels, Unsubscribe(ch)
      PROVE  OrderInv'
  BY <1>6 DEF Unsubscribe
<1>7. ASSUME NEW ch \in Channels, Receive(ch)
      PROVE  OrderInv'
  BY <1>7 DEF Receive
<1>8. CASE Snapshot
  BY <1>8 DEF Snapshot
<1>9. CASE UNCHANGED vars
  BY <1>9 DEF vars
<1> QED
  BY <1>1, <1>2, <1>3, <1>4, <1>5, <1>6, <1>7, <1>8, <1>9 DEF Next, Publish

\* A send puts an event of a publisher after its earlier ones.
LEMMA OrderKeptStep ==
  ASSUME Types, PublisherInv, OrderInv, PublisherOrderKept, [Next]_vars
  PROVE  PublisherOrderKept'
<1> USE DEF Types, PublisherInv, OrderInv, PublisherOrderKept, busVars, chanVars, pubVars
<1>1. ASSUME NEW p \in Publishers, NEW ch \in Channels, PublishSend(p, ch), sent' # sent
      PROVE  PublisherOrderKept'
  <2>1. /\ sent[ch] \in Seq(Event) /\ evt[p] \in Event /\ ch \in todo[p] /\ evt[p].by = p
        /\ sent' = [sent EXCEPT ![ch] = Append(sent[ch], evt[p])]
    BY <1>1 DEF PublishSend
  <2>2. \A c \in Channels : c # ch => sent'[c] = sent[c]
    BY <2>1
  <2>3. sent'[ch] = Append(sent[ch], evt[p])
    BY <2>1
  <2>4. \A i \in DOMAIN sent[ch] : sent[ch][i].by = p => sent[ch][i].n < evt[p].n
    BY <2>1
  <2>5. \A i, j \in DOMAIN sent'[ch] :
          i < j /\ sent'[ch][i].by = sent'[ch][j].by => sent'[ch][i].n < sent'[ch][j].n
    <3>1. /\ DOMAIN sent'[ch] = 1..Len(sent[ch]) + 1 /\ DOMAIN sent[ch] = 1..Len(sent[ch])
          /\ sent'[ch][Len(sent[ch]) + 1] = evt[p]
          /\ \A i \in 1..Len(sent[ch]) : sent'[ch][i] = sent[ch][i]
      BY <2>1, <2>3
    <3>2. TAKE i, j \in DOMAIN sent'[ch]
    <3>3. HAVE i < j /\ sent'[ch][i].by = sent'[ch][j].by
    <3>4. i \in 1..Len(sent[ch])
      BY <3>1, <3>2, <3>3, <2>1
    <3>5. CASE j \in 1..Len(sent[ch])
      BY <3>1, <3>3, <3>4, <3>5
    <3>6. CASE j = Len(sent[ch]) + 1
      BY <3>1, <3>3, <3>4, <3>6, <2>1, <2>4
    <3> QED
      BY <3>1, <3>2, <3>5, <3>6
  <2> QED
    BY <2>2, <2>5, ZenonT(40)
<1>2. ASSUME sent' = sent
      PROVE  PublisherOrderKept'
  BY <1>2
<1>3. sent' = sent \/ \E p \in Publishers, ch \in Channels : PublishSend(p, ch)
  BY DEF vars, Next, Publish, Tick, PublishStart, PublishRecord, Subscribe, Unsubscribe,
        Receive, Snapshot
<1> QED
  BY <1>1, <1>2, <1>3

\* What recording an event does to what a subscriber is owed: it is owed that
\* event too.
LEMMA RecordOwes ==
  ASSUME Types, ChannelInv, NEW p \in Publishers, NEW ch \in Channels, PublishRecord(p)
  PROVE  Owed(ch)' = Owed(ch) \cup {evt[p]}
<1>1. /\ log \in Seq(Event) /\ evt[p] \in Event /\ joined[ch] \in Nat /\ joined[ch] <= Len(log)
      /\ log' = Append(log, evt[p]) /\ joined' = joined
  BY DEF Types, ChannelInv, PublishRecord, chanVars
<1> QED
  BY <1>1, OwedAppend DEF Owed

\* A step that records nothing and lets nobody join changes nobody's due.
LEMMA SameOwed ==
  ASSUME NEW ch \in Channels, log' = log, joined'[ch] = joined[ch]
  PROVE  Owed(ch)' = Owed(ch)
BY DEF Owed

\* What a send adds to a channel.
LEMMA SendAdds ==
  ASSUME Types, NEW p \in Publishers, NEW ch \in Channels, PublishSend(p, ch),
         NEW c \in Channels
  PROVE  \/ ToSet(sent'[c]) = ToSet(sent[c])
         \/ c = ch /\ ToSet(sent'[c]) = ToSet(sent[c]) \cup {evt[p]}
<1>1. CASE sent' = sent
  BY <1>1
<1>2. CASE sent' = [sent EXCEPT ![ch] = Append(sent[ch], evt[p])]
  <2>1. evt[p] \in Event /\ sent[ch] \in Seq(Event)
    BY DEF Types
  <2>2. ToSet(Append(sent[ch], evt[p])) = ToSet(sent[ch]) \cup {evt[p]}
    BY <2>1, ToSetAppend
  <2>3. IF c = ch THEN sent'[c] = Append(sent[ch], evt[p]) ELSE sent'[c] = sent[c]
    BY <1>2 DEF Types
  <2> QED
    BY <2>2, <2>3
<1> QED
  BY <1>1, <1>2 DEF PublishSend

\* Every step keeps what is still to be sent among what is owed.
LEMMA PendingStep ==
  ASSUME Types, PublisherInv, ChannelInv, PendingInv, [Next]_vars
  PROVE  PendingInv'
<1> USE DEF busVars, chanVars, pubVars
<1>1. ASSUME NEW p \in Publishers, PublishStart(p)
      PROVE  PendingInv'
  <2>1. \A c \in Channels : Owed(c)' = Owed(c)
    BY <1>1, SameOwed DEF PublishStart
  <2>2. todo[p] = {} /\ todo' = todo /\ \A q \in Publishers : q # p => evt'[q] = evt[q]
    BY <1>1 DEF PublishStart, Types, PublisherInv
  <2> QED
    BY <2>1, <2>2 DEF PendingInv
<1>2. ASSUME NEW p \in Publishers, PublishRecord(p)
      PROVE  PendingInv'
  <2>1. \A c \in Channels : Owed(c)' = Owed(c) \cup {evt[p]}
    BY <1>2, RecordOwes
  <2>2. evt' = evt /\ \A q \in Publishers : q # p => todo'[q] = todo[q]
    BY <1>2 DEF PublishRecord, Types
  <2> QED
    BY <2>1, <2>2 DEF PendingInv
<1>3. ASSUME NEW p \in Publishers, NEW ch \in Channels, PublishSend(p, ch)
      PROVE  PendingInv'
  <2>1. \A c \in Channels : Owed(c)' = Owed(c)
    BY <1>3, SameOwed DEF PublishSend
  <2>2. evt' = evt /\ \A q \in Publishers : todo'[q] \subseteq todo[q]
    BY <1>3 DEF PublishSend, Types
  <2> QED
    BY <2>1, <2>2 DEF PendingInv
<1>4. ASSUME NEW ch \in Channels, Subscribe(ch)
      PROVE  PendingInv'
  <2>1. \A c \in Channels : c # ch => Owed(c)' = Owed(c)
    BY <1>4, SameOwed DEF Subscribe, Types
  <2>2. evt' = evt /\ todo' = todo /\ \A p \in Publishers : ch \notin todo[p]
    BY <1>4 DEF Subscribe, ChannelInv
  <2> QED
    BY <2>1, <2>2 DEF PendingInv
<1>5. ASSUME UNCHANGED <<log, joined, evt, todo>>
      PROVE  PendingInv'
  <2>1. \A c \in Channels : Owed(c)' = Owed(c)
    BY <1>5, SameOwed
  <2> QED
    BY <1>5, <2>1 DEF PendingInv
<1> QED
  BY <1>1, <1>2, <1>3, <1>4, <1>5
  DEF Next, vars, Publish, Tick, Unsubscribe, Receive, Snapshot

\* Every step keeps the start of a stream: what is sent was owed.
LEMMA StreamStep ==
  ASSUME Types, ChannelInv, PendingInv, StreamStartsAtSubscription, [Next]_vars
  PROVE  StreamStartsAtSubscription'
<1> USE DEF busVars, chanVars, pubVars
<1>1. ASSUME NEW p \in Publishers, PublishRecord(p)
      PROVE  StreamStartsAtSubscription'
  <2>1. \A c \in Channels : Owed(c)' = Owed(c) \cup {evt[p]}
    BY <1>1, RecordOwes
  <2>2. sent' = sent
    BY <1>1 DEF PublishRecord
  <2> QED
    BY <2>1, <2>2 DEF StreamStartsAtSubscription
<1>2. ASSUME NEW p \in Publishers, NEW ch \in Channels, PublishSend(p, ch)
      PROVE  StreamStartsAtSubscription'
  <2>1. \A c \in Channels : Owed(c)' = Owed(c)
    BY <1>2, SameOwed DEF PublishSend
  <2>2. evt[p] \in Owed(ch)
    BY <1>2 DEF PublishSend, PendingInv
  <2>3. ASSUME NEW c \in Channels
        PROVE  ToSet(sent'[c]) \subseteq Owed(c)
    <3>1. ToSet(sent[c]) \subseteq Owed(c)
      BY DEF StreamStartsAtSubscription
    <3>2. \/ ToSet(sent'[c]) = ToSet(sent[c])
          \/ c = ch /\ ToSet(sent'[c]) = ToSet(sent[c]) \cup {evt[p]}
      BY <1>2, SendAdds
    <3> QED
      BY <2>2, <3>1, <3>2
  <2> QED
    BY <2>1, <2>3 DEF StreamStartsAtSubscription
<1>3. ASSUME NEW ch \in Channels, Subscribe(ch)
      PROVE  StreamStartsAtSubscription'
  <2>1. \A c \in Channels : c # ch => Owed(c)' = Owed(c)
    BY <1>3, SameOwed DEF Subscribe, Types
  <2>2. sent' = sent /\ ToSet(sent[ch]) = {}
    BY <1>3 DEF Subscribe, ChannelInv, ToSet
  <2> QED
    BY <2>1, <2>2 DEF StreamStartsAtSubscription
<1>4. ASSUME UNCHANGED <<log, joined, sent>>
      PROVE  StreamStartsAtSubscription'
  <2>1. \A c \in Channels : Owed(c)' = Owed(c)
    BY <1>4, SameOwed
  <2> QED
    BY <1>4, <2>1 DEF StreamStartsAtSubscription
<1> QED
  BY <1>1, <1>2, <1>3, <1>4
  DEF Next, vars, Publish, Tick, PublishStart, Unsubscribe, Receive, Snapshot

\* Every step keeps an unlagged subscriber's due sent or pending.
LEMMA KeepingUpStep ==
  ASSUME Types, PublisherInv, ChannelInv, KeepingUpMissesNothing, [Next]_vars
  PROVE  KeepingUpMissesNothing'
<1> USE DEF busVars, chanVars, pubVars
<1>1. ASSUME NEW p \in Publishers, PublishStart(p)
      PROVE  KeepingUpMissesNothing'
  <2>1. \A c \in Channels : Owed(c)' = Owed(c)
    BY <1>1, SameOwed DEF PublishStart
  <2>2. todo[p] = {} /\ todo' = todo /\ \A q \in Publishers : q # p => evt'[q] = evt[q]
    BY <1>1 DEF PublishStart, Types, PublisherInv
  <2>3. ASSUME NEW c \in Channels
        PROVE  Pending(c) \subseteq Pending(c)'
    BY <2>2 DEF Pending
  <2>4. UNCHANGED <<subs, lagged, sent>>
    BY <1>1 DEF PublishStart
  <2> QED
    BY <2>1, <2>3, <2>4 DEF KeepingUpMissesNothing, Types
<1>2. ASSUME NEW p \in Publishers, PublishRecord(p)
      PROVE  KeepingUpMissesNothing'
  <2>1. \A c \in Channels : Owed(c)' = Owed(c) \cup {evt[p]}
    BY <1>2, RecordOwes
  <2>2. todo[p] = {}
    BY <1>2 DEF PublishRecord, PublisherInv
  <2>3. /\ UNCHANGED <<evt, sent, subs, lagged>>
        /\ \A q \in Publishers : todo'[q] = IF q = p THEN subs ELSE todo[q]
    BY <1>2 DEF PublishRecord, Types
  <2>4. ASSUME NEW c \in subs
        PROVE  Pending(c) \cup {evt[p]} \subseteq Pending(c)'
    <3>1. ASSUME NEW q \in Publishers, c \in todo[q]
          PROVE  c \in todo'[q] /\ evt'[q] = evt[q]
      BY <2>2, <2>3, <3>1
    <3>2. c \in todo'[p] /\ evt'[p] = evt[p]
      BY <2>3
    <3> QED
      BY <3>1, <3>2 DEF Pending
  <2> QED
    BY <2>1, <2>3, <2>4 DEF KeepingUpMissesNothing, Types
<1>3. ASSUME NEW p \in Publishers, NEW ch \in Channels, PublishSend(p, ch)
      PROVE  KeepingUpMissesNothing'
  <2>1. \A c \in Channels : Owed(c)' = Owed(c)
    BY <1>3, SameOwed DEF PublishSend
  <2>2. /\ UNCHANGED <<evt, subs, state>>
        /\ \A q \in Publishers : todo'[q] = IF q = p THEN todo[p] \ {ch} ELSE todo[q]
    BY <1>3 DEF PublishSend, Types
  <2>3. ASSUME NEW c \in subs, ~lagged'[c]
        PROVE  Owed(c) \subseteq ToSet(sent'[c]) \cup Pending(c)'
    <3>1. c \in Channels /\ ~lagged[c]
      BY <1>3, <2>3 DEF PublishSend, Types
    <3>2. Owed(c) \subseteq ToSet(sent[c]) \cup Pending(c)
      BY <2>3, <3>1 DEF KeepingUpMissesNothing
    <3>3. CASE c # ch
      <4>1. Pending(c) \subseteq Pending(c)'
        <5>1. \A q \in Publishers : c \in todo[q] => c \in todo'[q] /\ evt'[q] = evt[q]
          BY <2>2, <3>3
        <5> QED
          BY <5>1 DEF Pending
      <4>2. sent'[c] = sent[c]
        BY <1>3, <3>1, <3>3 DEF PublishSend, Types
      <4> QED
        BY <3>2, <4>1, <4>2
    <3>4. CASE c = ch
      <4>1. Pending(c) \subseteq Pending(c)' \cup {evt[p]}
        <5>1. \A q \in Publishers : q # p /\ c \in todo[q] => c \in todo'[q] /\ evt'[q] = evt[q]
          BY <2>2
        <5> QED
          BY <5>1 DEF Pending
      <4>2. state[ch] = "open"
        BY <2>3, <3>4 DEF ChannelInv
      <4>3. sent[ch] \in Seq(Event) /\ evt[p] \in Event /\ sent'[ch] = Append(sent[ch], evt[p])
        BY <1>3, <2>3, <3>4, <4>2 DEF PublishSend, Types
      <4>4. ToSet(sent'[ch]) = ToSet(sent[ch]) \cup {evt[p]}
        BY <4>3, ToSetAppend
      <4> QED
        BY <3>2, <3>4, <4>1, <4>4
    <3> QED
      BY <3>3, <3>4
  <2> QED
    BY <2>1, <2>2, <2>3 DEF KeepingUpMissesNothing, Types
<1>4. ASSUME NEW ch \in Channels, Subscribe(ch)
      PROVE  KeepingUpMissesNothing'
  <2>1. \A c \in Channels : c # ch => Owed(c)' = Owed(c)
    BY <1>4, SameOwed DEF Subscribe, Types
  <2>2. joined'[ch] = Len(log) /\ log' = log /\ log \in Seq(Event)
    BY <1>4 DEF Subscribe, Types
  <2>3. Owed(ch)' = {}
    BY <2>2 DEF Owed
  <2>4. UNCHANGED <<evt, todo, sent, lagged>> /\ subs' = subs \cup {ch}
    BY <1>4 DEF Subscribe
  <2>5. \A c \in Channels : Pending(c)' = Pending(c)
    BY <2>4 DEF Pending
  <2> QED
    BY <2>1, <2>3, <2>4, <2>5 DEF KeepingUpMissesNothing, Types
<1>5. ASSUME UNCHANGED <<log, joined, evt, todo, sent, lagged>>, subs' \subseteq subs
      PROVE  KeepingUpMissesNothing'
  <2>1. \A c \in Channels : Owed(c)' = Owed(c)
    BY <1>5, SameOwed
  <2>2. \A c \in Channels : Pending(c)' = Pending(c)
    BY <1>5 DEF Pending
  <2> QED
    BY <1>5, <2>1, <2>2 DEF KeepingUpMissesNothing, Types
<1> QED
  BY <1>1, <1>2, <1>3, <1>4, <1>5
  DEF Next, vars, Publish, Tick, Unsubscribe, Receive, Snapshot

\* Appending to what is left of a log leaves what is left of the longer log.
LEMMA AppendToRest ==
  ASSUME NEW S, NEW s \in Seq(S), NEW e \in S, NEW b \in 0..Len(s)
  PROVE  Append(SubSeq(s, b + 1, Len(s)), e) = SubSeq(Append(s, e), b + 1, Len(Append(s, e)))
<1> DEFINE r == SubSeq(s, b + 1, Len(s))
           t == Append(s, e)
           u == SubSeq(t, b + 1, Len(t))
<1>1. /\ r \in Seq(S) /\ Len(r) = Len(s) - b
      /\ \A i \in 1..Len(s) - b : r[i] = s[b + i]
  OBVIOUS
<1>2. /\ t \in Seq(S) /\ Len(t) = Len(s) + 1 /\ t[Len(s) + 1] = e
      /\ \A i \in 1..Len(s) : t[i] = s[i]
  OBVIOUS
<1>3. /\ u \in Seq(S) /\ Len(u) = Len(s) + 1 - b
      /\ \A i \in 1..Len(s) + 1 - b : u[i] = t[b + i]
  BY <1>2
<1>4. /\ Append(r, e) \in Seq(S) /\ Len(Append(r, e)) = Len(s) + 1 - b
      /\ \A i \in 1..Len(s) - b : Append(r, e)[i] = r[i]
      /\ Append(r, e)[Len(s) - b + 1] = e
  BY <1>1
<1> HIDE DEF r, t, u
<1>5. \A i \in 1..Len(s) + 1 - b : Append(r, e)[i] = u[i]
  <2>1. ASSUME NEW i \in 1..Len(s) - b
        PROVE  Append(r, e)[i] = u[i]
    <3>1. i \in 1..Len(s) + 1 - b /\ b + i \in 1..Len(s)
      BY <2>1
    <3> QED
      BY <1>1, <1>2, <1>3, <1>4, <3>1
  <2>2. Append(r, e)[Len(s) - b + 1] = u[Len(s) - b + 1]
    <3>1. Len(s) - b + 1 \in 1..Len(s) + 1 - b /\ b + (Len(s) - b + 1) = Len(s) + 1
      OBVIOUS
    <3> QED
      BY <1>2, <1>3, <1>4, <3>1
  <2>3. \A i \in 1..Len(s) + 1 - b : i \in 1..Len(s) - b \/ i = Len(s) - b + 1
    OBVIOUS
  <2> QED
    BY <2>1, <2>2, <2>3
<1>6. Append(r, e) = u
  BY <1>3, <1>4, <1>5, SeqEqual
<1> QED
  BY <1>6 DEF r, t, u

\* What is left of what is left of a log.
LEMMA RestOfRest ==
  ASSUME NEW S, NEW s \in Seq(S), NEW b \in 0..Len(s),
         NEW r, r = SubSeq(s, b + 1, Len(s)), NEW k \in 0..Len(r)
  PROVE  /\ Len(r) = Len(s) - b /\ \A i \in 1..Len(r) : r[i] = s[b + i]
         /\ SubSeq(r, k + 1, Len(r)) = SubSeq(s, b + k + 1, Len(s))
<1>1. /\ r \in Seq(S) /\ Len(r) = Len(s) - b
      /\ \A i \in 1..Len(s) - b : r[i] = s[b + i]
  OBVIOUS
<1> DEFINE t == SubSeq(r, k + 1, Len(r))
           u == SubSeq(s, b + k + 1, Len(s))
<1>2. /\ t \in Seq(S) /\ Len(t) = Len(r) - k
      /\ \A i \in 1..Len(r) - k : t[i] = r[k + i]
  BY <1>1
<1>3. /\ u \in Seq(S) /\ Len(u) = Len(s) - b - k
      /\ \A i \in 1..Len(s) - b - k : u[i] = s[b + k + i]
  BY <1>1
<1> HIDE DEF t, u
<1>4. ASSUME NEW i \in 1..Len(t)
      PROVE  t[i] = u[i]
  <2>1. /\ i \in 1..Len(r) - k /\ k + i \in 1..Len(s) - b
        /\ i \in 1..Len(s) - b - k /\ b + (k + i) = b + k + i
    BY <1>1, <1>2
  <2> QED
    BY <1>1, <1>2, <1>3, <2>1
<1>5. t = u
  BY <1>1, <1>2, <1>3, <1>4, SeqEqual
<1> QED
  BY <1>1, <1>5 DEF t, u

\* A history that is what is left of a log after a prefix expired by u.
IsWindow(h, l, u) ==
  \E b \in 0..Len(l) :
    /\ h = SubSeq(l, b + 1, Len(l))
    /\ \A i \in 1..b : Expired(l[i], u)

\* The events of a log have times.
LEMMA LogTimes ==
  ASSUME NEW l \in Seq(Event), NEW i \in 1..Len(l)
  PROVE  l[i].at \in Int
<1>1. l[i] \in Event
  OBVIOUS
<1> QED
  BY <1>1, BoundsAssumption DEF Event

\* What has expired stays so.
LEMMA WindowAges ==
  ASSUME NEW h, NEW l \in Seq(Event), NEW u \in Int, IsWindow(h, l, u)
  PROVE  IsWindow(h, l, u + 1)
<1>1. PICK b \in 0..Len(l) : h = SubSeq(l, b + 1, Len(l)) /\ \A i \in 1..b : Expired(l[i], u)
  BY DEF IsWindow
<1>2. ASSUME NEW i \in 1..b
      PROVE  Expired(l[i], u + 1)
  <2>1. l[i].at \in Int /\ TTL \in Int
    BY LogTimes, TTLAssumption
  <2> QED
    BY <1>1, <2>1 DEF Expired
<1> QED
  BY <1>1, <1>2 DEF IsWindow

\* Recording an event on both sides keeps the window.
LEMMA WindowGrows ==
  ASSUME NEW h, NEW l \in Seq(Event), NEW u \in Int, IsWindow(h, l, u), NEW e \in Event
  PROVE  IsWindow(Append(h, e), Append(l, e), u)
<1>1. PICK b \in 0..Len(l) : h = SubSeq(l, b + 1, Len(l)) /\ \A i \in 1..b : Expired(l[i], u)
  BY DEF IsWindow
<1>2. Append(h, e) = SubSeq(Append(l, e), b + 1, Len(Append(l, e)))
  BY <1>1, AppendToRest
<1>3. b \in 0..Len(Append(l, e)) /\ \A i \in 1..b : Append(l, e)[i] = l[i]
  OBVIOUS
<1> QED
  BY <1>1, <1>2, <1>3 DEF IsWindow

\* Pruning as of a time that has come keeps the window.
LEMMA WindowPruned ==
  ASSUME NEW h, NEW l \in Seq(Event), NEW t \in Int, NEW u \in Int, t <= u,
         IsWindow(h, l, u), NEW k, Pruned(h, t, k)
  PROVE  IsWindow(SubSeq(h, k + 1, Len(h)), l, u)
<1>1. PICK b \in 0..Len(l) : h = SubSeq(l, b + 1, Len(l)) /\ \A i \in 1..b : Expired(l[i], u)
  BY DEF IsWindow
<1>2. k \in 0..Len(h)
  BY DEF Pruned
<1>3. /\ Len(h) = Len(l) - b /\ \A i \in 1..Len(h) : h[i] = l[b + i]
      /\ SubSeq(h, k + 1, Len(h)) = SubSeq(l, b + k + 1, Len(l))
  BY <1>1, <1>2, RestOfRest
<1>4. b + k \in 0..Len(l)
  BY <1>2, <1>3
<1>5. ASSUME NEW i \in 1..b + k, i > b
      PROVE  Expired(l[i], u)
  <2>1. i - b \in 1..k /\ i - b \in 1..Len(h) /\ b + (i - b) = i /\ i \in 1..Len(l)
    BY <1>2, <1>3, <1>5
  <2>2. h[i - b] = l[i] /\ Expired(h[i - b], t)
    BY <1>3, <2>1 DEF Pruned
  <2>3. l[i].at \in Int /\ TTL \in Int
    BY <2>1, LogTimes, TTLAssumption
  <2> QED
    BY <2>2, <2>3 DEF Expired
<1>6. \A i \in 1..b + k : Expired(l[i], u)
  BY <1>1, <1>2, <1>5
<1> QED
  BY <1>3, <1>4, <1>6 DEF IsWindow

\* Every step keeps the replay window.
LEMMA WindowStep ==
  ASSUME Types, PublisherInv, HistoryKeepsTheWindow, [Next]_vars
  PROVE  HistoryKeepsTheWindow'
<1> USE DEF busVars, chanVars, pubVars
<1>1. IsWindow(history, log, now) /\ log \in Seq(Event) /\ now \in Int
  <2>1. IsWindow(history, log, now)
    BY DEF HistoryKeepsTheWindow, IsWindow
  <2>2. log \in Seq(Event) /\ now \in Int
    BY BoundsAssumption DEF Types
  <2> QED
    BY <2>1, <2>2
<1>2. SUFFICES IsWindow(history', log', now')
  BY DEF HistoryKeepsTheWindow, IsWindow
<1>3. CASE Tick
  BY <1>1, <1>3, WindowAges DEF Tick
<1>4. ASSUME NEW p \in Publishers, PublishRecord(p)
      PROVE  IsWindow(history', log', now')
  <2>1. evt[p] \in Event /\ evt[p].at \in Int /\ evt[p].at <= now
    BY BoundsAssumption DEF Types, PublisherInv, Event
  <2>2. Append(log, evt[p]) \in Seq(Event)
    BY <1>1, <2>1
  <2>3. IsWindow(Append(history, evt[p]), Append(log, evt[p]), now)
    BY <1>1, <2>1, WindowGrows
  <2> QED
    BY <1>1, <1>4, <2>1, <2>2, <2>3, WindowPruned DEF PublishRecord
<1>5. CASE Snapshot
  BY <1>1, <1>5, WindowPruned DEF Snapshot
<1>6. CASE UNCHANGED <<log, history, now>>
  BY <1>1, <1>6
<1> QED
  BY <1>3, <1>4, <1>5, <1>6
  DEF Next, vars, Publish, PublishStart, PublishSend, Subscribe, Unsubscribe, Receive

\* The inductive invariant: the bookkeeping, and the properties with what each
\* rests on.
IInv ==
  /\ Bookkeeping /\ BufferInv /\ PendingInv /\ OrderInv
  /\ HistoryKeepsTheWindow /\ KeepingUpMissesNothing
  /\ StreamStartsAtSubscription /\ PublisherOrderKept

LEMMA InitIInv == Init => IInv
<1> SUFFICES ASSUME Init PROVE IInv
  OBVIOUS
<1> USE DEF Init
<1>1. Types
  <2>1. 0 \in 0..MaxEvents /\ 0 \in 0..MaxTime
    BY BoundsAssumption
  <2>2. \A p \in Publishers : [by |-> p, n |-> 0, at |-> 0] \in Event
    BY <2>1 DEF Event
  <2>3. evt \in [Publishers -> Event]
    BY <2>2
  <2>4. <<>> \in Seq(Event)
    OBVIOUS
  <2>5. history \in Seq(Event) /\ log \in Seq(Event) /\ sent \in [Channels -> Seq(Event)]
    BY <2>4
  <2>6. pc \in [Publishers -> {"idle", "locking", "sending"}] /\ todo \in [Publishers -> SUBSET Channels]
    OBVIOUS
  <2> QED
    BY <2>1, <2>3, <2>5, <2>6 DEF Types
<1>2. PublisherInv /\ ChannelInv /\ BufferInv /\ PendingInv /\ OrderInv
  BY CapacityAssumption DEF PublisherInv, ChannelInv, BufferInv, PendingInv, OrderInv
<1>3. HistoryKeepsTheWindow
  BY DEF HistoryKeepsTheWindow
<1>4. KeepingUpMissesNothing /\ StreamStartsAtSubscription /\ PublisherOrderKept
  BY DEF KeepingUpMissesNothing, StreamStartsAtSubscription, PublisherOrderKept, ToSet
<1> QED
  BY <1>1, <1>2, <1>3, <1>4 DEF IInv, Bookkeeping

\* Every step keeps the inductive invariant.
LEMMA Inductive == IInv /\ [Next]_vars => IInv'
<1> SUFFICES ASSUME IInv, [Next]_vars PROVE IInv'
  OBVIOUS
<1> USE DEF IInv, Bookkeeping
<1>1. Bookkeeping'
  BY TypeStep, PublisherStep, ChannelStep
<1>2. PendingInv' /\ OrderInv' /\ BufferInv'
  BY PendingStep, OrderStep, BufferStep
<1>3. HistoryKeepsTheWindow' /\ KeepingUpMissesNothing'
  BY WindowStep, KeepingUpStep
<1>4. StreamStartsAtSubscription' /\ PublisherOrderKept'
  BY StreamStep, OrderKeptStep
<1> QED
  BY <1>1, <1>2, <1>3, <1>4

LEMMA Invariance == Spec => []IInv
BY InitIInv, Inductive, PTL DEF Spec

\* The bus's state stays well formed: the list of subscribers is that of the
\* open channels, and no buffer holds more than its capacity.
THEOREM BusTypeCorrect == Spec => []TypeOK
<1>1. IInv => TypeOK
  BY DEF IInv, Bookkeeping, TypeOK, PublisherInv, ChannelInv, BufferInv
<1> QED
  BY <1>1, Invariance, PTL

\* Pruning never takes an event of the last historyTTL from the history.
THEOREM WindowKept == Spec => []HistoryKeepsTheWindow
<1>1. IInv => HistoryKeepsTheWindow
  BY DEF IInv
<1> QED
  BY <1>1, Invariance, PTL

\* A subscriber that keeps up is sent everything recorded since Subscribe.
THEOREM NothingMissed == Spec => []KeepingUpMissesNothing
<1>1. IInv => KeepingUpMissesNothing
  BY DEF IInv
<1> QED
  BY <1>1, Invariance, PTL

\* A subscriber is sent nothing recorded before Subscribe.
THEOREM StreamStarts == Spec => []StreamStartsAtSubscription
<1>1. IInv => StreamStartsAtSubscription
  BY DEF IInv
<1> QED
  BY <1>1, Invariance, PTL

\* One publisher's events reach every subscriber in order, at most once each.
THEOREM OrderKept == Spec => []PublisherOrderKept
<1>1. IInv => PublisherOrderKept
  BY DEF IInv
<1> QED
  BY <1>1, Invariance, PTL

=============================================================================
