-------------------------- MODULE WebTermStreamProofs --------------------------
(***************************************************************************)
(* Proofs about WebTermStream, for any viewers, publishers, capacity and   *)
(* time to live: the viewers' handlers use the bus as EventBus allows, so  *)
(* that what is proved of it holds under them; a replay leaves no gap      *)
(* before the live stream; and only the overlap of the two repeats.        *)
(***************************************************************************)
EXTENDS WebTermStream, EventBusProofs

\* A step of a viewer or a publisher is a step of the bus, or none.
LEMMA StepUsesBus ==
  ASSUME Types, [StreamNext]_streamVars
  PROVE  [Next]_vars
<1> USE DEF vars, Next, Publish
<1>1. CASE Bus(Tick)
  BY <1>1 DEF Tick, Bus
<1>2. ASSUME NEW p \in Publishers, Bus(PublishStart(p))
      PROVE  [Next]_vars
  BY <1>2 DEF PublishStart, Bus
<1>3. ASSUME NEW p \in Publishers, Bus(PublishRecord(p))
      PROVE  [Next]_vars
  BY <1>3 DEF PublishRecord, Bus
<1>4. ASSUME NEW p \in Publishers, NEW ch \in Channels, Bus(PublishSend(p, ch))
      PROVE  [Next]_vars
  BY <1>4 DEF PublishSend, Bus
<1>5. ASSUME NEW v \in Channels, Connect(v)
      PROVE  [Next]_vars
  BY <1>5 DEF Connect, Subscribe
<1>6. ASSUME NEW v \in Channels, GiveUp(v)
      PROVE  [Next]_vars
  BY <1>6 DEF GiveUp, Unsubscribe
<1>7. ASSUME NEW v \in Channels, TakeSnapshot(v)
      PROVE  [Next]_vars
  <2>1. PICK k \in 0..Len(history) :
          Pruned(history, now, k) /\ history' = SubSeq(history, k + 1, Len(history))
    BY <1>7 DEF TakeSnapshot
  <2>2. CASE k = 0
    <3>1. history' = history
      BY <2>1, <2>2 DEF Types
    <3> QED
      BY <1>7, <3>1 DEF TakeSnapshot, busVars
  <2>3. CASE k # 0
    BY <1>7, <2>1, <2>3 DEF TakeSnapshot, Snapshot
  <2> QED
    BY <2>2, <2>3
<1>8. ASSUME NEW v \in Channels, ReplayOne(v)
      PROVE  [Next]_vars
  BY <1>8 DEF ReplayOne
<1>9. ASSUME NEW v \in Channels, StartLive(v)
      PROVE  [Next]_vars
  BY <1>9 DEF StartLive
<1>10. ASSUME NEW v \in Channels, Take(v)
      PROVE  [Next]_vars
  BY <1>10 DEF Take, Receive
<1>11. ASSUME NEW v \in Channels, Written(v)
      PROVE  [Next]_vars
  BY <1>11 DEF Written
<1>12. ASSUME NEW v \in Channels, Leave(v)
      PROVE  [Next]_vars
  BY <1>12 DEF Leave, Unsubscribe
<1>13. ASSUME NEW v \in Channels, Ping(v)
      PROVE  [Next]_vars
  BY <1>13 DEF Ping
<1>14. ASSUME NEW v \in Channels, Pong(v)
      PROVE  [Next]_vars
  BY <1>14 DEF Pong
<1>15. ASSUME NEW v \in Channels, Hangup(v)
      PROVE  [Next]_vars
  BY <1>15 DEF Hangup
<1>16. CASE UNCHANGED streamVars
  BY <1>16 DEF streamVars
<1> QED
  BY <1>1, <1>2, <1>3, <1>4, <1>5, <1>6, <1>7, <1>8, <1>9, <1>10, <1>11,
     <1>12, <1>13, <1>14, <1>15, <1>16
  DEF StreamNext, Handler, Publish, Bus

\* What a viewer does with the bus is what EventBus allows.
LEMMA StreamRunsTheBus == StreamSpec => Spec
<1>1. StreamInit => Init
  BY DEF StreamInit
<1>2. StreamInit => IInv
  BY <1>1, InitIInv
<1>3. IInv /\ [StreamNext]_streamVars => IInv' /\ [Next]_vars
  <2> SUFFICES ASSUME IInv, [StreamNext]_streamVars PROVE IInv' /\ [Next]_vars
    OBVIOUS
  <2>1. [Next]_vars
    BY StepUsesBus DEF IInv, Bookkeeping
  <2> QED
    BY <2>1, Inductive
<1> QED
  BY <1>1, <1>2, <1>3, PTL DEF StreamSpec, Spec

\* So everything proved of the bus holds under the viewers, for instance:
\* the history keeps the replay window however viewers come and go.
THEOREM WindowKeptUnderViewers == StreamSpec => []HistoryKeepsTheWindow
BY StreamRunsTheBus, WindowKept, PTL

LEMMA BusInvariance == StreamSpec => []IInv
BY StreamRunsTheBus, Invariance, PTL

-----------------------------------------------------------------------------
(* Where the viewers are.                                                  *)

\* A viewer is subscribed from its connection to its end, receives only when
\* it is live, and has shown nothing before its snapshot.
ViewerInv ==
  \A v \in Channels :
    /\ v \in subs <=> stage[v] \in {"opening", "replaying", "live"}
    /\ stage[v] = "off" <=> state[v] = "new"
    /\ stage[v] \in {"off", "opening"} => out[v] = <<>> /\ replay[v] = <<>>
    /\ stage[v] \in {"off", "opening", "replaying"} => taken[v] = 0
    /\ stage[v] = "live" => replay[v] = <<>>
    /\ writing[v] => stage[v] = "live" /\ taken[v] \in 1..Len(sent[v])
    /\ taken[v] \in 0..Len(sent[v]) /\ edge[v] \in 0..Len(log)

Viewers == StreamTypeOK /\ ViewerInv

\* One turn of Publish's loop puts the event in that channel, or nothing.
LEMMA SendAppends ==
  ASSUME Types, NEW p \in Publishers, NEW ch \in Channels, PublishSend(p, ch), NEW v \in Channels
  PROVE  /\ sent'[v] = sent[v] \/ (v = ch /\ sent'[v] = Append(sent[v], evt[p]))
         /\ sent[v] \in Seq(Event) /\ evt[p] \in Event
         /\ Len(sent[v]) \in Nat /\ Len(sent'[v]) \in Nat /\ Len(sent'[v]) >= Len(sent[v])
<1>1. sent[v] \in Seq(Event) /\ evt[p] \in Event
  BY DEF Types
<1>2. sent'[v] = sent[v] \/ (v = ch /\ sent'[v] = Append(sent[v], evt[p]))
  BY DEF Types, PublishSend
<1> QED
  BY <1>1, <1>2

\* Every step keeps the viewers' types.
LEMMA StreamTypeStep ==
  ASSUME IInv, IInv', Viewers, [StreamNext]_streamVars
  PROVE  StreamTypeOK'
<1> USE DEF vars, busVars, chanVars, pubVars, viewVars, IInv, Bookkeeping, Types, Viewers,
      ViewerInv, StreamTypeOK, Move
<1>1. CASE Bus(Tick)
  BY <1>1 DEF Tick, Bus
<1>2. ASSUME NEW p \in Publishers, Bus(PublishStart(p))
      PROVE  StreamTypeOK'
  BY <1>2 DEF PublishStart, Bus
<1>3. ASSUME NEW p \in Publishers, Bus(PublishRecord(p))
      PROVE  StreamTypeOK'
  BY <1>3 DEF PublishRecord, Bus
<1>4. ASSUME NEW p \in Publishers, NEW ch \in Channels, Bus(PublishSend(p, ch))
      PROVE  StreamTypeOK'
  BY <1>4 DEF PublishSend, Bus
<1>5. ASSUME NEW v \in Channels, Connect(v)
      PROVE  StreamTypeOK'
  BY <1>5 DEF Connect, Subscribe
<1>6. ASSUME NEW v \in Channels, GiveUp(v)
      PROVE  StreamTypeOK'
  BY <1>6 DEF GiveUp, Unsubscribe
<1>7. ASSUME NEW v \in Channels, TakeSnapshot(v)
      PROVE  StreamTypeOK'
  BY <1>7 DEF TakeSnapshot
<1>8. ASSUME NEW v \in Channels, ReplayOne(v)
      PROVE  StreamTypeOK'
  BY <1>8 DEF ReplayOne
<1>9. ASSUME NEW v \in Channels, StartLive(v)
      PROVE  StreamTypeOK'
  BY <1>9 DEF StartLive
<1>10. ASSUME NEW v \in Channels, Take(v)
      PROVE  StreamTypeOK'
  BY <1>10 DEF Take, Receive
<1>11. ASSUME NEW v \in Channels, Written(v)
      PROVE  StreamTypeOK'
  <2>1. sent[v] \in Seq(Event) /\ taken[v] \in 1..Len(sent[v]) /\ out[v] \in Seq(Event)
    BY <1>11 DEF Written
  <2>2. sent[v][taken[v]] \in Event
    BY <2>1
  <2>3. Append(out[v], sent[v][taken[v]]) \in Seq(Event)
    BY <2>1, <2>2
  <2>4. CASE UNCHANGED out
    BY <1>11, <2>4 DEF Written
  <2>5. CASE out' = [out EXCEPT ![v] = Append(out[v], sent[v][taken[v]])]
    <3>1. out' \in [Channels -> Seq(Event)]
      BY <2>3, <2>5
    <3> QED
      BY <1>11, <3>1 DEF Written
  <2> QED
    BY <1>11, <2>4, <2>5 DEF Written
<1>12. ASSUME NEW v \in Channels, Leave(v)
      PROVE  StreamTypeOK'
  BY <1>12 DEF Leave, Unsubscribe
<1>13. ASSUME NEW v \in Channels, Ping(v)
      PROVE  StreamTypeOK'
  BY <1>13 DEF Ping
<1>14. ASSUME NEW v \in Channels, Pong(v)
      PROVE  StreamTypeOK'
  BY <1>14 DEF Pong
<1>15. ASSUME NEW v \in Channels, Hangup(v)
      PROVE  StreamTypeOK'
  BY <1>15 DEF Hangup
<1>16. CASE UNCHANGED streamVars
  BY <1>16 DEF streamVars
<1> QED
  BY <1>1, <1>2, <1>3, <1>4, <1>5, <1>6, <1>7, <1>8, <1>9, <1>10, <1>11,
     <1>12, <1>13, <1>14, <1>15, <1>16
  DEF StreamNext, Handler, Publish, Bus

\* Every step keeps track of where the viewers are.
LEMMA ViewerStep ==
  ASSUME IInv, IInv', Viewers, [StreamNext]_streamVars
  PROVE  ViewerInv'
<1> USE DEF vars, busVars, chanVars, pubVars, viewVars, IInv, Bookkeeping, Types,
      ChannelInv, Viewers, ViewerInv, StreamTypeOK, Move
<1>1. CASE Bus(Tick)
  BY <1>1 DEF Tick, Bus
<1>2. ASSUME NEW p \in Publishers, Bus(PublishStart(p))
      PROVE  ViewerInv'
  BY <1>2 DEF PublishStart, Bus
<1>3. ASSUME NEW p \in Publishers, Bus(PublishRecord(p))
      PROVE  ViewerInv'
  BY <1>3, SMTT(30) DEF PublishRecord, Bus
<1>4. ASSUME NEW p \in Publishers, NEW ch \in Channels, Bus(PublishSend(p, ch))
      PROVE  ViewerInv'
  <2>1. UNCHANGED <<subs, state, taken, log, viewVars>>
    BY <1>4 DEF PublishSend, Bus
  <2>2. ASSUME NEW v \in Channels
        PROVE  Len(sent[v]) \in Nat /\ Len(sent'[v]) \in Nat /\ Len(sent'[v]) >= Len(sent[v])
    BY <1>4, SendAppends DEF Bus
  <2> SUFFICES ASSUME NEW v \in Channels
               PROVE  /\ writing[v] => taken[v] \in 1..Len(sent'[v])
                      /\ taken[v] \in 0..Len(sent'[v])
    BY <2>1
  <2>3. /\ writing[v] => taken[v] \in 1..Len(sent[v])
        /\ taken[v] \in 0..Len(sent[v])
    OBVIOUS
  <2> HIDE DEF IInv, Bookkeeping, Types, ChannelInv, Viewers, ViewerInv, StreamTypeOK
  <2> QED
    BY <2>2, <2>3
<1>5. ASSUME NEW v \in Channels, Connect(v)
      PROVE  ViewerInv'
  BY <1>5 DEF Connect, Subscribe
<1>6. ASSUME NEW v \in Channels, GiveUp(v)
      PROVE  ViewerInv'
  BY <1>6 DEF GiveUp, Unsubscribe
<1>7. ASSUME NEW v \in Channels, TakeSnapshot(v)
      PROVE  ViewerInv'
  BY <1>7 DEF TakeSnapshot
<1>8. ASSUME NEW v \in Channels, ReplayOne(v)
      PROVE  ViewerInv'
  BY <1>8, SMTT(30) DEF ReplayOne
<1>9. ASSUME NEW v \in Channels, StartLive(v)
      PROVE  ViewerInv'
  BY <1>9 DEF StartLive
<1>10. ASSUME NEW v \in Channels, Take(v)
      PROVE  ViewerInv'
  <2>1. taken[v] \in Nat /\ Len(sent[v]) \in Nat /\ taken[v] < Len(sent[v])
    BY <1>10 DEF Take, Receive
  <2>2. taken' = [taken EXCEPT ![v] = taken[v] + 1] /\ taken[v] + 1 \in 1..Len(sent[v])
    BY <1>10, <2>1 DEF Take, Receive
  <2>3. /\ UNCHANGED <<subs, state, log, sent, stage, replay, out, edge>> /\ stage[v] = "live"
        /\ writing' = [writing EXCEPT ![v] = TRUE]
    BY <1>10 DEF Take, Receive
  <2>4. ASSUME NEW x \in Channels
        PROVE  /\ stage[x] \in {"off", "opening", "replaying"} => taken'[x] = 0
               /\ writing'[x] => stage[x] = "live" /\ taken'[x] \in 1..Len(sent[x])
               /\ taken'[x] \in 0..Len(sent[x])
    <3>1. CASE x = v
      <4>1. taken'[x] = taken[v] + 1
        BY <2>2, <3>1
      <4> QED
        BY <2>1, <2>2, <2>3, <3>1, <4>1
    <3>2. CASE x # v
      BY <2>2, <2>3, <3>2
    <3> QED
      BY <3>1, <3>2
  <2> QED
    BY <2>3, <2>4
<1>11. ASSUME NEW v \in Channels, Written(v)
      PROVE  ViewerInv'
  BY <1>11, SMTT(30) DEF Written
<1>12. ASSUME NEW v \in Channels, Leave(v)
      PROVE  ViewerInv'
  BY <1>12 DEF Leave, Unsubscribe
<1>13. ASSUME NEW v \in Channels, Ping(v)
      PROVE  ViewerInv'
  BY <1>13 DEF Ping
<1>14. ASSUME NEW v \in Channels, Pong(v)
      PROVE  ViewerInv'
  BY <1>14 DEF Pong
<1>15. ASSUME NEW v \in Channels, Hangup(v)
      PROVE  ViewerInv'
  BY <1>15 DEF Hangup
<1>16. CASE UNCHANGED streamVars
  BY <1>16 DEF streamVars
<1> QED
  BY <1>1, <1>2, <1>3, <1>4, <1>5, <1>6, <1>7, <1>8, <1>9, <1>10, <1>11,
     <1>12, <1>13, <1>14, <1>15, <1>16
  DEF StreamNext, Handler, Publish, Bus

\* No two events of a publisher are in the log out of its order, and none is
\* later than its present one.
LogInv ==
  /\ \A i, j \in DOMAIN log : i < j /\ log[i].by = log[j].by => log[i].n < log[j].n
  /\ \A i \in DOMAIN log, p \in Publishers : log[i].by = p =>
       log[i].n <= evt[p].n /\ (pc[p] = "locking" => log[i].n < evt[p].n)

\* What a viewer was shown of the replay and is still to be shown.
Early(v) == {log[i] : i \in 1..edge[v]}

\* Number k of v's channel has not been written to its web socket.
Unwritten(v, k) == k > taken[v] \/ (k = taken[v] /\ writing[v])

\* The screen, the rest of the replay and the rest of the channel follow one
\* another in each publisher's order, the overlap excepted.
Orderly(v) ==
  /\ ToSet(out[v]) \subseteq Early(v) \cup ToSet(sent[v])
  /\ ToSet(replay[v]) \subseteq Early(v)
  /\ \A i, j \in DOMAIN replay[v] :
       i < j /\ replay[v][i].by = replay[v][j].by => replay[v][i].n < replay[v][j].n
  /\ \A i \in DOMAIN out[v], j \in DOMAIN replay[v] :
       out[v][i].by = replay[v][j].by => out[v][i].n < replay[v][j].n
  /\ \A i \in DOMAIN out[v], k \in DOMAIN sent[v] :
       Unwritten(v, k) /\ out[v][i].by = sent[v][k].by /\ out[v][i].n >= sent[v][k].n
         => sent[v][k] \in Overlap(v)
  /\ \A i, j \in DOMAIN out[v] :
       i < j /\ out[v][i].by = out[v][j].by /\ out[v][i].n >= out[v][j].n
         => out[v][j] \in Overlap(v)


-----------------------------------------------------------------------------
(* The log.                                                                *)

\* Every step keeps the log in each publisher's order.
LEMMA LogStep ==
  ASSUME Types, PublisherInv, LogInv, [Next]_vars
  PROVE  LogInv'
<1>1. ASSUME NEW i \in DOMAIN log
      PROVE  log[i] \in Event /\ log[i].n \in Int
  <2>1. log \in Seq(Event)
    BY DEF Types
  <2>2. log[i] \in Event
    BY <2>1
  <2> QED
    BY <2>2, BoundsAssumption DEF Event
<1>2. ASSUME NEW p \in Publishers
      PROVE  evt[p] \in Event /\ evt[p].n \in Int /\ evt[p].by = p
  BY BoundsAssumption DEF Types, PublisherInv, Event
<1>3. ASSUME NEW p \in Publishers, PublishStart(p)
      PROVE  LogInv'
  <2>1. log' = log /\ evt'[p].n = evt[p].n + 1
    <3>1. log' = log /\ evt'[p] = [by |-> p, n |-> evt[p].n + 1, at |-> now]
      BY <1>3 DEF PublishStart, Types, busVars
    <3> QED
      BY <3>1
  <2>2. \A q \in Publishers \ {p} : evt'[q] = evt[q] /\ pc'[q] = pc[q]
    BY <1>3 DEF PublishStart, Types
  <2>3. ASSUME NEW i \in DOMAIN log, NEW q \in Publishers, log[i].by = q
        PROVE  log[i].n <= evt'[q].n /\ (pc'[q] = "locking" => log[i].n < evt'[q].n)
    <3>1. log[i].n <= evt[q].n
      BY <2>3 DEF LogInv
    <3>2. CASE q = p
      BY <1>1, <1>2, <2>1, <3>1, <3>2
    <3>3. CASE q # p
      BY <2>2, <2>3, <3>3 DEF LogInv
    <3> QED
      BY <3>2, <3>3
  <2> QED
    BY <2>1, <2>3 DEF LogInv
<1>4. ASSUME NEW p \in Publishers, PublishRecord(p)
      PROVE  LogInv'
  <2>1. /\ log \in Seq(Event) /\ log' = Append(log, evt[p]) /\ evt' = evt
        /\ pc[p] = "locking" /\ pc'[p] # "locking"
        /\ \A q \in Publishers : pc'[q] = "locking" => pc[q] = "locking"
    BY <1>4 DEF PublishRecord, Types
  <2>2. /\ DOMAIN log' = 1..Len(log) + 1 /\ DOMAIN log = 1..Len(log) /\ Len(log) \in Nat
        /\ log'[Len(log) + 1] = evt[p] /\ \A i \in DOMAIN log : log'[i] = log[i]
    BY <1>2, <2>1
  <2>3. \A i \in DOMAIN log' : i \in DOMAIN log \/ i = Len(log) + 1
    BY <2>2
  <2>4. \A i \in DOMAIN log : log[i].by = p => log[i].n < evt[p].n
    BY <2>1 DEF LogInv
  <2>5. ASSUME NEW i \in DOMAIN log', NEW j \in DOMAIN log', i < j, log'[i].by = log'[j].by
        PROVE  log'[i].n < log'[j].n
    <3>1. i \in DOMAIN log
      BY <2>2, <2>5
    <3>2. CASE j \in DOMAIN log
      BY <2>2, <2>5, <3>1, <3>2 DEF LogInv
    <3>3. CASE j = Len(log) + 1
      BY <1>2, <2>2, <2>4, <2>5, <3>1, <3>3
    <3> QED
      BY <2>3, <3>2, <3>3
  <2>6. ASSUME NEW i \in DOMAIN log', NEW q \in Publishers, log'[i].by = q
        PROVE  log'[i].n <= evt'[q].n /\ (pc'[q] = "locking" => log'[i].n < evt'[q].n)
    <3>1. CASE i \in DOMAIN log
      BY <2>1, <2>2, <2>6, <3>1 DEF LogInv
    <3>2. CASE i = Len(log) + 1
      BY <1>2, <2>1, <2>2, <2>6, <3>2
    <3> QED
      BY <2>3, <3>1, <3>2
  <2> QED
    BY <2>5, <2>6 DEF LogInv
<1>5. CASE /\ UNCHANGED <<log, evt>>
           /\ \A q \in Publishers : pc'[q] = "locking" => pc[q] = "locking"
  BY <1>5 DEF LogInv
<1>6. ASSUME NEW p \in Publishers, NEW ch \in Channels, PublishSend(p, ch)
      PROVE  LogInv'
  <2>1. UNCHANGED <<log, evt>>
    BY <1>6 DEF PublishSend, busVars
  <2>2. \A q \in Publishers : pc'[q] = "locking" => pc[q] = "locking"
    BY <1>6 DEF PublishSend, Types
  <2> QED
    BY <1>5, <2>1, <2>2
<1>7. CASE UNCHANGED <<log, evt, pc>>
  BY <1>5, <1>7
<1> QED
  BY <1>3, <1>4, <1>6, <1>7
  DEF Next, Publish, vars, busVars, chanVars, pubVars, Tick, Subscribe, Unsubscribe, Receive,
        Snapshot

\* Of two events of one publisher the one that is not smaller was recorded
\* later: one that a snapshot has the same or a later one of is overlap.
LEMMA OverlapIs ==
  ASSUME IInv, LogInv, NEW v \in Channels, edge[v] \in 0..Len(log),
         NEW x \in Early(v), NEW y \in Owed(v), x.by = y.by, x.n >= y.n
  PROVE  y \in Overlap(v)
<1>1. PICK i \in 1..edge[v] : x = log[i]
  BY DEF Early
<1>2. PICK j \in joined[v] + 1 .. Len(log) : y = log[j]
  BY DEF Owed
<1>3. /\ log \in Seq(Event) /\ Len(log) \in Nat /\ joined[v] \in Nat
      /\ i \in DOMAIN log /\ j \in DOMAIN log
  BY DEF IInv, Bookkeeping, Types
<1>4. x.n \in Int /\ y.n \in Int
  <2>1. x \in Event /\ y \in Event
    BY <1>1, <1>2, <1>3
  <2> QED
    BY <2>1, BoundsAssumption DEF Event
<1>5. ~(i < j)
  BY <1>1, <1>2, <1>3, <1>4 DEF LogInv
<1>6. j \in joined[v] + 1 .. edge[v]
  BY <1>3, <1>5
<1> QED
  BY <1>2, <1>6 DEF Overlap

-----------------------------------------------------------------------------
(* No gap.                                                                 *)

\* Viewer v keeps its place.
StreamOf(v) ==
  <<stage[v], replay[v], writing[v], out[v], sent[v], taken[v], joined[v], edge[v], lagged[v]>>

\* NoGap for one viewer.
NoGapOf(v) ==
  stage[v] \in {"replaying", "live"} /\ ~lagged[v] /\ ~clashed[v] =>
    \A i \in 1..Len(log) :
      ~Expired(log[i], now) \/ i > joined[v] => log[i] \in Seen(v) \cup Pending(v)

\* A step that moves neither the log nor the viewer, and takes nothing from
\* what the publishers have for it, leaves no gap.
LEMMA NoGapFrame ==
  ASSUME NEW v \in Channels, NoGapOf(v), UNCHANGED <<log, StreamOf(v)>>,
         clashed[v] => clashed'[v],
         \A i \in 1..Len(log) : Expired(log[i], now) => Expired(log[i], now'),
         Pending(v) \subseteq Pending(v)'
  PROVE  NoGapOf(v)'
<1>1. Seen(v)' = Seen(v)
  BY DEF Seen, StreamOf, ToSet
<1>2. \A i \in 1..Len(log) : log'[i] = log[i] /\ (Expired(log[i], now)' <=> Expired(log[i], now'))
  BY DEF Expired
<1> QED
  BY <1>1, <1>2 DEF NoGapOf, StreamOf

\* What has been shown, is still to be replayed, or waits in the channel only
\* grows when the viewer itself moves on.
LEMMA ReplayKeeps ==
  ASSUME Viewers, NEW v \in Channels, ReplayOne(v)
  PROVE  Seen(v) \subseteq Seen(v)'
<1>1. replay[v] \in Seq(Event) /\ out[v] \in Seq(Event) /\ replay[v] # <<>>
  BY DEF Viewers, StreamTypeOK, ReplayOne
<1>2. /\ out'[v] = Append(out[v], Head(replay[v])) /\ replay'[v] = Tail(replay[v])
      /\ sent' = sent /\ taken' = taken /\ writing' = writing
  BY DEF Viewers, StreamTypeOK, ReplayOne, vars, chanVars
<1>3. Head(replay[v]) \in Event
  BY <1>1
<1>4. ToSet(out'[v]) = ToSet(out[v]) \cup {Head(replay[v])}
  BY <1>1, <1>2, <1>3, ToSetAppend
<1>5. ToSet(replay[v]) \subseteq {Head(replay[v])} \cup ToSet(replay'[v])
  <2> SUFFICES ASSUME NEW i \in DOMAIN replay[v], i # 1
               PROVE  \E j \in DOMAIN Tail(replay[v]) : replay[v][i] = Tail(replay[v])[j]
    BY <1>1, <1>2 DEF ToSet
  <2>1. i - 1 \in DOMAIN Tail(replay[v]) /\ Tail(replay[v])[i - 1] = replay[v][i]
    BY <1>1
  <2> QED
    BY <2>1
<1> QED
  BY <1>2, <1>4, <1>5 DEF Seen

LEMMA WrittenKeeps ==
  ASSUME Viewers, Types, NEW v \in Channels, Written(v), ~clashed[v]
  PROVE  Seen(v) \subseteq Seen(v)'
<1>1. /\ sent[v] \in Seq(Event) /\ out[v] \in Seq(Event)
      /\ taken[v] \in 1..Len(sent[v]) /\ Len(sent[v]) \in Nat
  BY DEF Viewers, StreamTypeOK, ViewerInv, Types, Written
<1>2. /\ out'[v] = Append(out[v], sent[v][taken[v]]) /\ writing[v] /\ ~writing'[v]
      /\ sent' = sent /\ taken' = taken /\ replay' = replay
  BY DEF Viewers, StreamTypeOK, Written, vars, chanVars
<1>3. sent[v][taken[v]] \in Event
  BY <1>1
<1>4. ToSet(out'[v]) = ToSet(out[v]) \cup {sent[v][taken[v]]}
  BY <1>1, <1>2, <1>3, ToSetAppend
<1>5. \A i \in taken[v]..Len(sent[v]) : i = taken[v] \/ i \in taken[v] + 1 .. Len(sent[v])
  BY <1>1
<1> QED
  BY <1>2, <1>4, <1>5 DEF Seen

\* The snapshot: with what the channel holds by then it has everything.
LEMMA SnapshotHasAll ==
  ASSUME IInv, IInv', Viewers, NEW v \in Channels, TakeSnapshot(v)
  PROVE  NoGapOf(v)'
<1>1. /\ replay'[v] = history' /\ stage[v] = "opening" /\ v \in subs
      /\ UNCHANGED <<now, log, chanVars, pubVars, writing>>
  BY DEF TakeSnapshot, Viewers, StreamTypeOK, ViewerInv
<1>2. ~writing[v] /\ taken[v] = 0 /\ joined[v] \in Nat
  BY <1>1 DEF Viewers, ViewerInv, IInv, Bookkeeping, Types
<1>3. sent[v] \in Seq(Event) /\ log \in Seq(Event)
  BY DEF IInv, Bookkeeping, Types
<1>4. ToSet(sent[v]) \cup ToSet(history') \subseteq Seen(v)'
  BY <1>1, <1>2, <1>3 DEF Seen, ToSet, chanVars
<1>5. ASSUME NEW i \in 1..Len(log), i > joined[v], ~lagged[v]
      PROVE  log[i] \in ToSet(sent[v]) \cup Pending(v)
  <2>1. log[i] \in Owed(v)
    BY <1>2, <1>5 DEF Owed
  <2> QED
    BY <1>1, <1>5, <2>1 DEF IInv, KeepingUpMissesNothing
<1>6. ASSUME NEW i \in 1..Len(log), ~Expired(log[i], now)
      PROVE  log[i] \in ToSet(history')
  <2>1. PICK b \in 0..Len(log) : /\ history' = SubSeq(log, b + 1, Len(log))
                                 /\ \A k \in 1..b : Expired(log[k], now)
    BY <1>1 DEF IInv, HistoryKeepsTheWindow, Expired
  <2>2. i > b
    BY <1>3, <1>6, <2>1
  <2>3. i - b \in DOMAIN history' /\ history'[i - b] = log[i]
    BY <1>3, <2>1, <2>2
  <2> QED
    BY <2>3 DEF ToSet
<1>7. Pending(v)' = Pending(v)
  BY <1>1 DEF Pending, pubVars
<1>8. lagged' = lagged /\ log' = log /\ joined' = joined /\ \A i \in 1..Len(log) : Expired(log[i], now)' <=> Expired(log[i], now)
  BY <1>1 DEF chanVars, Expired
<1> QED
  BY <1>4, <1>5, <1>6, <1>7, <1>8 DEF NoGapOf

\* Recording an event puts it before every subscriber.
LEMMA RecordKeepsNoGap ==
  ASSUME IInv, Viewers, NEW p \in Publishers, Bus(PublishRecord(p)), NEW v \in Channels, NoGapOf(v)
  PROVE  NoGapOf(v)'
<1> SUFFICES ASSUME stage[v] \in {"replaying", "live"}, ~lagged[v], ~clashed[v],
                    NEW i \in 1..Len(log'), ~Expired(log'[i], now) \/ i > joined[v]
             PROVE  log'[i] \in Seen(v) \cup Pending(v)'
  <2>1. UNCHANGED <<now, sent, taken, joined, lagged, stage, clashed, writing, out, replay>>
    BY DEF Bus, PublishRecord, chanVars, viewVars
  <2>2. Seen(v)' = Seen(v) /\ \A e : Expired(e, now') <=> Expired(e, now)
    BY <2>1 DEF Seen, ToSet
  <2>3. \A i \in 1..Len(log') : Expired(log[i], now)' <=> Expired(log'[i], now)
    BY <2>1 DEF Expired
  <2> QED
    BY <2>1, <2>2, <2>3 DEF NoGapOf
<1>1. /\ log \in Seq(Event) /\ evt[p] \in Event /\ log' = Append(log, evt[p])
      /\ evt' = evt /\ todo' = [todo EXCEPT ![p] = subs] /\ v \in subs /\ todo[p] = {}
  BY DEF Bus, PublishRecord, IInv, Bookkeeping, Types, PublisherInv, Viewers, ViewerInv
<1>2. Pending(v)' = Pending(v) \cup {evt[p]}
  BY <1>1 DEF Pending, IInv, Bookkeeping, Types
<1>3. CASE i \in 1..Len(log)
  BY <1>1, <1>2, <1>3 DEF NoGapOf
<1>4. CASE i = Len(log) + 1
  BY <1>1, <1>2, <1>4
<1> QED
  BY <1>1, <1>3, <1>4

\* Sending moves an event from a publisher to the channel, unless it is full.
LEMMA SendKeepsNoGap ==
  ASSUME IInv, Viewers, NEW p \in Publishers, NEW ch \in Channels, Bus(PublishSend(p, ch)),
         NEW v \in Channels, NoGapOf(v)
  PROVE  NoGapOf(v)'
<1>1. /\ UNCHANGED <<now, log, taken, joined, stage, clashed, writing, out, replay, edge>>
      /\ evt' = evt /\ todo' = [todo EXCEPT ![p] = @ \ {ch}] /\ ch \in todo[p]
  BY DEF Bus, PublishSend, busVars, viewVars
<1>2. CASE v # ch
  <2>1. sent'[v] = sent[v] /\ lagged'[v] = lagged[v]
    BY <1>2 DEF Bus, PublishSend, IInv, Bookkeeping, Types
  <2>2. Pending(v)' = Pending(v)
    BY <1>1, <1>2 DEF Pending, IInv, Bookkeeping, Types
  <2> QED
    BY <1>1, <2>1, <2>2, NoGapFrame DEF StreamOf
<1>3. CASE v = ch /\ stage[v] \in {"replaying", "live"} /\ ~lagged'[v] /\ ~clashed[v]
  <2>1. state[v] = "open"
    BY <1>3 DEF Viewers, ViewerInv, IInv, Bookkeeping, ChannelInv
  <2>2. sent'[v] = Append(sent[v], evt[p]) /\ ~lagged[v]
    BY <1>3, <2>1 DEF Bus, PublishSend, IInv, Bookkeeping, Types
  <2>3. /\ sent[v] \in Seq(Event) /\ evt[p] \in Event /\ taken[v] \in 0..Len(sent[v])
        /\ writing[v] => taken[v] \in 1..Len(sent[v])
    BY DEF IInv, Bookkeeping, Types, Viewers, ViewerInv
  <2>4. /\ Len(sent'[v]) = Len(sent[v]) + 1 /\ sent'[v][Len(sent[v]) + 1] = evt[p]
        /\ \A i \in 1..Len(sent[v]) : sent'[v][i] = sent[v][i]
    BY <2>2, <2>3
  <2> DEFINE first == IF writing[v] THEN taken[v] ELSE taken[v] + 1
  <2>5. first \in 1..Len(sent[v]) + 1 /\ first \in Nat /\ Len(sent[v]) \in Nat
    BY <2>3
  <2>6. Seen(v)' = ToSet(out[v]) \cup ToSet(replay[v]) \cup {sent'[v][i] : i \in first..Len(sent'[v])}
    BY <1>1 DEF Seen, ToSet
  <2>7. Seen(v) = ToSet(out[v]) \cup ToSet(replay[v]) \cup {sent[v][i] : i \in first..Len(sent[v])}
    BY DEF Seen
  <2> HIDE DEF first
  <2>8. /\ \A i \in first..Len(sent[v]) : i \in first..Len(sent'[v]) /\ i \in 1..Len(sent[v])
        /\ Len(sent[v]) + 1 \in first..Len(sent'[v])
    BY <2>4, <2>5
  <2>9. Seen(v) \cup {evt[p]} \subseteq Seen(v)'
    BY <2>4, <2>6, <2>7, <2>8
  <2>10. Pending(v) \subseteq Pending(v)' \cup {evt[p]}
    BY <1>1, <1>3 DEF Pending, IInv, Bookkeeping, Types
  <2>11. \A i \in 1..Len(log) : log'[i] = log[i] /\ (Expired(log[i], now)' <=> Expired(log[i], now))
    BY <1>1 DEF Expired
  <2> QED
    BY <1>1, <1>3, <2>2, <2>9, <2>10, <2>11 DEF NoGapOf
<1>4. CASE ~(stage[v] \in {"replaying", "live"} /\ ~lagged'[v] /\ ~clashed[v])
  BY <1>1, <1>4 DEF NoGapOf
<1> QED
  BY <1>2, <1>3, <1>4

\* What has expired stays so.
LEMMA ExpiredAges ==
  ASSUME NEW i \in 1..Len(log), Expired(log[i], now), log \in Seq(Event), now \in Nat
  PROVE  Expired(log[i], now + 1)
<1>1. log[i].at \in Int /\ TTL \in Int
  BY LogTimes, TTLAssumption
<1> QED
  BY <1>1 DEF Expired

\* Steps at which viewer v gives up its place, or has none yet.
LEMMA GonePlace ==
  ASSUME NEW v \in Channels, stage'[v] \notin {"replaying", "live"}
  PROVE  NoGapOf(v)'
BY DEF NoGapOf

\* The viewer's own steps between its snapshot and its end.
LEMMA OwnKeepsNoGap ==
  ASSUME NEW v \in Channels, NoGapOf(v), stage[v] \in {"replaying", "live"},
         UNCHANGED <<now, log, joined, lagged, todo, evt>>, clashed[v] => clashed'[v],
         ~clashed'[v] => Seen(v) \subseteq Seen(v)'
  PROVE  NoGapOf(v)'
<1>1. Pending(v)' = Pending(v)
  BY DEF Pending
<1>2. \A i \in 1..Len(log) : log'[i] = log[i] /\ (Expired(log[i], now)' <=> Expired(log[i], now))
  BY DEF Expired
<1> QED
  BY <1>1, <1>2 DEF NoGapOf

\* Every step keeps every viewer without a gap.
LEMMA NoGapStep ==
  ASSUME IInv, IInv', Viewers, NEW u \in Channels, NoGapOf(u), [StreamNext]_streamVars
  PROVE  NoGapOf(u)'
<1> USE DEF vars, busVars, chanVars, pubVars, viewVars, IInv, Bookkeeping, Types, Viewers,
      ViewerInv, StreamTypeOK, Move
<1>1. CASE Bus(Tick)
  <2>1. UNCHANGED <<log, evt, todo, StreamOf(u), clashed>> /\ now' = now + 1 /\ now \in Nat
    BY <1>1 DEF Tick, Bus, StreamOf
  <2>2. Pending(u)' = Pending(u)
    BY <2>1 DEF Pending
  <2>3. \A i \in 1..Len(log) : Expired(log[i], now) => Expired(log[i], now')
    BY <2>1, ExpiredAges
  <2> QED
    BY <2>1, <2>2, <2>3, NoGapFrame
<1>2. ASSUME NEW p \in Publishers, Bus(PublishStart(p))
      PROVE  NoGapOf(u)'
  <2>1. UNCHANGED <<now, log, todo, StreamOf(u), clashed>> /\ todo[p] = {} /\ evt' = [evt EXCEPT ![p] = evt'[p]]
    BY <1>2 DEF PublishStart, Bus, StreamOf, PublisherInv
  <2>2. Pending(u)' = Pending(u)
    BY <2>1 DEF Pending
  <2> QED
    BY <2>1, <2>2, NoGapFrame
<1>3. ASSUME NEW p \in Publishers, Bus(PublishRecord(p))
      PROVE  NoGapOf(u)'
  BY <1>3, RecordKeepsNoGap
<1>4. ASSUME NEW p \in Publishers, NEW ch \in Channels, Bus(PublishSend(p, ch))
      PROVE  NoGapOf(u)'
  BY <1>4, SendKeepsNoGap
<1>5. ASSUME NEW v \in Channels, Connect(v)
      PROVE  NoGapOf(u)'
  <2>1. CASE u # v
    <3>1. /\ UNCHANGED <<now, log, evt, todo, StreamOf(u), clashed[u]>>
      BY <1>5, <2>1 DEF Connect, Subscribe, StreamOf
    <3>2. Pending(u)' = Pending(u)
      BY <3>1 DEF Pending
    <3> QED
      BY <3>1, <3>2, NoGapFrame
  <2>2. CASE u = v
    <3>1. stage'[u] \notin {"replaying", "live"}
      BY <1>5, <2>2 DEF Connect, Subscribe
    <3> QED
      BY <3>1, GonePlace
  <2> QED
    BY <2>1, <2>2
<1>6. ASSUME NEW v \in Channels, GiveUp(v)
      PROVE  NoGapOf(u)'
  <2>1. CASE u # v
    <3>1. /\ UNCHANGED <<now, log, evt, todo, StreamOf(u), clashed[u]>>
      BY <1>6, <2>1 DEF GiveUp, Unsubscribe, StreamOf
    <3>2. Pending(u)' = Pending(u)
      BY <3>1 DEF Pending
    <3> QED
      BY <3>1, <3>2, NoGapFrame
  <2>2. CASE u = v
    <3>1. stage'[u] \notin {"replaying", "live"}
      BY <1>6, <2>2 DEF GiveUp, Unsubscribe
    <3> QED
      BY <3>1, GonePlace
  <2> QED
    BY <2>1, <2>2
<1>7. ASSUME NEW v \in Channels, TakeSnapshot(v)
      PROVE  NoGapOf(u)'
  <2>1. CASE u # v
    <3>1. /\ UNCHANGED <<now, log, evt, todo, StreamOf(u), clashed[u]>>
      BY <1>7, <2>1 DEF TakeSnapshot, StreamOf
    <3>2. Pending(u)' = Pending(u)
      BY <3>1 DEF Pending
    <3> QED
      BY <3>1, <3>2, NoGapFrame
  <2>2. CASE u = v
    BY <1>7, <2>2, SnapshotHasAll
  <2> QED
    BY <2>1, <2>2
<1>8. ASSUME NEW v \in Channels, ReplayOne(v)
      PROVE  NoGapOf(u)'
  <2>1. CASE u # v
    <3>1. /\ UNCHANGED <<now, log, evt, todo, StreamOf(u), clashed[u]>>
      BY <1>8, <2>1 DEF ReplayOne, StreamOf
    <3>2. Pending(u)' = Pending(u)
      BY <3>1 DEF Pending
    <3> QED
      BY <3>1, <3>2, NoGapFrame
  <2>2. CASE u = v
    <3>1. /\ UNCHANGED <<now, log, joined, lagged, todo, evt>> /\ (clashed[u] => clashed'[u])
          /\ stage[u] \in {"replaying", "live"}
      BY <1>8, <2>2 DEF ReplayOne
    <3>2. Seen(u) \subseteq Seen(u)'
      BY <1>8, <2>2, ReplayKeeps
    <3> QED
      BY <3>1, <3>2, OwnKeepsNoGap
  <2> QED
    BY <2>1, <2>2
<1>9. ASSUME NEW v \in Channels, StartLive(v)
      PROVE  NoGapOf(u)'
  <2>1. CASE u # v
    <3>1. /\ UNCHANGED <<now, log, evt, todo, StreamOf(u), clashed[u]>>
      BY <1>9, <2>1 DEF StartLive, StreamOf
    <3>2. Pending(u)' = Pending(u)
      BY <3>1 DEF Pending
    <3> QED
      BY <3>1, <3>2, NoGapFrame
  <2>2. CASE u = v
    <3>1. /\ UNCHANGED <<now, log, joined, lagged, todo, evt>> /\ (clashed[u] => clashed'[u])
          /\ stage[u] \in {"replaying", "live"}
      BY <1>9, <2>2 DEF StartLive
    <3>2. Seen(u) \subseteq Seen(u)'
      BY <1>9, <2>2 DEF StartLive, Seen, ToSet
    <3> QED
      BY <3>1, <3>2, OwnKeepsNoGap
  <2> QED
    BY <2>1, <2>2
<1>10. ASSUME NEW v \in Channels, Take(v)
      PROVE  NoGapOf(u)'
  <2>1. CASE u # v
    <3>1. /\ UNCHANGED <<now, log, evt, todo, StreamOf(u), clashed[u]>>
      BY <1>10, <2>1 DEF Take, Receive, StreamOf
    <3>2. Pending(u)' = Pending(u)
      BY <3>1 DEF Pending
    <3> QED
      BY <3>1, <3>2, NoGapFrame
  <2>2. CASE u = v
    <3>1. /\ UNCHANGED <<now, log, joined, lagged, todo, evt>> /\ (clashed[u] => clashed'[u])
          /\ stage[u] \in {"replaying", "live"}
      BY <1>10, <2>2 DEF Take, Receive
    <3>2. /\ ~writing[u] /\ writing'[u] /\ taken'[u] = taken[u] + 1
          /\ UNCHANGED <<sent, out, replay>>
      BY <1>10, <2>2 DEF Take, Receive
    <3>3. Seen(u)' = Seen(u)
      BY <3>2 DEF Seen, ToSet
    <3> QED
      BY <3>1, <3>3, OwnKeepsNoGap
  <2> QED
    BY <2>1, <2>2
<1>11. ASSUME NEW v \in Channels, Written(v)
      PROVE  NoGapOf(u)'
  <2>1. CASE u # v
    <3>1. /\ UNCHANGED <<now, log, evt, todo, StreamOf(u), clashed[u]>>
      BY <1>11, <2>1, SMTT(30) DEF Written, StreamOf
    <3>2. Pending(u)' = Pending(u)
      BY <3>1 DEF Pending
    <3> QED
      BY <3>1, <3>2, NoGapFrame
  <2>2. CASE u = v
    <3>1. /\ UNCHANGED <<now, log, joined, lagged, todo, evt>> /\ (clashed[u] => clashed'[u])
          /\ stage[u] \in {"replaying", "live"}
      BY <1>11, <2>2 DEF Written
    <3>2. ~clashed'[u] => Seen(u) \subseteq Seen(u)'
      BY <1>11, <2>2, WrittenKeeps DEF Written
    <3> QED
      BY <3>1, <3>2, OwnKeepsNoGap
  <2> QED
    BY <2>1, <2>2
<1>12. ASSUME NEW v \in Channels, Leave(v)
      PROVE  NoGapOf(u)'
  <2>1. CASE u # v
    <3>1. /\ UNCHANGED <<now, log, evt, todo, StreamOf(u), clashed[u]>>
      BY <1>12, <2>1 DEF Leave, Unsubscribe, StreamOf
    <3>2. Pending(u)' = Pending(u)
      BY <3>1 DEF Pending
    <3> QED
      BY <3>1, <3>2, NoGapFrame
  <2>2. CASE u = v
    <3>1. stage'[u] \notin {"replaying", "live"}
      BY <1>12, <2>2 DEF Leave, Unsubscribe
    <3> QED
      BY <3>1, GonePlace
  <2> QED
    BY <2>1, <2>2
<1>13. ASSUME NEW v \in Channels, Ping(v)
      PROVE  NoGapOf(u)'
  <2>1. UNCHANGED <<now, log, evt, todo, StreamOf(u)>> /\ (clashed[u] => clashed'[u])
    BY <1>13 DEF Ping, StreamOf
  <2>2. Pending(u)' = Pending(u)
    BY <2>1 DEF Pending
  <2> QED
    BY <2>1, <2>2, NoGapFrame, ZenonT(40)
<1>14. ASSUME NEW v \in Channels, Pong(v)
      PROVE  NoGapOf(u)'
  <2>1. UNCHANGED <<now, log, evt, todo, StreamOf(u)>> /\ (clashed[u] => clashed'[u])
    BY <1>14 DEF Pong, StreamOf
  <2>2. Pending(u)' = Pending(u)
    BY <2>1 DEF Pending
  <2> QED
    BY <2>1, <2>2, NoGapFrame, ZenonT(40)
<1>15. ASSUME NEW v \in Channels, Hangup(v)
      PROVE  NoGapOf(u)'
  <2>1. UNCHANGED <<now, log, evt, todo, StreamOf(u)>> /\ (clashed[u] => clashed'[u])
    BY <1>15 DEF Hangup, StreamOf
  <2>2. Pending(u)' = Pending(u)
    BY <2>1 DEF Pending
  <2> QED
    BY <2>1, <2>2, NoGapFrame
<1>16. CASE UNCHANGED streamVars
  <2>1. UNCHANGED <<now, log, evt, todo, StreamOf(u), clashed>>
    BY <1>16 DEF streamVars, StreamOf
  <2>2. Pending(u)' = Pending(u)
    BY <2>1 DEF Pending
  <2> QED
    BY <2>1, <2>2, NoGapFrame
<1> QED
  BY <1>1, <1>2, <1>3, <1>4, <1>5, <1>6, <1>7, <1>8, <1>9, <1>10, <1>11,
     <1>12, <1>13, <1>14, <1>15, <1>16
  DEF StreamNext, Handler, Publish, Bus

-----------------------------------------------------------------------------
(* Only the overlap repeats.                                               *)

\* A step that shows and delivers nothing to v keeps its screen in order.
LEMMA OrderlyFrame ==
  ASSUME IInv, Viewers, NEW v \in Channels, Orderly(v),
         UNCHANGED <<out[v], replay[v], sent[v], edge[v], joined[v]>>,
         \A i \in 1..Len(log) : log'[i] = log[i],
         \A k \in DOMAIN sent[v] : Unwritten(v, k)' => Unwritten(v, k)
  PROVE  Orderly(v)'
<1> /\ edge[v] \in 0..Len(log) /\ joined[v] \in Nat /\ Len(log) \in Nat
  BY DEF IInv, Bookkeeping, Types, Viewers, ViewerInv
<1>1. Early(v)' = Early(v)
  BY DEF Early
<1>2. \A i \in joined[v] + 1 .. edge[v] : i \in 1..Len(log)
  OBVIOUS
<1>3. Overlap(v)' = Overlap(v)
  BY <1>2 DEF Overlap
<1> QED
  BY <1>1, <1>3 DEF Orderly, ToSet

\* Nothing shown, nothing to replay: nothing is out of order.
LEMMA OrderlyBlank ==
  ASSUME NEW v \in Channels, out'[v] = <<>>, replay'[v] = <<>>
  PROVE  Orderly(v)'
BY DEF Orderly, ToSet

\* Events have numbers.
LEMMA Numbered ==
  ASSUME NEW s \in Seq(Event), NEW i \in DOMAIN s
  PROVE  s[i] \in Event /\ s[i].n \in Int
<1>1. s[i] \in Event
  OBVIOUS
<1> QED
  BY <1>1, BoundsAssumption DEF Event

\* An event that is delivered late may already be on the screen, replayed.
LEMMA SendKeepsOrder ==
  ASSUME IInv, Viewers, LogInv, NEW p \in Publishers, NEW ch \in Channels,
         Bus(PublishSend(p, ch)), NEW v \in Channels, Orderly(v)
  PROVE  Orderly(v)'
<1>1. /\ UNCHANGED <<log, taken, joined, writing, out, replay, edge>> /\ ch \in todo[p]
  BY DEF Bus, PublishSend, busVars, viewVars
<1>2. /\ sent[v] \in Seq(Event) /\ evt[p] \in Event /\ edge[v] \in 0..Len(log)
      /\ joined[v] \in Nat /\ Len(log) \in Nat /\ evt[p].by = p /\ out[v] \in Seq(Event)
      /\ taken[v] \in 0..Len(sent[v])
  BY DEF IInv, Bookkeeping, Types, PublisherInv, Viewers, ViewerInv, StreamTypeOK
<1>3. CASE sent'[v] = sent[v]
  <2>1. \A k \in DOMAIN sent[v] : Unwritten(v, k)' => Unwritten(v, k)
    BY <1>1 DEF Unwritten
  <2> QED
    BY <1>1, <1>2, <1>3, <2>1, OrderlyFrame
<1>4. CASE v = ch /\ sent'[v] = Append(sent[v], evt[p])
  <2>1. /\ DOMAIN sent'[v] = 1..Len(sent[v]) + 1 /\ DOMAIN sent[v] = 1..Len(sent[v])
        /\ sent'[v][Len(sent[v]) + 1] = evt[p] /\ Len(sent[v]) \in Nat
        /\ \A k \in DOMAIN sent[v] : sent'[v][k] = sent[v][k]
        /\ \A k \in DOMAIN sent'[v] : k \in DOMAIN sent[v] \/ k = Len(sent[v]) + 1
    BY <1>2, <1>4
  <2>2. Early(v)' = Early(v) /\ Overlap(v)' = Overlap(v) /\ ToSet(sent[v]) \subseteq ToSet(sent'[v])
    BY <1>1, <2>1 DEF Early, Overlap, ToSet
  <2>3. evt[p] \in Owed(v)
    BY <1>1, <1>4 DEF IInv, PendingInv
  <2>4. ASSUME NEW i \in DOMAIN out[v], out[v][i].by = evt[p].by, out[v][i].n >= evt[p].n
        PROVE  evt[p] \in Overlap(v)
    <3>1. out[v][i] \in Early(v)
      <4> SUFFICES ASSUME NEW k \in DOMAIN sent[v], out[v][i] = sent[v][k] PROVE FALSE
        BY DEF Orderly, ToSet
      <4>1. sent[v][k].n < evt[p].n
        <5>1. sent[v][k].by = p /\ v \in todo[p]
          BY <1>1, <1>2, <1>4, <2>4
        <5>2. OrderInv
          BY DEF IInv
        <5> QED
          BY <5>1, <5>2 DEF OrderInv
      <4>2. sent[v][k].n \in Int /\ evt[p].n \in Int
        <5>1. sent[v][k].n \in Int
          BY <1>2, Numbered
        <5>2. evt[p].n \in Int
          BY <1>2, BoundsAssumption DEF Event
        <5> QED
          BY <5>1, <5>2
      <4> QED
        BY <2>4, <4>1, <4>2
    <3> QED
      BY <1>2, <2>3, <2>4, <3>1, OverlapIs
  <2>5. ASSUME NEW i \in DOMAIN out[v], NEW k \in DOMAIN sent'[v], Unwritten(v, k)',
               out[v][i].by = sent'[v][k].by, out[v][i].n >= sent'[v][k].n
        PROVE  sent'[v][k] \in Overlap(v)
    <3>1. CASE k \in DOMAIN sent[v]
      BY <1>1, <2>1, <2>5, <3>1 DEF Orderly, Unwritten
    <3>2. CASE k = Len(sent[v]) + 1
      BY <2>1, <2>4, <2>5, <3>2
    <3> QED
      BY <2>1, <3>1, <3>2
  <2> QED
    BY <1>1, <2>2, <2>5, ZenonT(40) DEF Orderly, ToSet
<1> QED
  BY <1>3, <1>4, SendAppends DEF Bus, IInv, Bookkeeping

\* The snapshot is a part of the log, in its order.
LEMMA SnapshotInOrder ==
  ASSUME IInv, IInv', Viewers, LogInv, NEW v \in Channels, TakeSnapshot(v)
  PROVE  Orderly(v)'
<1>1. /\ replay'[v] = history' /\ edge'[v] = Len(log) /\ out'[v] = <<>> /\ log' = log /\ now' = now
  BY DEF TakeSnapshot, Viewers, StreamTypeOK, ViewerInv
<1>2. log \in Seq(Event)
  BY DEF IInv, Bookkeeping, Types
<1>3. PICK b \in 0..Len(log) : history' = SubSeq(log, b + 1, Len(log))
  BY <1>1 DEF IInv, HistoryKeepsTheWindow
<1>4. /\ DOMAIN history' = 1..Len(log) - b /\ Len(log) \in Nat
      /\ \A i \in 1..Len(log) - b : history'[i] = log[b + i] /\ b + i \in 1..Len(log)
  BY <1>2, <1>3
<1>5. ToSet(replay'[v]) \subseteq Early(v)'
  BY <1>1, <1>4 DEF ToSet, Early
<1>6. ASSUME NEW i \in DOMAIN history', NEW j \in DOMAIN history', i < j,
             history'[i].by = history'[j].by
      PROVE  history'[i].n < history'[j].n
  <2>1. b + i < b + j /\ b + i \in DOMAIN log /\ b + j \in DOMAIN log
    BY <1>2, <1>4, <1>6
  <2> QED
    BY <1>4, <1>6, <2>1 DEF LogInv
<1> QED
  BY <1>1, <1>5, <1>6 DEF Orderly, ToSet

\* The replay goes on: it is older than all that waits in the channel, but for
\* the overlap.
LEMMA ReplayKeepsOrder ==
  ASSUME IInv, Viewers, LogInv, NEW v \in Channels, ReplayOne(v), Orderly(v)
  PROVE  Orderly(v)'
<1> DEFINE e == Head(replay[v])
<1>1. /\ replay[v] \in Seq(Event) /\ out[v] \in Seq(Event) /\ sent[v] \in Seq(Event)
      /\ replay[v] # <<>> /\ edge[v] \in 0..Len(log)
  BY DEF IInv, Bookkeeping, Types, Viewers, StreamTypeOK, ViewerInv, ReplayOne
<1>2. /\ out'[v] = Append(out[v], e) /\ replay'[v] = Tail(replay[v])
      /\ UNCHANGED <<log, sent, taken, joined, writing, edge>>
  BY DEF Viewers, StreamTypeOK, ReplayOne, vars, busVars, chanVars
<1>3. /\ e = replay[v][1] /\ 1 \in DOMAIN replay[v] /\ e \in Event
      /\ DOMAIN replay'[v] = 1..Len(replay[v]) - 1 /\ DOMAIN replay[v] = 1..Len(replay[v])
      /\ \A j \in DOMAIN replay'[v] : /\ replay'[v][j] = replay[v][j + 1]
                                      /\ j + 1 \in DOMAIN replay[v] /\ 1 < j + 1
  BY <1>1, <1>2
<1>4. /\ DOMAIN out'[v] = 1..Len(out[v]) + 1 /\ DOMAIN out[v] = 1..Len(out[v]) /\ Len(out[v]) \in Nat
      /\ out'[v][Len(out[v]) + 1] = e /\ \A i \in DOMAIN out[v] : out'[v][i] = out[v][i]
      /\ \A i \in DOMAIN out'[v] : i \in DOMAIN out[v] \/ i = Len(out[v]) + 1
  BY <1>1, <1>2, <1>3
<1> HIDE DEF e
<1>5. /\ Early(v)' = Early(v) /\ Overlap(v)' = Overlap(v) /\ e \in Early(v)
      /\ \A k : Unwritten(v, k)' <=> Unwritten(v, k)
  BY <1>2, <1>3 DEF Early, Overlap, Unwritten, Orderly, ToSet
<1>6. ToSet(out'[v]) \subseteq Early(v) \cup ToSet(sent[v]) /\ ToSet(replay'[v]) \subseteq Early(v)
  <2>1. ToSet(out[v]) \subseteq Early(v) \cup ToSet(sent[v]) /\ ToSet(replay[v]) \subseteq Early(v)
    BY DEF Orderly
  <2>2. ToSet(out'[v]) \subseteq ToSet(out[v]) \cup {e}
    BY <1>4 DEF ToSet
  <2>3. ToSet(replay'[v]) \subseteq ToSet(replay[v])
    BY <1>3 DEF ToSet
  <2> QED
    BY <1>5, <2>1, <2>2, <2>3
<1>7. ASSUME NEW i \in DOMAIN replay'[v], NEW j \in DOMAIN replay'[v], i < j,
             replay'[v][i].by = replay'[v][j].by
      PROVE  replay'[v][i].n < replay'[v][j].n
  <2>1. i + 1 < j + 1
    BY <1>1, <1>3, <1>7
  <2> QED
    BY <1>3, <1>7, <2>1 DEF Orderly
<1>8. ASSUME NEW i \in DOMAIN out'[v], NEW j \in DOMAIN replay'[v],
             out'[v][i].by = replay'[v][j].by
      PROVE  out'[v][i].n < replay'[v][j].n
  BY <1>3, <1>4, <1>8 DEF Orderly
<1>9. ASSUME NEW i \in DOMAIN out'[v], NEW k \in DOMAIN sent[v], Unwritten(v, k),
             out'[v][i].by = sent[v][k].by, out'[v][i].n >= sent[v][k].n
      PROVE  sent[v][k] \in Overlap(v)
  <2>1. CASE i \in DOMAIN out[v]
    BY <1>4, <1>9, <2>1 DEF Orderly
  <2>2. CASE out'[v][i] = e
    <3>1. sent[v][k] \in Owed(v)
      BY DEF IInv, StreamStartsAtSubscription, ToSet
    <3> QED
      BY <1>1, <1>5, <1>9, <2>2, <3>1, OverlapIs
  <2> QED
    BY <1>4, <2>1, <2>2
<1>10. ASSUME NEW i \in DOMAIN out'[v], NEW j \in DOMAIN out'[v], i < j,
              out'[v][i].by = out'[v][j].by, out'[v][i].n >= out'[v][j].n
       PROVE  out'[v][j] \in Overlap(v)
  <2>1. i \in DOMAIN out[v]
    BY <1>4, <1>10
  <2>2. CASE j \in DOMAIN out[v]
    BY <1>4, <1>10, <2>1, <2>2 DEF Orderly
  <2>3. CASE out'[v][j] = e
    <3>1. out[v][i].n < e.n
      BY <1>3, <1>4, <1>10, <2>1, <2>3, SMTT(30) DEF Orderly
    <3>2. out[v][i].n \in Int /\ e.n \in Int
      <4>1. out[v][i].n \in Int
        BY <1>1, <2>1, Numbered
      <4>2. e.n \in Int
        BY <1>1, <1>3, Numbered
      <4> QED
        BY <4>1, <4>2
    <3> QED
      BY <1>4, <1>10, <2>1, <2>3, <3>1, <3>2
  <2> QED
    BY <1>4, <2>2, <2>3
<1> QED
  BY <1>2, <1>5, <1>6, <1>7, <1>8, <1>9, <1>10 DEF Orderly

\* The live stream goes on: within it each publisher's order is the channel's.
LEMMA WrittenKeepsOrder ==
  ASSUME IInv, Viewers, NEW v \in Channels, Written(v), Orderly(v)
  PROVE  Orderly(v)'
<1> DEFINE e == sent[v][taken[v]]
<1>1. /\ out[v] \in Seq(Event) /\ sent[v] \in Seq(Event) /\ edge[v] \in 0..Len(log)
      /\ taken[v] \in 1..Len(sent[v]) /\ taken[v] \in DOMAIN sent[v] /\ writing[v]
      /\ replay[v] = <<>> /\ joined[v] \in Nat /\ Len(log) \in Nat
  BY DEF IInv, Bookkeeping, Types, Viewers, StreamTypeOK, ViewerInv, Written
<1>2. UNCHANGED <<log, sent, taken, joined, replay, edge>> /\ ~writing'[v]
  BY DEF Viewers, StreamTypeOK, Written, vars, busVars, chanVars
<1>3. CASE out'[v] = out[v]
  <2>1. \A k \in DOMAIN sent[v] : Unwritten(v, k)' => Unwritten(v, k)
    BY <1>2 DEF Unwritten
  <2> QED
    BY <1>1, <1>2, <1>3, <2>1, OrderlyFrame
<1>4. CASE out'[v] = Append(out[v], e)
  <2>1. e \in Event /\ e.n \in Int
    BY <1>1, Numbered
  <2>2. /\ DOMAIN out'[v] = 1..Len(out[v]) + 1 /\ DOMAIN out[v] = 1..Len(out[v]) /\ Len(out[v]) \in Nat
        /\ out'[v][Len(out[v]) + 1] = e /\ \A i \in DOMAIN out[v] : out'[v][i] = out[v][i]
        /\ \A i \in DOMAIN out'[v] : i \in DOMAIN out[v] \/ i = Len(out[v]) + 1
    BY <1>1, <1>4, <2>1
  <2>3. /\ Early(v)' = Early(v) /\ Overlap(v)' = Overlap(v) /\ e \in ToSet(sent[v])
        /\ Unwritten(v, taken[v])
        /\ \A k \in DOMAIN sent[v] : Unwritten(v, k)' => Unwritten(v, k) /\ taken[v] < k
    BY <1>1, <1>2 DEF Early, Overlap, Unwritten, ToSet
  <2>4. ToSet(out'[v]) \subseteq Early(v) \cup ToSet(sent[v])
    BY <2>2, <2>3 DEF Orderly, ToSet
  <2>5. ASSUME NEW i \in DOMAIN out'[v], NEW k \in DOMAIN sent[v], Unwritten(v, k)',
               out'[v][i].by = sent[v][k].by, out'[v][i].n >= sent[v][k].n
        PROVE  sent[v][k] \in Overlap(v)
    <3>1. CASE i \in DOMAIN out[v]
      BY <2>2, <2>3, <2>5, <3>1 DEF Orderly
    <3>2. CASE out'[v][i] = e
      <4>1. e.n < sent[v][k].n
        BY <1>1, <2>3, <2>5, <3>2 DEF IInv, PublisherOrderKept
      <4>2. sent[v][k].n \in Int
        BY <1>1, Numbered
      <4> QED
        BY <2>1, <2>5, <3>2, <4>1, <4>2
    <3> QED
      BY <2>2, <3>1, <3>2
  <2>6. ASSUME NEW i \in DOMAIN out'[v], NEW j \in DOMAIN out'[v], i < j,
               out'[v][i].by = out'[v][j].by, out'[v][i].n >= out'[v][j].n
        PROVE  out'[v][j] \in Overlap(v)
    <3>1. i \in DOMAIN out[v]
      BY <2>2, <2>6
    <3>2. CASE j \in DOMAIN out[v]
      BY <2>2, <2>6, <3>1, <3>2 DEF Orderly
    <3>3. CASE out'[v][j] = e
      BY <1>1, <2>2, <2>3, <2>6, <3>1, <3>3, ZenonT(40) DEF Orderly
    <3> QED
      BY <2>2, <3>2, <3>3
  <2> QED
    BY <1>1, <1>2, <2>3, <2>4, <2>5, <2>6 DEF Orderly, ToSet
<1> QED
  BY <1>3, <1>4 DEF Written, Viewers, StreamTypeOK

\* Every step keeps every viewer's screen in order.
LEMMA OrderlyStep ==
  ASSUME IInv, IInv', Viewers, LogInv, NEW u \in Channels, Orderly(u), [StreamNext]_streamVars
  PROVE  Orderly(u)'
<1> USE DEF vars, busVars, chanVars, pubVars, viewVars, IInv, Bookkeeping, Types, Viewers,
      ViewerInv, StreamTypeOK, Move
<1>1. CASE Bus(Tick)
  <2>1. /\ UNCHANGED <<out[u], replay[u], sent[u], edge[u], joined[u]>>
        /\ \A i \in 1..Len(log) : log'[i] = log[i]
    BY <1>1 DEF Tick, Bus
  <2>2. \A k \in DOMAIN sent[u] : Unwritten(u, k)' => Unwritten(u, k)
    BY <1>1 DEF Tick, Bus, Unwritten
  <2> QED
    BY <2>1, <2>2, OrderlyFrame
<1>2. ASSUME NEW p \in Publishers, Bus(PublishStart(p))
      PROVE  Orderly(u)'
  <2>1. /\ UNCHANGED <<out[u], replay[u], sent[u], edge[u], joined[u]>>
        /\ \A i \in 1..Len(log) : log'[i] = log[i]
    BY <1>2 DEF PublishStart, Bus
  <2>2. \A k \in DOMAIN sent[u] : Unwritten(u, k)' => Unwritten(u, k)
    BY <1>2 DEF PublishStart, Bus, Unwritten
  <2> QED
    BY <2>1, <2>2, OrderlyFrame
<1>3. ASSUME NEW p \in Publishers, Bus(PublishRecord(p))
      PROVE  Orderly(u)'
  <2>1. /\ UNCHANGED <<out[u], replay[u], sent[u], edge[u], joined[u]>>
        /\ \A i \in 1..Len(log) : log'[i] = log[i]
    BY <1>3 DEF PublishRecord, Bus
  <2>2. \A k \in DOMAIN sent[u] : Unwritten(u, k)' => Unwritten(u, k)
    BY <1>3 DEF PublishRecord, Bus, Unwritten
  <2> QED
    BY <2>1, <2>2, OrderlyFrame
<1>4. ASSUME NEW p \in Publishers, NEW ch \in Channels, Bus(PublishSend(p, ch))
      PROVE  Orderly(u)'
  BY <1>4, SendKeepsOrder
<1>5. ASSUME NEW v \in Channels, Connect(v)
      PROVE  Orderly(u)'
  <2>1. CASE u # v
    <3>1. UNCHANGED <<out[u], replay[u], sent[u], edge[u], joined[u], taken[u], writing[u], log>>
      BY <1>5, <2>1 DEF Connect, Subscribe
    <3>2. \A k \in DOMAIN sent[u] : Unwritten(u, k)' => Unwritten(u, k)
      BY <3>1 DEF Unwritten
    <3> QED
      BY <3>1, <3>2, OrderlyFrame
  <2>2. CASE u = v
    BY <1>5, <2>2, OrderlyBlank DEF Connect
  <2> QED
    BY <2>1, <2>2
<1>6. ASSUME NEW v \in Channels, GiveUp(v)
      PROVE  Orderly(u)'
  <2>1. /\ UNCHANGED <<out[u], replay[u], sent[u], edge[u], joined[u]>>
        /\ \A i \in 1..Len(log) : log'[i] = log[i]
    BY <1>6 DEF GiveUp, Unsubscribe
  <2>2. \A k \in DOMAIN sent[u] : Unwritten(u, k)' => Unwritten(u, k)
    BY <1>6 DEF GiveUp, Unsubscribe, Unwritten
  <2> QED
    BY <2>1, <2>2, OrderlyFrame
<1>7. ASSUME NEW v \in Channels, TakeSnapshot(v)
      PROVE  Orderly(u)'
  <2>1. CASE u # v
    <3>1. UNCHANGED <<out[u], replay[u], sent[u], edge[u], joined[u], taken[u], writing[u], log>>
      BY <1>7, <2>1 DEF TakeSnapshot
    <3>2. \A k \in DOMAIN sent[u] : Unwritten(u, k)' => Unwritten(u, k)
      BY <3>1 DEF Unwritten
    <3> QED
      BY <3>1, <3>2, OrderlyFrame
  <2>2. CASE u = v
    BY <1>7, <2>2, SnapshotInOrder
  <2> QED
    BY <2>1, <2>2
<1>8. ASSUME NEW v \in Channels, ReplayOne(v)
      PROVE  Orderly(u)'
  <2>1. CASE u # v
    <3>1. UNCHANGED <<out[u], replay[u], sent[u], edge[u], joined[u], taken[u], writing[u], log>>
      BY <1>8, <2>1 DEF ReplayOne
    <3>2. \A k \in DOMAIN sent[u] : Unwritten(u, k)' => Unwritten(u, k)
      BY <3>1 DEF Unwritten
    <3> QED
      BY <3>1, <3>2, OrderlyFrame
  <2>2. CASE u = v
    BY <1>8, <2>2, ReplayKeepsOrder
  <2> QED
    BY <2>1, <2>2
<1>9. ASSUME NEW v \in Channels, StartLive(v)
      PROVE  Orderly(u)'
  <2>1. /\ UNCHANGED <<out[u], replay[u], sent[u], edge[u], joined[u]>>
        /\ \A i \in 1..Len(log) : log'[i] = log[i]
    BY <1>9 DEF StartLive
  <2>2. \A k \in DOMAIN sent[u] : Unwritten(u, k)' => Unwritten(u, k)
    BY <1>9 DEF StartLive, Unwritten
  <2> QED
    BY <2>1, <2>2, OrderlyFrame
<1>10. ASSUME NEW v \in Channels, Take(v)
      PROVE  Orderly(u)'
  <2>1. /\ UNCHANGED <<out[u], replay[u], sent[u], edge[u], joined[u]>>
        /\ \A i \in 1..Len(log) : log'[i] = log[i]
    BY <1>10 DEF Take, Receive
  <2>2. \A k \in DOMAIN sent[u] : Unwritten(u, k)' => Unwritten(u, k)
    BY <1>10 DEF Take, Receive, Unwritten
  <2> QED
    BY <2>1, <2>2, OrderlyFrame
<1>11. ASSUME NEW v \in Channels, Written(v)
      PROVE  Orderly(u)'
  <2>1. CASE u # v
    <3>1. UNCHANGED <<out[u], replay[u], sent[u], edge[u], joined[u], taken[u], writing[u], log>>
      BY <1>11, <2>1, SMTT(30) DEF Written
    <3>2. \A k \in DOMAIN sent[u] : Unwritten(u, k)' => Unwritten(u, k)
      BY <3>1 DEF Unwritten
    <3> QED
      BY <3>1, <3>2, OrderlyFrame
  <2>2. CASE u = v
    BY <1>11, <2>2, WrittenKeepsOrder
  <2> QED
    BY <2>1, <2>2
<1>12. ASSUME NEW v \in Channels, Leave(v)
      PROVE  Orderly(u)'
  <2>1. /\ UNCHANGED <<out[u], replay[u], sent[u], edge[u], joined[u]>>
        /\ \A i \in 1..Len(log) : log'[i] = log[i]
    BY <1>12 DEF Leave, Unsubscribe
  <2>2. \A k \in DOMAIN sent[u] : Unwritten(u, k)' => Unwritten(u, k)
    BY <1>12 DEF Leave, Unsubscribe, Unwritten
  <2> QED
    BY <2>1, <2>2, OrderlyFrame
<1>13. ASSUME NEW v \in Channels, Ping(v)
      PROVE  Orderly(u)'
  <2>1. /\ UNCHANGED <<out[u], replay[u], sent[u], edge[u], joined[u]>>
        /\ \A i \in 1..Len(log) : log'[i] = log[i]
    BY <1>13 DEF Ping
  <2>2. \A k \in DOMAIN sent[u] : Unwritten(u, k)' => Unwritten(u, k)
    BY <1>13 DEF Ping, Unwritten
  <2> QED
    BY <2>1, <2>2, OrderlyFrame
<1>14. ASSUME NEW v \in Channels, Pong(v)
      PROVE  Orderly(u)'
  <2>1. /\ UNCHANGED <<out[u], replay[u], sent[u], edge[u], joined[u]>>
        /\ \A i \in 1..Len(log) : log'[i] = log[i]
    BY <1>14 DEF Pong
  <2>2. \A k \in DOMAIN sent[u] : Unwritten(u, k)' => Unwritten(u, k)
    BY <1>14 DEF Pong, Unwritten
  <2> QED
    BY <2>1, <2>2, OrderlyFrame
<1>15. ASSUME NEW v \in Channels, Hangup(v)
      PROVE  Orderly(u)'
  <2>1. /\ UNCHANGED <<out[u], replay[u], sent[u], edge[u], joined[u]>>
        /\ \A i \in 1..Len(log) : log'[i] = log[i]
    BY <1>15 DEF Hangup
  <2>2. \A k \in DOMAIN sent[u] : Unwritten(u, k)' => Unwritten(u, k)
    BY <1>15 DEF Hangup, Unwritten
  <2> QED
    BY <2>1, <2>2, OrderlyFrame
<1>16. CASE UNCHANGED streamVars
  <2>1. /\ UNCHANGED <<out[u], replay[u], sent[u], edge[u], joined[u]>>
        /\ \A i \in 1..Len(log) : log'[i] = log[i]
    BY <1>16 DEF streamVars
  <2>2. \A k \in DOMAIN sent[u] : Unwritten(u, k)' => Unwritten(u, k)
    BY <1>16 DEF streamVars, Unwritten
  <2> QED
    BY <2>1, <2>2, OrderlyFrame
<1> QED
  BY <1>1, <1>2, <1>3, <1>4, <1>5, <1>6, <1>7, <1>8, <1>9, <1>10, <1>11,
     <1>12, <1>13, <1>14, <1>15, <1>16
  DEF StreamNext, Handler, Publish, Bus

-----------------------------------------------------------------------------
(* The theorems.                                                           *)

\* The inductive invariant of the stream, on top of the bus's.
StreamInv ==
  Viewers /\ LogInv /\ \A v \in Channels : NoGapOf(v) /\ Orderly(v)

LEMMA StreamInitInv == StreamInit => StreamInv
<1> SUFFICES ASSUME StreamInit PROVE StreamInv
  OBVIOUS
<1>1. <<>> \in Seq(Event)
  OBVIOUS
<1>2. StreamTypeOK
  BY <1>1 DEF StreamInit, StreamTypeOK
<1>3. ViewerInv
  BY DEF StreamInit, Init, ViewerInv
<1>4. LogInv
  BY DEF StreamInit, Init, LogInv
<1>5. \A v \in Channels : NoGapOf(v) /\ Orderly(v)
  BY DEF StreamInit, NoGapOf, Orderly, ToSet
<1> QED
  BY <1>2, <1>3, <1>4, <1>5 DEF StreamInv, Viewers

LEMMA StreamInductive == IInv /\ IInv' /\ StreamInv /\ [StreamNext]_streamVars => StreamInv'
<1> SUFFICES ASSUME IInv, IInv', StreamInv, [StreamNext]_streamVars PROVE StreamInv'
  OBVIOUS
<1> USE DEF StreamInv
<1>1. Viewers'
  BY StreamTypeStep, ViewerStep DEF Viewers
<1>2. LogInv'
  BY StepUsesBus, LogStep DEF IInv, Bookkeeping
<1>3. ASSUME NEW v \in Channels
      PROVE  NoGapOf(v)' /\ Orderly(v)'
  BY NoGapStep, OrderlyStep
<1> QED
  BY <1>1, <1>2, <1>3

LEMMA StreamInvariance == StreamSpec => []StreamInv
BY StreamInitInv, StreamInductive, BusInvariance, PTL DEF StreamSpec

\* The seam of replay and live stream has no gap, for any number of viewers
\* and publishers, any buffer and any window.
THEOREM StreamHasNoGap == StreamSpec => []NoGap
<1>1. StreamInv => NoGap
  BY DEF StreamInv, NoGapOf, NoGap
<1> QED
  BY <1>1, StreamInvariance, PTL

\* An event is shown twice, or after a later one of its publisher, only if it
\* was recorded between the viewer's subscription and its snapshot.
THEOREM OverlapOnlyRepeats == StreamSpec => []OnlyTheOverlapRepeats
<1>1. StreamInv => OnlyTheOverlapRepeats
  BY DEF StreamInv, Orderly, OnlyTheOverlapRepeats
<1> QED
  BY <1>1, StreamInvariance, PTL

=============================================================================
