------------------------------ MODULE EventBus ------------------------------
(***************************************************************************)
(* events.Bus (internal/events/bus.go): the history and the live delivery  *)
(* of the events of one chat.  Every map of the bus is keyed by the chat   *)
(* and chats share only b.mu, so one chat is the whole of it.              *)
(*                                                                         *)
(* Publishers are the goroutines that publish: a session's readLoop and    *)
(* waitLoop, gcLoop, the creator of a session, an agent's reader.  Publish *)
(* records an event under b.mu and sends it to the subscribers' channels   *)
(* after releasing it; each lock region and each send is one action.       *)
(***************************************************************************)
EXTENDS Integers, Sequences, FiniteSets

CONSTANTS
  Publishers,  \* goroutines that publish events of the chat
  Channels,    \* identities of the channels Subscribe can ever make (a bound)
  Capacity,    \* defaultSize: the buffer of a channel
  TTL,         \* historyTTL
  MaxEvents,   \* bound: events each publisher publishes
  MaxTime      \* bound: the last instant of the clock

ASSUME CapacityAssumption == Capacity \in Nat \ {0}
ASSUME TTLAssumption == TTL \in Nat \ {0}
ASSUME BoundsAssumption == MaxEvents \in Nat /\ MaxTime \in Nat

VARIABLES
  now,      \* time.Now()
  history,  \* b.history[chat]
  subs,     \* b.subs[chat]
  state,    \* channel -> "new", "open" or "closed"
  sent,     \* channel -> the events ever put in it
  taken,    \* channel -> how many of them its reader has received
  pc,       \* publisher -> "idle", "locking" or "sending"
  evt,      \* publisher -> the event being (or last) published
  todo,     \* publisher -> the copied subs it has not sent to yet
  crashed,  \* the process has panicked
  log,      \* history variable: every event recorded, in b.mu order
  joined,   \* history variable: channel -> Len(log) when it subscribed
  lagged    \* history variable: channel -> a send found its buffer full

busVars == <<history, subs, log>>
chanVars == <<state, sent, taken, joined, lagged>>
pubVars == <<pc, evt, todo>>
vars == <<now, busVars, chanVars, pubVars, crashed>>

\* An event: its publisher, its number among that publisher's, its Timestamp.
Event == [by : Publishers, n : 0..MaxEvents, at : 0..MaxTime]

Types ==
  /\ now \in 0..MaxTime
  /\ history \in Seq(Event) /\ log \in Seq(Event)
  /\ subs \in SUBSET Channels
  /\ state \in [Channels -> {"new", "open", "closed"}]
  /\ sent \in [Channels -> Seq(Event)]
  /\ taken \in [Channels -> Nat]
  /\ joined \in [Channels -> Nat]
  /\ lagged \in [Channels -> BOOLEAN]
  /\ pc \in [Publishers -> {"idle", "locking", "sending"}]
  /\ evt \in [Publishers -> Event]
  /\ todo \in [Publishers -> SUBSET Channels]
  /\ crashed \in BOOLEAN

\* With the types, what the maps, channels and frames have to do with each
\* other: the open channels are those on the list, a buffer holds Capacity
\* events, and only a sender has channels left.
TypeOK ==
  /\ Types
  /\ \A ch \in Channels :
       /\ ch \in subs <=> state[ch] = "open"
       /\ taken[ch] <= Len(sent[ch]) /\ Len(sent[ch]) <= taken[ch] + Capacity
  /\ \A p \in Publishers : pc[p] = "sending" <=> todo[p] # {}

Init ==
  /\ now = 0
  /\ history = <<>> /\ log = <<>>
  /\ subs = {}
  /\ state = [ch \in Channels |-> "new"]
  /\ sent = [ch \in Channels |-> <<>>]
  /\ taken = [ch \in Channels |-> 0]
  /\ joined = [ch \in Channels |-> 0]
  /\ lagged = [ch \in Channels |-> FALSE]
  /\ pc = [p \in Publishers |-> "idle"]
  /\ evt = [p \in Publishers |-> [by |-> p, n |-> 0, at |-> 0]]
  /\ todo = [p \in Publishers |-> {}]
  /\ crashed = FALSE

-----------------------------------------------------------------------------

\* Older than the window: Timestamp.Before(now - historyTTL).
Expired(e, t) == e.at < t - TTL

\* Mutant of Pruned: the first event that is not expired goes as well.
PrunedOneMore(h, t, k) ==
  /\ k \in 0..Len(h)
  /\ \A i \in 1..k - 1 : Expired(h[i], t)
  /\ k < Len(h) => ~Expired(h[k + 1], t)

\* pruneHistoryLocked(h, t) drops k events: the leading expired ones, up to
\* the first that is not.
Pruned(h, t, k) ==
  /\ k \in 0..Len(h)
  /\ \A i \in 1..k : Expired(h[i], t)
  /\ k < Len(h) => ~Expired(h[k + 1], t)

Tick ==
  /\ now < MaxTime
  /\ now' = now + 1
  /\ UNCHANGED <<busVars, chanVars, pubVars, crashed>>

\* The caller stamps the event and calls Publish, which has no lock yet.
PublishStart(p) ==
  /\ ~crashed /\ pc[p] = "idle" /\ evt[p].n < MaxEvents
  /\ evt' = [evt EXCEPT ![p] = [by |-> p, n |-> evt[p].n + 1, at |-> now]]
  /\ pc' = [pc EXCEPT ![p] = "locking"]
  /\ UNCHANGED <<now, busVars, chanVars, todo, crashed>>

\* Publish's lock region: the event is recorded, the history pruned as of
\* the event's own time, and the subscribers copied.
PublishRecord(p) ==
  /\ ~crashed /\ pc[p] = "locking"
  /\ LET h == Append(history, evt[p])
     IN \E k \in 0..Len(h) :
          Pruned(h, evt[p].at, k) /\ history' = SubSeq(h, k + 1, Len(h))
  /\ log' = Append(log, evt[p])
  /\ todo' = [todo EXCEPT ![p] = subs]
  /\ pc' = [pc EXCEPT ![p] = IF subs = {} THEN "idle" ELSE "sending"]
  /\ UNCHANGED <<now, subs, chanVars, evt, crashed>>

\* Mutants of PublishSend: a full buffer ends the loop, the subscribers of
\* the moment are sent to, the channel stays on the list, the send blocks,
\* the last slot is never used.
SendStopsAtFull(p, ch) ==
  /\ ~crashed /\ pc[p] = "sending" /\ ch \in todo[p] /\ state[ch] = "open"
  /\ LET full == Len(sent[ch]) - taken[ch] = Capacity
     IN /\ sent' = IF full THEN sent ELSE [sent EXCEPT ![ch] = Append(@, evt[p])]
        /\ lagged' = [lagged EXCEPT ![ch] = @ \/ full]
        /\ todo' = [todo EXCEPT ![p] = IF full THEN {} ELSE @ \ {ch}]
        /\ pc' = [pc EXCEPT ![p] = IF full \/ todo[p] = {ch} THEN "idle" ELSE "sending"]
  /\ UNCHANGED <<now, busVars, state, taken, joined, evt, crashed>>

SendToLatecomers(p, ch) ==
  /\ ~crashed /\ pc[p] = "sending" /\ ch \in subs
  /\ Len(sent[ch]) - taken[ch] < Capacity
  /\ sent' = [sent EXCEPT ![ch] = Append(@, evt[p])]
  /\ todo' = [todo EXCEPT ![p] = @ \ {ch}]
  /\ pc' = [pc EXCEPT ![p] = IF todo[p] \subseteq {ch} THEN "idle" ELSE "sending"]
  /\ UNCHANGED <<now, busVars, state, taken, joined, lagged, evt, crashed>>

SendAgain(p, ch) ==
  /\ ~crashed /\ pc[p] = "sending" /\ ch \in todo[p]
  /\ state[ch] = "open" /\ Len(sent[ch]) - taken[ch] < Capacity
  /\ sent' = [sent EXCEPT ![ch] = Append(@, evt[p])]
  /\ UNCHANGED <<now, busVars, state, taken, joined, lagged, pubVars, crashed>>

SendBlocks(p, ch) ==
  /\ ~crashed /\ pc[p] = "sending" /\ ch \in todo[p]
  /\ todo' = [todo EXCEPT ![p] = @ \ {ch}]
  /\ pc' = [pc EXCEPT ![p] = IF todo[p] = {ch} THEN "idle" ELSE "sending"]
  /\ \/ state[ch] = "closed" /\ crashed' = TRUE /\ UNCHANGED sent
     \/ /\ state[ch] = "open" /\ Len(sent[ch]) - taken[ch] < Capacity
        /\ sent' = [sent EXCEPT ![ch] = Append(@, evt[p])]
        /\ UNCHANGED crashed
  /\ UNCHANGED <<now, busVars, state, taken, joined, lagged, evt>>

SendOneSlotShort(p, ch) ==
  /\ ~crashed /\ pc[p] = "sending" /\ ch \in todo[p]
  /\ todo' = [todo EXCEPT ![p] = @ \ {ch}]
  /\ pc' = [pc EXCEPT ![p] = IF todo[p] = {ch} THEN "idle" ELSE "sending"]
  /\ sent' = IF state[ch] = "open" /\ Len(sent[ch]) - taken[ch] < Capacity - 1
               THEN [sent EXCEPT ![ch] = Append(@, evt[p])] ELSE sent
  /\ UNCHANGED <<now, busVars, state, taken, joined, lagged, evt, crashed>>

\* One turn of Publish's loop, without the lock: a channel with room takes
\* the event, a full one does not get it, and a channel closed since the
\* copy makes the send panic, which ends the process.
PublishSend(p, ch) ==
  /\ ~crashed /\ pc[p] = "sending" /\ ch \in todo[p]
  /\ todo' = [todo EXCEPT ![p] = @ \ {ch}]
  /\ pc' = [pc EXCEPT ![p] = IF todo[p] = {ch} THEN "idle" ELSE "sending"]
  /\ \/ /\ state[ch] = "closed"
        /\ crashed' = TRUE
        /\ UNCHANGED <<sent, lagged>>
     \/ /\ state[ch] = "open" /\ Len(sent[ch]) - taken[ch] < Capacity
        /\ sent' = [sent EXCEPT ![ch] = Append(@, evt[p])]
        /\ UNCHANGED <<lagged, crashed>>
     \/ /\ state[ch] = "open" /\ Len(sent[ch]) - taken[ch] = Capacity
        /\ lagged' = [lagged EXCEPT ![ch] = TRUE]
        /\ UNCHANGED <<sent, crashed>>
  /\ UNCHANGED <<now, busVars, state, taken, joined, evt>>

Subscribe(ch) ==
  /\ ~crashed /\ state[ch] = "new"
  /\ state' = [state EXCEPT ![ch] = "open"]
  /\ subs' = subs \cup {ch}
  /\ joined' = [joined EXCEPT ![ch] = Len(log)]
  /\ UNCHANGED <<now, history, log, sent, taken, lagged, pubVars, crashed>>

\* Mutant of Unsubscribe: the channel leaves the list and is not closed.
UnsubscribeLeavesOpen(ch) ==
  /\ ~crashed /\ ch \in subs
  /\ subs' = subs \ {ch}
  /\ UNCHANGED <<now, history, log, chanVars, pubVars, crashed>>

\* unsubscribe: a no-op the second time.
Unsubscribe(ch) ==
  /\ ~crashed /\ ch \in subs
  /\ subs' = subs \ {ch}
  /\ state' = [state EXCEPT ![ch] = "closed"]
  /\ UNCHANGED <<now, history, log, sent, taken, joined, lagged, pubVars, crashed>>

\* The reader of a channel receives; what a closed one still holds, too.
Receive(ch) ==
  /\ ~crashed /\ taken[ch] < Len(sent[ch])
  /\ taken' = [taken EXCEPT ![ch] = @ + 1]
  /\ UNCHANGED <<now, busVars, state, sent, joined, lagged, pubVars, crashed>>

\* Snapshot prunes the history as of now and returns a copy of it.
Snapshot ==
  /\ ~crashed
  /\ \E k \in 1..Len(history) :
       Pruned(history, now, k) /\ history' = SubSeq(history, k + 1, Len(history))
  /\ UNCHANGED <<now, subs, log, chanVars, pubVars, crashed>>

Publish(p) == PublishRecord(p) \/ \E ch \in Channels : PublishSend(p, ch)

Next ==
  \/ Tick
  \/ \E p \in Publishers : PublishStart(p) \/ Publish(p)
  \/ \E ch \in Channels : Subscribe(ch) \/ Unsubscribe(ch) \/ Receive(ch)
  \/ Snapshot

Spec == Init /\ [][Next]_vars

\* A goroutine inside Publish keeps running.  Nothing is assumed of readers:
\* a browser may stop receiving for ever.
FairSpec == Spec /\ \A p \in Publishers : WF_vars(Publish(p))

-----------------------------------------------------------------------------
(* Properties.                                                             *)

ToSet(s) == {s[i] : i \in DOMAIN s}

\* The replay window: pruning, whichever publisher's or Snapshot's, loses no
\* event of the last TTL, and keeps the rest in the order of recording: the
\* history is what is left of the log after a prefix of expired events.
HistoryKeepsTheWindow ==
  \E b \in 0..Len(log) :
    /\ history = SubSeq(log, b + 1, Len(log))
    /\ \A i \in 1..b : Expired(log[i], now)

\* What a subscriber is owed: the events recorded since it subscribed.
Owed(ch) == {log[i] : i \in joined[ch] + 1 .. Len(log)}

\* Recorded for ch, and still to be sent to it by its publisher.
Pending(ch) == {evt[p] : p \in {q \in Publishers : ch \in todo[q]}}

\* A subscriber whose buffer was never full misses nothing recorded since it
\* subscribed, although events reach it after the lock is released.
KeepingUpMissesNothing ==
  \A ch \in subs : ~lagged[ch] => Owed(ch) \subseteq ToSet(sent[ch]) \cup Pending(ch)

\* A subscriber gets nothing recorded before it subscribed: a snapshot it
\* takes later overlaps its stream and leaves no gap.
StreamStartsAtSubscription ==
  \A ch \in Channels : ToSet(sent[ch]) \subseteq Owed(ch)

\* One publisher's events arrive in its order, each at most once, whoever
\* else publishes and whatever is dropped in between.
PublisherOrderKept ==
  \A ch \in Channels : \A i, j \in DOMAIN sent[ch] :
    i < j /\ sent[ch][i].by = sent[ch][j].by => sent[ch][i].n < sent[ch][j].n

\* Publish returns whatever the subscribers do: a full buffer, or a reader
\* that is gone, does not hold up the shell whose output is published.
PublishNeverBlocks ==
  \A p \in Publishers : pc[p] # "idle" ~> pc[p] = "idle" \/ crashed

\* Subscribers come and go without ending the process.
NoPanic == ~crashed
=============================================================================
