----------------------------- MODULE WebTermStream -----------------------------
(***************************************************************************)
(* What a viewer of a terminal sees: Server.HandleWS                       *)
(* (internal/webterm/server.go) on top of the event bus.  The handler      *)
(* subscribes, opens the chat on its agent, replays the history and then   *)
(* forwards its channel; a second goroutine reads the web socket and       *)
(* answers pings on it.  A viewer is named by the channel it subscribes.   *)
(* What its keystrokes do is AgentGateway's and TerminalManager's matter.  *)
(***************************************************************************)
EXTENDS EventBus

VARIABLES
  stage,    \* viewer -> "off", "opening", "replaying", "live" or "gone"
  replay,   \* viewer -> the part of history still to be written
  writing,  \* viewer -> its handler is inside the WriteMessage of an event
  reader,   \* viewer -> its second goroutine: "off", "reading", "ponging", "ended"
  out,      \* viewer -> the events written to its web socket
  dead,     \* a panic of a reader goroutine has ended the process
  edge,     \* history variable: viewer -> Len(log) when it took its snapshot
  clashed   \* history variable: viewer -> its two goroutines wrote at once

viewVars == <<stage, replay, writing, reader, out, edge, clashed>>
streamVars == <<vars, viewVars, dead>>

StreamTypeOK ==
  /\ stage \in [Channels -> {"off", "opening", "replaying", "live", "gone"}]
  /\ replay \in [Channels -> Seq(Event)] /\ out \in [Channels -> Seq(Event)]
  /\ writing \in [Channels -> BOOLEAN] /\ clashed \in [Channels -> BOOLEAN]
  /\ reader \in [Channels -> {"off", "reading", "ponging", "ended"}]
  /\ edge \in [Channels -> Nat]
  /\ dead \in BOOLEAN

StreamInit ==
  /\ Init
  /\ stage = [v \in Channels |-> "off"]
  /\ replay = [v \in Channels |-> <<>>] /\ out = [v \in Channels |-> <<>>]
  /\ writing = [v \in Channels |-> FALSE] /\ clashed = [v \in Channels |-> FALSE]
  /\ reader = [v \in Channels |-> "off"]
  /\ edge = [v \in Channels |-> 0]
  /\ dead = FALSE

-----------------------------------------------------------------------------
(* The handler.                                                            *)

Move(v, to) == stage' = [stage EXCEPT ![v] = to]

Connect(v) ==
  /\ stage[v] = "off" /\ Subscribe(v) /\ Move(v, "opening")
  /\ UNCHANGED <<replay, writing, reader, out, edge, clashed, dead>>

\* A return before the reader is started: the agent cannot be opened, or a
\* write of the replay fails.  The deferred unsubscribe runs.
GiveUp(v) ==
  /\ \/ stage[v] = "opening"
     \/ stage[v] = "replaying" /\ replay[v] # <<>>
  /\ Unsubscribe(v) /\ Move(v, "gone")
  /\ UNCHANGED <<replay, writing, reader, out, edge, clashed, dead>>

\* bus.Snapshot, which prunes: the history is copied for the replay.
TakeSnapshot(v) ==
  /\ ~crashed /\ stage[v] = "opening"
  /\ \E k \in 0..Len(history) :
       Pruned(history, now, k) /\ history' = SubSeq(history, k + 1, Len(history))
  /\ replay' = [replay EXCEPT ![v] = history']
  /\ edge' = [edge EXCEPT ![v] = Len(log)]
  /\ Move(v, "replaying")
  /\ UNCHANGED <<now, subs, log, chanVars, pubVars, crashed,
                 writing, reader, out, clashed, dead>>

ReplayOne(v) ==
  /\ ~crashed /\ stage[v] = "replaying" /\ replay[v] # <<>>
  /\ out' = [out EXCEPT ![v] = Append(@, Head(replay[v]))]
  /\ replay' = [replay EXCEPT ![v] = Tail(@)]
  /\ UNCHANGED <<vars, stage, writing, reader, edge, clashed, dead>>

\* Mutant of StartLive: what arrived during the replay is thought to be in it.
StartLiveDrained(v) ==
  /\ ~crashed /\ stage[v] = "replaying" /\ replay[v] = <<>>
  /\ Move(v, "live")
  /\ reader' = [reader EXCEPT ![v] = "reading"]
  /\ taken' = [taken EXCEPT ![v] = Len(sent[v])]
  /\ UNCHANGED <<now, busVars, state, sent, joined, lagged, pubVars, crashed,
                 replay, writing, out, edge, clashed, dead>>

StartLive(v) ==
  /\ ~crashed /\ stage[v] = "replaying" /\ replay[v] = <<>>
  /\ Move(v, "live")
  /\ reader' = [reader EXCEPT ![v] = "reading"]
  /\ UNCHANGED <<vars, replay, writing, out, edge, clashed, dead>>

\* The handler takes an event from its channel and starts to write it, ...
Take(v) ==
  /\ stage[v] = "live" /\ ~writing[v] /\ Receive(v)
  /\ writing' = [writing EXCEPT ![v] = TRUE]
  /\ clashed' = [clashed EXCEPT ![v] = @ \/ reader[v] = "ponging"]
  /\ UNCHANGED <<stage, replay, reader, out, edge, dead>>

\* ... and has written it, unless the reader wrote meanwhile: the two share
\* a buffer, and the frame may be lost.
Written(v) ==
  /\ ~crashed /\ writing[v]
  /\ writing' = [writing EXCEPT ![v] = FALSE]
  /\ \/ out' = [out EXCEPT ![v] = Append(@, sent[v][taken[v]])]
     \/ clashed[v] /\ UNCHANGED out
  /\ UNCHANGED <<vars, stage, replay, reader, edge, clashed, dead>>

\* Mutant of Leave: the end of the reader is only noticed at the next write.
LeaveAtWrite(v) ==
  /\ stage[v] = "live" /\ writing[v] /\ reader[v] = "ended"
  /\ Unsubscribe(v) /\ Move(v, "gone")
  /\ writing' = [writing EXCEPT ![v] = FALSE]
  /\ UNCHANGED <<replay, reader, out, edge, clashed, dead>>

\* The handler ends: its reader has cancelled the context, or a write failed
\* (at the latest at its deadline), or the library's check for two writers
\* panicked in it, which net/http recovers.
Leave(v) ==
  /\ stage[v] = "live" /\ (writing[v] \/ reader[v] = "ended")
  /\ Unsubscribe(v) /\ Move(v, "gone")
  /\ writing' = [writing EXCEPT ![v] = FALSE]
  /\ UNCHANGED <<replay, reader, out, edge, clashed, dead>>

Handler(v) == TakeSnapshot(v) \/ ReplayOne(v) \/ StartLive(v)
                \/ Take(v) \/ Written(v) \/ Leave(v)

-----------------------------------------------------------------------------
(* The reader, as far as it writes.                                        *)

\* A ping: the reader starts to write the pong.
Ping(v) ==
  /\ ~crashed /\ reader[v] = "reading" /\ stage[v] = "live"
  /\ reader' = [reader EXCEPT ![v] = "ponging"]
  /\ clashed' = [clashed EXCEPT ![v] = @ \/ writing[v]]
  /\ UNCHANGED <<vars, stage, replay, writing, out, edge, dead>>

\* The pong is written, or lost, or the check for two writers panics in this
\* goroutine, where nothing recovers it.
Pong(v) ==
  /\ ~crashed /\ reader[v] = "ponging"
  /\ reader' = [reader EXCEPT ![v] = "reading"]
  /\ dead' \in IF clashed[v] THEN BOOLEAN ELSE {FALSE}
  /\ UNCHANGED <<vars, stage, replay, writing, out, edge, clashed>>

\* ReadMessage fails: the browser has gone, or the handler closed the socket.
Hangup(v) ==
  /\ ~crashed /\ reader[v] = "reading"
  /\ reader' = [reader EXCEPT ![v] = "ended"]
  /\ UNCHANGED <<vars, stage, replay, writing, out, edge, clashed, dead>>

-----------------------------------------------------------------------------

\* The bus between its publishers, under the viewers.
Bus(A) == A /\ UNCHANGED <<viewVars, dead>>

StreamNext ==
  /\ ~dead
  /\ \/ Bus(Tick) \/ \E p \in Publishers : Bus(PublishStart(p)) \/ Bus(Publish(p))
     \/ \E v \in Channels : \/ Connect(v) \/ GiveUp(v) \/ Handler(v)
                            \/ Ping(v) \/ Pong(v) \/ Hangup(v)

StreamSpec == StreamInit /\ [][StreamNext]_streamVars

\* Goroutines that can run do: every write returns, at its deadline if not
\* before.  Nobody needs to connect, to ping or to hang up.
StreamFairSpec ==
  /\ StreamSpec
  /\ \A p \in Publishers : WF_streamVars(~dead /\ Bus(Publish(p)))
  /\ \A v \in Channels : WF_streamVars(~dead /\ Handler(v))

-----------------------------------------------------------------------------
(* Properties.                                                             *)

Seen(v) == ToSet(out[v]) \cup ToSet(replay[v])
             \cup {sent[v][i] : i \in (IF writing[v] THEN taken[v] ELSE taken[v] + 1) .. Len(sent[v])}

\* No gap at the seam: of a viewer that got past its snapshot, whose channel
\* was never full and whose goroutines never wrote at once, everything that
\* is in the replay window or was recorded since it subscribed has been
\* written or is on its way.
NoGap ==
  \A v \in Channels :
    stage[v] \in {"replaying", "live"} /\ ~lagged[v] /\ ~clashed[v] =>
      \A i \in 1..Len(log) :
        ~Expired(log[i], now) \/ i > joined[v] => log[i] \in Seen(v) \cup Pending(v)

\* What was recorded while the chat was being opened: the replay has it and
\* the channel too.
Overlap(v) == {log[i] : i \in joined[v] + 1 .. edge[v]}

\* Only these events are written twice, or after a later one of their
\* publisher, however long the replay takes.
OnlyTheOverlapRepeats ==
  \A v \in Channels : \A i, j \in DOMAIN out[v] :
    i < j /\ out[v][i].by = out[v][j].by /\ out[v][i].n >= out[v][j].n
      => out[v][j] \in Overlap(v)

\* Output reaches the screen: what is recorded while a viewer is subscribed
\* is written to it, unless it leaves, lags, or its goroutines write at once.
OutputIsShown ==
  \A v \in Channels, p \in Publishers, n \in 1..MaxEvents :
    v \in subs /\ (\E e \in Owed(v) : e.by = p /\ e.n = n) ~>
      \/ \E e \in ToSet(out[v]) : e.by = p /\ e.n = n
      \/ v \notin subs \/ lagged[v] \/ clashed[v] \/ crashed \/ dead

\* A viewer whose browser has gone is unsubscribed, even when its handler is
\* in the middle of a write.
GoneViewerIsReleased ==
  \A v \in Channels : reader[v] = "ended" ~> v \notin subs \/ crashed \/ dead
=============================================================================
