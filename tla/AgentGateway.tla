---------------------------- MODULE AgentGateway ----------------------------
(***************************************************************************)
(* The reverse gateway: the bridge's agent.Hub (internal/agent/hub.go), an *)
(* agent (cmd/agent/main.go) and the viewers whose web sockets are relayed *)
(* through them (Server.HandleWS, internal/webterm/server.go).             *)
(*                                                                         *)
(* The hub's references and the agent's sessions are kept per chat and     *)
(* share nothing else, so the module is about one chat of one agent.  The  *)
(* agent's connections follow one another: runOnce dials, serves until the *)
(* connection fails, stops its shells and dials again.                     *)
(***************************************************************************)
EXTENDS Integers, Sequences, FiniteSets

CONSTANTS
  Viewers,   \* browsers' web sockets, each opened at most once (a bound)
  Conns,     \* identities of the agent's connections (a bound)
  Shells,    \* identities of the shells the agent can start (a bound)
  None,      \* nil
  MaxWire    \* bound: messages under way to the agent

ASSUME NoneAssumption == None \notin Viewers \cup Conns \cup Shells \cup {"open", "close"}
ASSUME ViewersAssumption == IsFiniteSet(Viewers)
ASSUME MaxWireAssumption == MaxWire \in Nat \ {0}

VARIABLES
  agents,    \* h.agents[agentID]: the registered connection or None
  handler,   \* connection -> where its Hub.HandleWS is
  refs,      \* connection -> ac.refs[chat], 0 when the key is absent
  link,      \* connection -> "up", or "down": closed by an end, or broken
  wire,      \* connection -> messages the agent has not read yet
  cur,       \* the connection the agent's runOnce serves, or None
  session,   \* sessions[chat] of that runOnce: a shell or None
  writing,   \* the shell the agent's reader is writing to, or None
  shell,     \* shell -> "unborn", "running" or "dead"
  home,      \* shell -> the connection whose runOnce started it
  stopped,   \* shell -> Stop has run
  exited,    \* shell -> its exit callback has returned
  viewer,    \* viewer -> where its HandleWS is
  target,    \* viewer -> the agentConn h.get gave Open or Close
  typing,    \* viewer -> the agentConn h.get gave its reader, or None
  told       \* history variable: connection -> the last of "open", "close"
             \* put on its wire, or None

hubVars == <<agents, handler, refs, link, wire, told>>
agentVars == <<cur, session, writing>>
shellVars == <<shell, home, stopped, exited>>
viewerVars == <<viewer, target, typing>>
vars == <<hubVars, agentVars, shellVars, viewerVars>>

Messages == {"open", "close", "input"}

TypeOK ==
  /\ agents \in Conns \cup {None}
  /\ handler \in [Conns -> {"none", "accepted", "reading", "leaving", "gone"}]
  /\ refs \in [Conns -> 0..Cardinality(Viewers) + 1]
  /\ link \in [Conns -> {"up", "down"}]
  /\ wire \in [Conns -> Seq(Messages)]
  /\ cur \in Conns \cup {None}
  /\ session \in Shells \cup {None}
  /\ writing \in Shells \cup {None}
  /\ shell \in [Shells -> {"unborn", "running", "dead"}]
  /\ home \in [Shells -> Conns \cup {None}]
  /\ stopped \in [Shells -> BOOLEAN]
  /\ exited \in [Shells -> BOOLEAN]
  /\ viewer \in [Viewers -> {"off", "open", "attached", "leaving", "close", "left", "gone"}]
  /\ target \in [Viewers -> Conns \cup {None}]
  /\ typing \in [Viewers -> Conns \cup {None}]
  /\ told \in [Conns -> {"open", "close", None}]

Init ==
  /\ agents = None
  /\ handler = [k \in Conns |-> "none"]
  /\ refs = [k \in Conns |-> 0]
  /\ link = [k \in Conns |-> "down"]
  /\ wire = [k \in Conns |-> <<>>]
  /\ cur = None /\ session = None /\ writing = None
  /\ shell = [s \in Shells |-> "unborn"]
  /\ home = [s \in Shells |-> None]
  /\ stopped = [s \in Shells |-> FALSE]
  /\ exited = [s \in Shells |-> FALSE]
  /\ viewer = [v \in Viewers |-> "off"]
  /\ target = [v \in Viewers |-> None]
  /\ typing = [v \in Viewers |-> None]
  /\ told = [k \in Conns |-> None]

-----------------------------------------------------------------------------
(* Helpers of the hub.                                                     *)

Up(k) == link[k] = "up"

\* ac.send of the messages ms on connection k.  On a connection that is down
\* they are lost, or refused: Sends and SendFails are both possible then.
Sends(k, ms) ==
  IF Up(k)
    THEN /\ Len(wire[k]) + Len(ms) <= MaxWire
         /\ wire' = [wire EXCEPT ![k] = @ \o ms]
         /\ told' = [told EXCEPT ![k] = IF ms[1] = "input" THEN @ ELSE ms[1]]
    ELSE UNCHANGED <<wire, told>>

SendFails(k) == ~Up(k) /\ UNCHANGED <<wire, told>>

-----------------------------------------------------------------------------
(* Connections.                                                            *)

\* The agent dials, and the hub validates its token and upgrades: a new link
\* that the hub has not registered yet.
Dial(k) ==
  /\ cur = None /\ handler[k] = "none"
  /\ cur' = k
  /\ handler' = [handler EXCEPT ![k] = "accepted"]
  /\ link' = [link EXCEPT ![k] = "up"]
  /\ UNCHANGED <<agents, refs, wire, told, session, writing, shellVars, viewerVars>>

\* Hub.HandleWS's first lock region: the connection it replaces is closed.
Register(k) ==
  /\ handler[k] = "accepted"
  /\ handler' = [handler EXCEPT ![k] = "reading"]
  /\ link' = [j \in Conns |-> IF j = agents THEN "down" ELSE link[j]]
  /\ agents' = k
  /\ UNCHANGED <<refs, wire, told, agentVars, shellVars, viewerVars>>

\* The network fails; nobody has noticed yet.
Break(k) ==
  /\ Up(k)
  /\ link' = [link EXCEPT ![k] = "down"]
  /\ UNCHANGED <<agents, handler, refs, wire, told, agentVars, shellVars, viewerVars>>

\* HandleWS's ReadMessage fails, ...
HandlerFails(k) ==
  /\ handler[k] = "reading" /\ ~Up(k)
  /\ handler' = [handler EXCEPT ![k] = "leaving"]
  /\ UNCHANGED <<agents, refs, link, wire, told, agentVars, shellVars, viewerVars>>

\* Mutant of Unregister: whichever connection is registered goes.
UnregisterAny(k) ==
  /\ handler[k] = "leaving"
  /\ handler' = [handler EXCEPT ![k] = "gone"]
  /\ agents' = None
  /\ UNCHANGED <<refs, link, wire, told, agentVars, shellVars, viewerVars>>

\* ... and the connection is unregistered, unless it has been replaced.
Unregister(k) ==
  /\ handler[k] = "leaving"
  /\ handler' = [handler EXCEPT ![k] = "gone"]
  /\ agents' = IF agents = k THEN None ELSE agents
  /\ UNCHANGED <<refs, link, wire, told, agentVars, shellVars, viewerVars>>

-----------------------------------------------------------------------------
(* Viewers.  h.get reads the registered connection under h.mu; what is     *)
(* done with it comes later, under that connection's own mutex.            *)

\* HandleWS has resolved its token and subscribed, and calls Open: h.get.
\* Without an agent the viewer is turned away.
OpenGet(v) ==
  /\ viewer[v] = "off"
  /\ viewer' = [viewer EXCEPT ![v] = IF agents = None THEN "gone" ELSE "open"]
  /\ target' = [target EXCEPT ![v] = agents]
  /\ UNCHANGED <<hubVars, agentVars, shellVars, typing>>

\* Mutant of Open: the reference is set, not counted.
OpenUncounted(v) ==
  LET k == target[v]
  IN /\ viewer[v] = "open"
     /\ refs' = [refs EXCEPT ![k] = 1]
     /\ IF refs[k] = 0 THEN Sends(k, <<"open">>) ELSE UNCHANGED <<wire, told>>
     /\ viewer' = [viewer EXCEPT ![v] = "attached"]
     /\ target' = [target EXCEPT ![v] = None]
     /\ UNCHANGED <<agents, handler, link, agentVars, shellVars, typing>>

\* Open: the first reference sends "open".  If that fails HandleWS returns
\* before it has deferred Close, and the reference stays.
Open(v) ==
  LET k == target[v]
  IN /\ viewer[v] = "open"
     /\ refs' = [refs EXCEPT ![k] = @ + 1]
     /\ \/ /\ IF refs[k] = 0 THEN Sends(k, <<"open">>) ELSE UNCHANGED <<wire, told>>
           /\ viewer' = [viewer EXCEPT ![v] = "attached"]
        \/ /\ refs[k] = 0 /\ SendFails(k)
           /\ viewer' = [viewer EXCEPT ![v] = "gone"]
     /\ target' = [target EXCEPT ![v] = None]
     /\ UNCHANGED <<agents, handler, link, agentVars, shellVars, typing>>

\* The browser leaves, or a write to it fails: HandleWS returns, and its
\* deferred calls begin.
Leave(v) ==
  /\ viewer[v] = "attached"
  /\ viewer' = [viewer EXCEPT ![v] = "leaving"]
  /\ UNCHANGED <<hubVars, agentVars, shellVars, target, typing>>

\* The deferred Close: h.get gives the connection of that moment, ...
CloseGet(v) ==
  /\ viewer[v] = "leaving"
  /\ viewer' = [viewer EXCEPT ![v] = IF agents = None THEN "left" ELSE "close"]
  /\ target' = [target EXCEPT ![v] = agents]
  /\ UNCHANGED <<hubVars, agentVars, shellVars, typing>>

\* Mutants of Close: the last reference goes without a word to the agent, and
\* a reference that was never taken is given back.
CloseSilently(v) ==
  LET k == target[v]
  IN /\ viewer[v] = "close"
     /\ viewer' = [viewer EXCEPT ![v] = "left"]
     /\ target' = [target EXCEPT ![v] = None]
     /\ refs' = [refs EXCEPT ![k] = IF @ = 0 THEN 0 ELSE @ - 1]
     /\ UNCHANGED <<agents, handler, link, wire, told, agentVars, shellVars, typing>>

CloseUnderflows(v) ==
  LET k == target[v]
  IN /\ viewer[v] = "close"
     /\ viewer' = [viewer EXCEPT ![v] = "left"]
     /\ target' = [target EXCEPT ![v] = None]
     /\ refs' = [refs EXCEPT ![k] = @ - 1]
     /\ UNCHANGED <<agents, handler, link, wire, told, agentVars, shellVars, typing>>

\* ... and the last reference on it, or none at all, sends "close".
Close(v) ==
  LET k == target[v]
  IN /\ viewer[v] = "close"
     /\ viewer' = [viewer EXCEPT ![v] = "left"]
     /\ target' = [target EXCEPT ![v] = None]
     /\ IF refs[k] <= 1
          THEN refs' = [refs EXCEPT ![k] = 0] /\ Sends(k, <<"close">>)
          ELSE refs' = [refs EXCEPT ![k] = @ - 1] /\ UNCHANGED <<wire, told>>
     /\ UNCHANGED <<agents, handler, link, agentVars, shellVars, typing>>

\* The remaining deferred calls; the last closes the viewer's web socket,
\* and only that ends its reader.
Gone(v) ==
  /\ viewer[v] = "left"
  /\ viewer' = [viewer EXCEPT ![v] = "gone"]
  /\ UNCHANGED <<hubVars, agentVars, shellVars, target, typing>>

\* The viewer's reader has a keystroke or a new size, until its web socket
\* is closed, and calls Input or Resize: h.get.
InputGet(v) ==
  /\ viewer[v] \in {"attached", "leaving", "close", "left"} /\ typing[v] = None
  /\ agents # None
  /\ typing' = [typing EXCEPT ![v] = agents]
  /\ UNCHANGED <<hubVars, agentVars, shellVars, viewer, target>>

\* Mutant of Input: the "open" it sends is not counted as a reference.
InputUncounted(v) ==
  LET k == typing[v]
  IN /\ k # None
     /\ typing' = [typing EXCEPT ![v] = None]
     /\ \/ Sends(k, IF refs[k] = 0 THEN <<"open", "input">> ELSE <<"input">>)
        \/ SendFails(k)
     /\ UNCHANGED <<agents, handler, refs, link, agentVars, shellVars, viewer, target>>

\* Input and Resize: a chat without references gets one, and an "open".
Input(v) ==
  LET k == typing[v]
  IN /\ k # None
     /\ typing' = [typing EXCEPT ![v] = None]
     /\ refs' = [refs EXCEPT ![k] = IF @ = 0 THEN 1 ELSE @]
     /\ \/ Sends(k, IF refs[k] = 0 THEN <<"open", "input">> ELSE <<"input">>)
        \/ SendFails(k)
     /\ UNCHANGED <<agents, handler, link, agentVars, shellVars, viewer, target>>

-----------------------------------------------------------------------------
(* The agent.                                                              *)

Stop(s) == stopped' = [stopped EXCEPT ![s] = TRUE]

\* The agent's reader takes the next message, unless it is busy writing.
Takes(m) ==
  /\ cur # None /\ writing = None
  /\ wire[cur] # <<>> /\ Head(wire[cur]) = m
  /\ wire' = [wire EXCEPT ![cur] = Tail(@)]

\* "open": a chat that has a session keeps it; otherwise a shell starts and
\* is registered under one lock, or fails to start.
HandleOpen ==
  /\ Takes("open")
  /\ \/ UNCHANGED <<session, shell, home>>
     \/ /\ session = None
        /\ \E s \in Shells :
             /\ shell[s] = "unborn"
             /\ shell' = [shell EXCEPT ![s] = "running"]
             /\ home' = [home EXCEPT ![s] = cur]
             /\ session' = s
  /\ UNCHANGED <<agents, handler, refs, link, told, cur, writing, stopped, exited, viewerVars>>

\* "close": the session is forgotten, then stopped.
HandleClose ==
  /\ Takes("close")
  /\ session' = None
  /\ IF session = None THEN UNCHANGED stopped ELSE Stop(session)
  /\ UNCHANGED <<agents, handler, refs, link, told, cur, writing, shell, home, exited, viewerVars>>

\* "input" without a session is dropped; with one, the reader writes to it,
\* and reads no other message until the terminal takes the bytes ...
HandleInput ==
  /\ Takes("input")
  /\ writing' = session
  /\ UNCHANGED <<agents, handler, refs, link, told, cur, session, shellVars, viewerVars>>

\* ... or fails to, because its shell is gone.
WriteReturns ==
  /\ writing # None
  /\ writing' = None
  /\ UNCHANGED <<hubVars, cur, session, shellVars, viewerVars>>

\* ReadMessage fails, and runOnce returns: closeAll, then the link is closed.
Disconnect ==
  /\ cur # None /\ writing = None /\ ~Up(cur)
  /\ cur' = None /\ session' = None
  /\ wire' = [wire EXCEPT ![cur] = <<>>]
  /\ IF session = None THEN UNCHANGED stopped ELSE Stop(session)
  /\ UNCHANGED <<agents, handler, refs, link, told, writing, shell, home, exited, viewerVars>>

\* A shell exits: by itself at any time, or because it was stopped.
ShellExits(s) ==
  /\ shell[s] = "running"
  /\ shell' = [shell EXCEPT ![s] = "dead"]
  /\ UNCHANGED <<hubVars, agentVars, home, stopped, exited, viewerVars>>

\* waitLoop: Stop, then the exit callback deletes its chat's key in the map
\* of the runOnce that started the shell, whatever session is there.
ExitCallback(s) ==
  /\ shell[s] = "dead" /\ ~exited[s]
  /\ Stop(s)
  /\ exited' = [exited EXCEPT ![s] = TRUE]
  /\ session' = IF home[s] = cur THEN None ELSE session
  /\ UNCHANGED <<hubVars, cur, writing, shell, home, viewerVars>>

-----------------------------------------------------------------------------

Handler(k) == Register(k) \/ HandlerFails(k) \/ Unregister(k)

Viewer(v) == Open(v) \/ CloseGet(v) \/ Close(v) \/ Gone(v)

Agent == HandleOpen \/ HandleClose \/ HandleInput \/ Disconnect

Next ==
  \/ \E k \in Conns : Dial(k) \/ Break(k) \/ Handler(k)
  \/ \E v \in Viewers : OpenGet(v) \/ Leave(v) \/ InputGet(v) \/ Input(v) \/ Viewer(v)
  \/ Agent \/ WriteReturns
  \/ \E s \in Shells : ShellExits(s) \/ ExitCallback(s)

Spec == Init /\ [][Next]_vars

(***************************************************************************)
(* Goroutines that can run run, TCP keep-alives break a dead connection,   *)
(* a stopped shell dies.  That a shell reads what is written to it is an   *)
(* assumption about shells, made so that nothing below hangs on the one    *)
(* goroutine with which the agent reads and writes.                        *)
(***************************************************************************)
Fairness ==
  /\ \A k \in Conns : WF_vars(Handler(k))
  /\ \A v \in Viewers : WF_vars(Viewer(v)) /\ WF_vars(Input(v))
  /\ WF_vars(Agent) /\ WF_vars(WriteReturns)
  /\ \A s \in Shells : WF_vars(stopped[s] /\ ShellExits(s)) /\ WF_vars(ExitCallback(s))

FairSpec == Spec /\ Fairness

-----------------------------------------------------------------------------
(* Properties.                                                             *)

\* The gateway is online exactly while a working connection is served: a
\* replaced connection's handler, which ends late, does not take it offline,
\* and the registered connection has a handler that will unregister it.
OnlineMeansServed ==
  /\ \A k \in Conns : handler[k] = "reading" /\ Up(k) => agents = k
  /\ agents # None => handler[agents] \in {"reading", "leaving"}

\* On a connection that works, the hub has references for the chat exactly
\* when the last thing it told the agent was to open it: openers, closers
\* and late keystrokes take the mutex in any order.
ReferencesMatchWhatAgentWasTold ==
  \A k \in Conns : Up(k) => (refs[k] > 0 <=> told[k] = "open")

\* End to end: while the connection works, an agent has no session for a
\* chat the hub has no reference for, unless "close" is on its way.
NoReferenceNoSession ==
  cur # None /\ Up(cur) /\ refs[cur] = 0 /\ session # None =>
    \E i \in DOMAIN wire[cur] : wire[cur][i] = "close"

\* Viewers that hold a reference on connection k.
Holders(k) ==
  {v \in Viewers : \/ viewer[v] \in {"attached", "leaving"}
                   \/ viewer[v] = "close" /\ target[v] = k}

\* Until the agent reconnects, every viewer attached through it is counted,
\* so that one viewer's leaving does not close the shell of the others.
AttachedViewersAreCounted ==
  \A k \in Conns :
    (\A j \in Conns \ {k} : handler[j] = "none") => Cardinality(Holders(k)) <= refs[k]

\* What closing a session rests on: a shell the agent has not stopped is the
\* session of its chat, where "close" and closeAll find it.
AgentShellIsHeld ==
  \A s \in Shells : shell[s] = "running" /\ ~stopped[s] => session = s

\* README.md's idle collection, for a shell behind a gateway: with every
\* viewer gone for ever, no shell keeps running.
IdleAgentShellIsReclaimed ==
  <>[](\A v \in Viewers : viewer[v] \in {"off", "gone"} /\ typing[v] = None)
    => <>[](\A s \in Shells : shell[s] # "running")
=============================================================================
