------------------------------- MODULE Gateways -------------------------------
(***************************************************************************)
(* The life of one gateway: its row in the store (gateway_agent, in        *)
(* internal/webterm/state_store.go), the machines it was installed on      *)
(* (cmd/agent/main.go, which dials for ever), their connections to the hub *)
(* (internal/agent/hub.go) and the console's requests to delete it         *)
(* (HandleGateways in internal/webterm/server.go).  Rows, connections and  *)
(* messages of different agent ids never meet, so one id is the whole.     *)
(* A machine is named by the token it was installed with.  What goes over  *)
(* a connection besides "uninstall" is AgentGateway's matter.              *)
(***************************************************************************)

CONSTANTS
  Tokens,   \* tokens CreateGateway can ever draw (a bound)
  Conns,    \* connections, used again once both ends have forgotten them
  Deletes,  \* DELETE requests under way at once
  Nil

ASSUME NilAssumption == Nil \notin Tokens \cup Conns

VARIABLES
  row,     \* the token in the gateway's row, or Nil
  issued,  \* tokens drawn so far
  online,  \* h.agents[id], or Nil
  stage,   \* connection -> Hub.HandleWS: "free", "asking", "admitted", "serving"
  by,      \* connection -> the token it came with
  link,    \* connection -> "up" or "cut"
  mail,    \* connection -> an "uninstall" is under way to the agent
  agent,   \* machine -> "absent", "waiting", "dialing", "connected" or "gone"
  wire,    \* machine -> the connection it holds, or Nil
  doomed,  \* machine -> uninstallSelf is running
  pc,      \* request -> "idle", "get", "send" or "delete"
  aim      \* request -> the connection Uninstall got from the hub, or Nil

storeVars == <<row, issued>>
hubVars   == <<online, stage, by>>
netVars   == <<link, mail>>
agentVars == <<agent, wire, doomed>>
reqVars   == <<pc, aim>>
vars == <<storeVars, hubVars, netVars, agentVars, reqVars>>

TypeOK ==
  /\ issued \in SUBSET Tokens /\ row \in issued \cup {Nil}
  /\ online \in Conns \cup {Nil}
  /\ stage \in [Conns -> {"free", "asking", "admitted", "serving"}]
  /\ by \in [Conns -> Tokens \cup {Nil}]
  /\ link \in [Conns -> {"up", "cut"}] /\ mail \in [Conns -> BOOLEAN]
  /\ agent \in [Tokens -> {"absent", "waiting", "dialing", "connected", "gone"}]
  /\ wire \in [Tokens -> Conns \cup {Nil}] /\ doomed \in [Tokens -> BOOLEAN]
  /\ pc \in [Deletes -> {"idle", "get", "send", "delete"}]
  /\ aim \in [Deletes -> Conns \cup {Nil}]
  /\ \A d \in Deletes : pc[d] = "send" => aim[d] # Nil

Init ==
  /\ row = Nil /\ issued = {}
  /\ online = Nil
  /\ stage = [c \in Conns |-> "free"] /\ by = [c \in Conns |-> Nil]
  /\ link = [c \in Conns |-> "cut"] /\ mail = [c \in Conns |-> FALSE]
  /\ agent = [t \in Tokens |-> "absent"]
  /\ wire = [t \in Tokens |-> Nil] /\ doomed = [t \in Tokens |-> FALSE]
  /\ pc = [d \in Deletes |-> "idle"] /\ aim = [d \in Deletes |-> Nil]

-----------------------------------------------------------------------------
(* The console and the store.                                              *)

\* CreateGateway: an INSERT, which fails when the id has a row.
Create(t) ==
  /\ row = Nil /\ t \notin issued
  /\ row' = t /\ issued' = issued \cup {t}
  /\ UNCHANGED <<hubVars, netVars, agentVars, reqVars>>

\* DELETE: an agent that HasAgent finds is told to uninstall first.
DeleteStart(d) ==
  /\ pc[d] = "idle"
  /\ pc' = [pc EXCEPT ![d] = IF online # Nil THEN "get" ELSE "delete"]
  /\ UNCHANGED <<storeVars, hubVars, netVars, agentVars, aim>>

\* Mutant of UninstallGet: the agent HasAgent found is taken to be there.
UninstallGetUnchecked(d) ==
  /\ pc[d] = "get"
  /\ aim' = [aim EXCEPT ![d] = online]
  /\ pc' = [pc EXCEPT ![d] = "send"]
  /\ UNCHANGED <<storeVars, hubVars, netVars, agentVars>>

\* Hub.Uninstall: h.get, under the hub's lock, ...
UninstallGet(d) ==
  /\ pc[d] = "get"
  /\ aim' = [aim EXCEPT ![d] = online]
  /\ pc' = [pc EXCEPT ![d] = IF online = Nil THEN "delete" ELSE "send"]
  /\ UNCHANGED <<storeVars, hubVars, netVars, agentVars>>

\* ... then the message and the close, under the connection's.  On a
\* connection that is down the send fails, or vanishes.
UninstallSend(d) ==
  LET c == aim[d]
  IN /\ pc[d] = "send"
     /\ mail' = [mail EXCEPT ![c] = @ \/ link[c] = "up"]
     /\ link' = [link EXCEPT ![c] = "cut"]
     /\ pc' = [pc EXCEPT ![d] = "delete"]
     /\ aim' = [aim EXCEPT ![d] = Nil]
     /\ UNCHANGED <<storeVars, hubVars, agentVars>>

\* DeleteGateway and the answer; an error of the database leaves the row.
Delete(d) ==
  /\ pc[d] = "delete"
  /\ row' \in {row, Nil}
  /\ pc' = [pc EXCEPT ![d] = "idle"]
  /\ UNCHANGED <<issued, hubVars, netVars, agentVars, aim>>

-----------------------------------------------------------------------------
(* The hub: HandleWS of one connection.                                    *)

\* The validator reads the row; a refused request is over.
Validate(c) ==
  /\ stage[c] = "asking"
  /\ stage' = [stage EXCEPT ![c] = IF row = by[c] THEN "admitted" ELSE "free"]
  /\ UNCHANGED <<storeVars, online, by, netVars, agentVars, reqVars>>

\* The agent that holds c learns that it is served, if c still works.
Tell(c) ==
  agent' = [t \in Tokens |-> IF wire[t] = c /\ link[c] = "up" THEN "connected" ELSE agent[t]]

\* Mutant of Register: the connection it replaces is left open.
RegisterBeside(c) ==
  /\ stage[c] = "admitted"
  /\ online' = c
  /\ stage' = [stage EXCEPT ![c] = "serving"]
  /\ Tell(c)
  /\ UNCHANGED <<storeVars, by, netVars, wire, doomed, reqVars>>

\* The upgrade, and the registration under the lock, which closes the
\* connection it replaces (and then notes the time in the row).
Register(c) ==
  /\ stage[c] = "admitted"
  /\ online' = c
  /\ link' = [x \in Conns |-> IF x = online THEN "cut" ELSE link[x]]
  /\ stage' = [stage EXCEPT ![c] = "serving"]
  /\ Tell(c)
  /\ UNCHANGED <<storeVars, by, mail, wire, doomed, reqVars>>

\* Mutant of Unregister: whichever connection is registered goes.
UnregisterWhichever(c) ==
  /\ stage[c] = "serving" /\ link[c] = "cut"
  /\ online' = Nil
  /\ stage' = [stage EXCEPT ![c] = "free"]
  /\ UNCHANGED <<storeVars, by, netVars, agentVars, reqVars>>

\* Mutant of Unregister: the hub keeps the entry of a connection that ended.
UnregisterKeepsEntry(c) ==
  /\ stage[c] = "serving" /\ link[c] = "cut"
  /\ stage' = [stage EXCEPT ![c] = "free"]
  /\ UNCHANGED <<storeVars, online, by, netVars, agentVars, reqVars>>

\* ReadMessage fails: the connection leaves the map if it is still there.
Unregister(c) ==
  /\ stage[c] = "serving" /\ link[c] = "cut"
  /\ online' = IF online = c THEN Nil ELSE online
  /\ stage' = [stage EXCEPT ![c] = "free"]
  /\ UNCHANGED <<storeVars, by, netVars, agentVars, reqVars>>

\* The database does not answer the validator, or the upgrade fails.
Refuse(c) ==
  /\ stage[c] \in {"asking", "admitted"}
  /\ stage' = [stage EXCEPT ![c] = "free"]
  /\ UNCHANGED <<storeVars, online, by, netVars, agentVars, reqVars>>

Handler(c) == Validate(c) \/ Register(c) \/ Unregister(c)

-----------------------------------------------------------------------------
(* The network and the agents.                                             *)

Break(c) ==
  /\ link[c] = "up" /\ link' = [link EXCEPT ![c] = "cut"]
  /\ UNCHANGED <<storeVars, hubVars, mail, agentVars, reqVars>>

\* The installation command of a token is run on a machine.
Install(t) ==
  /\ t \in issued /\ agent[t] = "absent"
  /\ agent' = [agent EXCEPT ![t] = "waiting"]
  /\ UNCHANGED <<storeVars, hubVars, netVars, wire, doomed, reqVars>>

\* A connection nobody holds any more: its name can be used again.
Forgotten(c) ==
  /\ stage[c] = "free"
  /\ \A t \in Tokens : wire[t] # c
  /\ \A d \in Deletes : aim[d] # c

\* runOnce dials.
Dial(t, c) ==
  /\ agent[t] = "waiting" /\ Forgotten(c)
  /\ agent' = [agent EXCEPT ![t] = "dialing"]
  /\ wire' = [wire EXCEPT ![t] = c]
  /\ stage' = [stage EXCEPT ![c] = "asking"] /\ by' = [by EXCEPT ![c] = t]
  /\ link' = [link EXCEPT ![c] = "up"] /\ mail' = [mail EXCEPT ![c] = FALSE]
  /\ UNCHANGED <<storeVars, online, doomed, reqVars>>

\* runOnce returns an error, because it was refused or the connection went,
\* and main waits three seconds.
Fail(t) ==
  /\ wire[t] # Nil /\ (link[wire[t]] = "cut" \/ stage[wire[t]] = "free")
  /\ agent' = [agent EXCEPT ![t] = "waiting"]
  /\ wire' = [wire EXCEPT ![t] = Nil]
  /\ UNCHANGED <<storeVars, hubVars, netVars, doomed, reqVars>>

\* "uninstall": uninstallSelf starts, and runOnce returns.
TakeUninstall(t) ==
  /\ agent[t] = "connected" /\ mail[wire[t]]
  /\ agent' = [agent EXCEPT ![t] = "waiting"]
  /\ doomed' = [doomed EXCEPT ![t] = TRUE]
  /\ link' = [link EXCEPT ![wire[t]] = "cut"]
  /\ wire' = [wire EXCEPT ![t] = Nil]
  /\ UNCHANGED <<storeVars, hubVars, mail, reqVars>>

\* uninstallSelf ends the process, whatever the main loop does meanwhile.
Exit(t) ==
  /\ doomed[t] /\ agent[t] # "gone"
  /\ agent' = [agent EXCEPT ![t] = "gone"]
  /\ link' = [c \in Conns |-> IF wire[t] = c THEN "cut" ELSE link[c]]
  /\ wire' = [wire EXCEPT ![t] = Nil]
  /\ UNCHANGED <<storeVars, hubVars, mail, doomed, reqVars>>

Loop(t) == Fail(t) \/ TakeUninstall(t) \/ \E c \in Conns : Dial(t, c)

Next ==
  \/ \E t \in Tokens : Create(t) \/ Install(t) \/ Loop(t) \/ Exit(t)
  \/ \E c \in Conns : Handler(c) \/ Refuse(c) \/ Break(c)
  \/ \E d \in Deletes : DeleteStart(d) \/ UninstallGet(d) \/ UninstallSend(d) \/ Delete(d)

Spec == Init /\ [][Next]_vars

\* Goroutines that can run do; a lost connection is noticed by both ends, at
\* the latest at a write deadline or a TCP timeout.
Fairness ==
  /\ \A c \in Conns : WF_vars(Handler(c))
  /\ \A t \in Tokens : WF_vars(Loop(t)) /\ WF_vars(Exit(t))
  /\ \A d \in Deletes : WF_vars(UninstallGet(d) \/ UninstallSend(d) \/ Delete(d))

FairSpec == Spec /\ Fairness

-----------------------------------------------------------------------------
(* Properties.                                                             *)

\* At most one connection of a gateway works: what viewers type and what the
\* agent prints goes through the one that is registered.
OneLinkIsServed ==
  \A c \in Conns : stage[c] = "serving" /\ link[c] = "up" => online = c

\* The machine installed with token t is out of the hub, or the hub has a
\* working connection of it.
Out(t) ==
  /\ \A c \in Conns : by[c] = t => stage[c] \in {"free", "asking"}
  /\ online # Nil => by[online] # t
Held(t) == online # Nil /\ by[online] = t /\ link[online] = "up"

\* What becomes of a deleted gateway's machine, which dials for ever: it ends
\* up out of the hub for good, or, if it was admitted before the row went and
\* registered after, on one connection that has worked ever since.  It does
\* not come and go, and the hub does not list it without a connection.
DeletedSettles ==
  \A t \in Tokens : <>[](t \in issued /\ row # t) => <>[]Out(t) \/ <>[]Held(t)

\* A gateway that is installed and not deleted is online again, for good,
\* once the network and the database hold: redialling, replacing and
\* unregistering do not chase each other.
InstalledComesOnline ==
  \A t \in Tokens :
    /\ <>[](row = t /\ agent[t] # "absent" /\ ~doomed[t])
    /\ <>[][\A c \in Conns : ~Break(c) /\ ~Refuse(c)]_vars
    /\ <>[](\A d \in Deletes : pc[d] = "idle")
    => <>[](online # Nil /\ by[online] = t)
=============================================================================
