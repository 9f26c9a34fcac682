# Verification of terminal-bridge

TLA+ models of the parts of `terminal-bridge` that run concurrently or fail
independently, the TLC runs that check them and the TLAPS proofs about them.
Source paths are relative to `src/`.

## 1. The system

| component | source | state | operations | talks to |
|---|---|---|---|---|
| terminal manager | `internal/terminal/manager.go` | `sessions` (chat -> session, lastActive), `closed`, `stopCh` | ExecuteWithMeta, SendInteractiveInput, SendControl, Resize, Reset, Close, gcLoop | session (calls, callbacks), bus (Publish), audit log |
| terminal session | `internal/terminal/session.go` | process, PTY, `writeMu`, `oneStop` | NewSession, write, Resize, Stop, readLoop, waitLoop | manager or agent through `onOutput`, `onExit` |
| event bus | `internal/events/bus.go` | `subs`, `history` per chat | Publish, Subscribe, unsubscribe, Snapshot | every publisher; HandleWS reads |
| agent hub | `internal/agent/hub.go` | `agents` (id -> connection), `refs` per connection and chat | HandleWS, Open, Close, Input, Resize, Uninstall | agent (web socket), bus, gateway store |
| gateway agent | `cmd/agent/main.go` | one connection, its `sessions` map | dial loop, message dispatch, closeAll, uninstall | hub, session |
| web terminal server | `internal/webterm/server.go` | none of its own; two goroutines per viewer | HandleWS, token, state, gateway handlers | manager, hub, bus, stores |
| token store | `internal/webterm/tokens.go` | page and web-socket tokens with expiry | Issue, UsePageToken, IssueWSToken, ResolveWSToken, CleanupExpired | server, cleanup ticker |
| console login | `internal/webterm/auth.go` | sessions with expiry | login, logout, IsAuthenticated | server |
| state and gateway store | `internal/webterm/state_store.go`, `state_crypto.go` | SQLite rows | dashboard state, gateways, token validation | server, hub |
| audit logger | `internal/audit/logger.go` | the open file | Log, Close | manager |
| dashboard and page clients | `internal/webterm/static/*.html` | windows, sockets, local and remote state | connect, reconnect, synchronise | server |
| configuration, bridge process | `internal/config`, `cmd/bridge` | none | start, wire, shut down | all |

What is hard in it, and what makes it correct:

* **Manager and sessions.** `getOrCreate` looks, releases the lock, starts a
  shell and looks again; Reset, gcLoop and Close take sessions out of the map
  under the lock and stop them after it; every session has a callback that
  removes its entry when its shell ends. Correct means: no shell is leaked, a
  chat's input goes to one shell, nothing is registered after Close, an idle
  chat is collected, and Close frees everybody.
* **Bus.** Publish records under the lock and sends after releasing it, while
  subscribers come and go and do not always read. Correct means: the replay
  window is complete, a subscriber that keeps up misses nothing and gets
  nothing twice, no publisher ever waits, nothing panics.
* **A viewer's stream.** HandleWS subscribes, opens the chat on its agent,
  replays the history and goes live, while a second goroutine answers pings on
  the same web socket. Correct means: no gap at the seam, repetitions only of
  what came in between, and release when the browser goes.
* **Tokens and login.** The clock is read before the lock that guards the
  answer. Correct means: no answer that takes back a refusal, and, for page
  tokens, which nothing hands out at present, one terminal per page, whose link
  works while the page does.
* **Hub and agent.** Viewers are counted on the connection of the moment, the
  agent reconnects, keystrokes arrive after the viewer's own Close, messages
  are lost with the connection. Correct means: the gateway is shown online
  while it is served, the count and the agent's session agree, a shell without
  a viewer ends.
* **Gateways.** A gateway is a row, a machine that dials for ever, and the
  connection the hub has registered; each may be replaced or go while a request
  that read it goes on. Correct means: one connection is served, a deleted
  gateway's machine does not come and go, an installed one comes back.
* **Dashboard state.** Each page, the browser's storage and the server's row
  hold a copy; syncs are slow, refused, find another in flight, or are stored
  after their page has given them up. Correct means: the row is what the page
  shows, unless something named was dropped.

The full list of hazards, each with its line, is in `PROJECT.json`.

## 2. Modules

| module | models | state and actions against the code |
|---|---|---|
| `TerminalManager` | manager, session, the open audit log | `registry`/`stale` are `m.sessions` and whether `lastActive` is before the cutoff; `pc` is where each caller is between lock regions; every lock region of `m.mu` is one action (`LookupHit`, `RegisterWins`, `RemoveEntry`, `GcSweep`, `CloseBegin`, ...), every `Stop` outside it another |
| `TerminalManagerProofs` | | inductive invariant and theorems about it |
| `EventBus` | bus, for one chat | `history`, `subs`, channels as the sequence ever put in (`sent`) and how much was received (`taken`); `PublishStart` stamps, `PublishRecord` is the lock region, `PublishSend` one turn of the loop |
| `EventBusProofs` | | theorems about it |
| `AgentGateway` | hub, agent, and HandleWS as a user of the hub, for one agent and one chat | `agents`, `refs` as in the hub; `link`/`wire` are the TCP connection and what the agent has not read; `session`, `writing` the agent's runOnce; `viewer`, `target`, `typing` the two goroutines of HandleWS with what `h.get` gave them |
| `AgentGatewayProofs` | | inductive invariant and theorems about it |
| `WebAccess` | token store, console login, HandlePage, HandleIssueWSToken, the entry of HandleWS, cleanup ticker | the three maps as functions with the keys as domain; a request's `at` is the clock reading or expiry it carries to the lock; `made` are the tokens drawn, `handed` and `refused` only serve properties |
| `WebAccessProofs` | | theorems about it |
| `SessionRegistry` | nothing directly: what the manager promises | a chat's current session and each session's phase of life; `TerminalManager` is shown to implement it |
| `TerminalManagerRefinement` | | the proof of that |
| `WebTermStream` | the output side of HandleWS over `EventBus` | `stage` is where the handler is, `replay` what is left of its snapshot, `out` what it has written, `reader` its second goroutine; each bus operation in a viewer's action is `EventBus`'s own |
| `WebTermStreamProofs` | | theorems about the stream and the bus under it |
| `Gateways` | gateway rows, hub admission and replacement, Uninstall and DELETE, the agents' dial loop and uninstallSelf, for one agent id | `row` is the token in the table, `online` the hub's entry, `stage` each connection's place in Hub.HandleWS, `agent`/`wire` each machine's main loop, `pc`/`aim` each DELETE request |
| `GatewaysProofs` | | theorems about it |
| `DashboardSync` | saveState, syncRemoteState and loadRemoteState of the page, HandleDashboardState, the profile's row | `mem`, `local`, `remote` are the three copies, as the set of changes they hold; `timer`, `sync`, `load` the page's asynchronous calls, `wire` the POSTs under way, `stray` those their page has given up |
| `DashboardSyncProofs` | | inductive invariant and theorems about it |
| `MC...` | | constants and symmetry for TLC |

Abstractions. Data that no property distinguishes is gone: command texts, output
bytes, terminal sizes, identities of users, JSON. A chat refused by the command
policy is a nondeterministic refusal. A chat is idle when its entry may have
become older than the timeout (`BecomeStale`), so no clock is needed. Publishing
on the bus is left out of `TerminalManager`: it neither blocks nor changes what
the manager reads. The variable `created` captured by the exit callback
(`manager.go:285`) is written and read without synchronisation; until its
creator takes the lock again the model lets the callback read either value. The
bus and the hub keep everything per chat and share only locks between chats, so
one chat is the whole of them; rows, connections and messages of different agent
ids never meet, so one id is the whole of `Gateways`. History variables (`log`,
`joined`, `lagged`, `told`, `edge`, `clashed`, `handed`, `refused`, `dropped`)
only serve properties. Operators marked *Mutant* are not part of any
specification: each is a plausible bug put in the place of the operator it
stands before, to show that a property notices it. `Gateways` takes
`normalizeAgentID` (`state_store.go:258`) for the identity: the store strips an
id of every character other than letters, digits, `-` and `_`, while the hub
registers the id of the query as it is, only trimmed. Nothing depends on the
difference for agents started with the command the server serves, whose id has
been stripped already.

`TokenStore.Issue` has no caller in the repository: no page token is ever made,
and `OneTerminalPerPage` and `LinkWorksWhilePageDoes` speak of a path of
`tokens.go` that no request takes at present. The console's own tokens
(`IssueWSToken`) are what `RefusalIsFinal` and `ExpiredIsForgotten` are about in
the running program.

How they compose: `WebTermStream` extends `EventBus` and drives its
operations; what a shell or an agent prints is a `Publish` there. A keystroke
goes through `AgentGateway` or `TerminalManager`; who may open a viewer is
decided in `WebAccess`; which connection is the agent's, in `Gateways`.

## 3. Runs

| run | question | instance |
|---|---|---|
| `manager_safety` | does any interleaving leak a shell, put two of a chat in the open, or register after Close; is every step one of `SessionRegistry`'s? | 2 callers, 2 chats, 2 sessions, symmetric |
| `manager_liveness` | does Close end every shell and free every caller, also one blocked in a write and one behind it; is an idle chat collected; is `SessionRegistry`'s fairness kept? | 2 callers, 1 chat, 1 session |
| `manager_dead_entry` | *violated*: an ended session can stay its chat's entry | 1 caller, 1 chat, 2 sessions |
| `bus_delivery` | what may be missing, early or out of order in a subscriber's channel; is every channel off the list closed and every buffer within its bound; does Publish always return? | 1 publisher with 3 events, 2 channels of 2 (one may be full while the other is not), clock to 2, TTL 1, no receiver assumed |
| `stream` | is every event of the last TTL in the history; is there a gap or a wrong repetition at the seam; does output reach the screen and is a viewer that has gone released? | 2 publishers with 1 event each, 1 viewer with a channel of 1, clock to 2, TTL 1 |
| `bus_panic` | *violated*: a subscriber's leaving can panic a publisher | 1 publisher, 1 channel |
| `agent_safety` | do registration, counts, messages and the agent's session agree? | 2 viewers, 2 connections, 2 shells, 2 messages under way |
| `agent_orphan` | *violated*: a running shell can lose its map entry | 2 viewers, 1 connection, 2 shells |
| `agent_idle` | *violated*: a shell without viewers can run for ever | 1 viewer, 1 connection, 1 shell |
| `web_access` | does a page get one terminal, whose link works as long as the page; is a refusal final; do expired tokens go? | 2 requests, 1 page token, 2 web-socket tokens, 1 console session, clock to 2, both TTLs 1 |
| `gateways` | is one connection served, does a deleted gateway's machine settle, does an installed one come back? | 2 tokens, 2 connections used again and again, 1 DELETE |
| `dashboard` | does the row hold what its page shows, in order, and does a change arrive? | 2 pages, 2 changes, 1 failure, whose request may be stored late |

Bounds. Two callers are the race for creation, two sessions the loser or the
successor; a third of either adds no new pair of steps, since every action
touches at most one caller and one session. Callers, viewers' keystrokes and
resets are unbounded in number; sessions, connections and viewers are identities
that are used up (`Sids`, `Conns`, `Shells`, `Viewers`, tokens), and a model in
which they are used up goes on without creating more. `MaxEvents` and `MaxTime`
bound the bus. `bus_delivery` has one publisher, whose third event finds a
channel of two full, and subscribers that come and go between its sends;
`stream` has the two publishers that can be recorded out of order and whose
events compete for a place in a channel. In both a clock of two lets an event
expire while a later one does not. Both publishers, longer runs and larger
channels together are the proofs' matter: as an instance they have tens of
millions of states. In `Gateways` two tokens are a gateway deleted and created
again, two connections the new one that replaces the old, and names of
connections are used again, so that redialling goes on for ever. In
`DashboardSync` two changes are one that is saved and one that finds the sync in
flight; two pages are two tabs or a page and its reload. In `WebAccess` two
requests are a pair whose clock readings and lock order differ; a clock of two
reaches past an expiry. `MaxWire` 2 is the smallest that takes the pair "open",
"input" that `Input` sends. Deadlock is checked for the manager and in
`web_access`; the others really stop in their bounded instances (and the bus
after a panic).

What an instance is too small for: in `manager_liveness` one session has no
loser of the creation race and no older session whose late output refreshes the
entry, so that `CloseEndsEveryShell`, `IdleChatIsReclaimed` and
`KeepsRegistryGoing` are not checked of these; one publisher in `bus_delivery`
shows `PublisherOrderKept` only without others, and one event each in `stream`
shows only that none is written twice outside the overlap. "Whoever else
publishes" and "after a later one" rest on the proofs.

What a property does not speak of. `GoneViewerIsReleased` starts where the
reader of HandleWS has ended; a reader blocked in `SendInteractiveInput`
(`server.go:548`) does not notice that its browser has gone and is outside it.
`ExpiredIsForgotten` is about tokens: a console session past its expiry stays in
its map until somebody presents it. `AgreeUnlessDropped` and `ChangeArrives`
excuse every change the page has dropped, by name; that a change may be dropped
at all (a sync that finds another in flight, the load that overwrites an edit)
they do not hold against the code, and these hazards have no property.

Fairness. `FairSpec` says that goroutines that can run run, that a stopped
process dies (SIGKILL), that the ticker ticks and that an entry nobody touches
becomes stale. Nothing is assumed of shells reading or exiting, of callers, or
of subscribers, with one exception: in `AgentGateway` a shell reads what is
written to it, so that the counterexample of `agent_idle` does not rest on a
blocked reader. In `WebAccess` only the clock and the cleanup ticker go on: what
expires is forgotten although no request ever comes again. In `WebTermStream`
publishers and handlers run; a write to a browser returns, since a connection
that is stuck ends in an error, and a browser that leaves is noticed only if it
does leave. In `Gateways` the hub's handlers, the agents' loops and a started
DELETE run; a cut connection is noticed by both ends, but nothing says that it
is cut. `InstalledComesOnline` takes as premises that the network and the
database hold from some time on. In `DashboardSync` timers fire and a POST is
answered, refused or lost; nobody has to log in. Weak fairness suffices since
every awaited step, once enabled for good, stays enabled; for a mutex under
contention see `CloseReleasesCallers`, which speaks of the time after Close,
when no new call reaches a lock of a session.

## 4. What the violated runs show

* `bus_panic`: `Publish` sends on a copied list of channels after unlocking
  (`bus.go:90`), `unsubscribe` closes a channel under the lock (`bus.go:60`).
  A viewer that leaves between the two panics the process.
* `manager_dead_entry`: the shell's end can be handled before its session is
  registered (`manager.go:304` before `328`); the entry then stays dead, and
  every attempt to use it refreshes it.
* `agent_orphan`: the agent's exit callback deletes the chat's key without
  looking whose session it holds (`cmd/agent/main.go:143`). The manager's
  callback does look (`manager.go:306`); `NoOrphanShell` and its mutant
  `RemoveAnyEntry` show the difference.
* `agent_idle`: HandleWS's deferred calls give the reference back before they
  close the web socket, so that its reader may open the chat again.

## 5. Proofs

`TerminalManagerProofs` proves, for any sets of callers, chats and sessions and
from the one assumption that `None` is none of them, that `Spec` keeps `TypeOK`,
`NoOrphanShell`, `OneShellPerChat` and `ClosedRegistryStaysEmpty`. None of the
first three is inductive: registering `fresh[p]` keeps shells held only if it
was created for the very chat it is registered under, an exit callback may
remove an entry only because its shell is dead, and gcLoop and Close may fill
their lists only because they are empty. `IInv` adds exactly these facts
(`CallInv`, `SessionInv`, `ListInv`). `BookkeepingStep` and `NoOrphanStep` have
one step per action; `OneShellPerChat` follows from `NoOrphanShell`, because two
sessions in the open would both be the entry of their chat. `IInv`'s
parts hold in TLC too when they are added to the invariants of `manager_safety`.

`EventBusProofs` proves, for any publishers, channels, capacity, time to live
and length of the run, that `Spec` keeps `HistoryKeepsTheWindow`,
`KeepingUpMissesNothing`, `StreamStartsAtSubscription`, `PublisherOrderKept` and
`TypeOK`, which says of the channels that those off the list, and only those,
are closed, and that no buffer exceeds its capacity (`BufferInv`: a publisher
sends to a channel only if it has room, and not after its loop is over). What
the others rest on: an event's time has come when it is recorded, so that
pruning as of it takes nothing younger than pruning as of now (`PublisherInv`,
`WindowPruned`); what a publisher still has to send to a channel was recorded
after that channel's subscription (`PendingInv`); and a channel holds of a
publisher only events older than the one it is about to be sent (`OrderInv`).
The lemmas `AppendToRest` and `RestOfRest` say what appending to and pruning the
rest of a log leave; `OwedAppend` what a subscriber is owed after one more
event.

`TerminalManagerRefinement` proves that `Spec` implements `SessionRegistry` with
the mapping `Phase` of `TerminalManager`. A session's phase is read from its
process, the callers' frames and the lists of gcLoop and Close, so that an
action changes the phase of a session it does not name only if that session is
in two places at once: `FreshInv` says that a session whose creator still holds
it is in no list, entry or other frame. With it every action of the manager
ends a session, places one, takes a set of chats out of service, or stutters
(`Ends`, `Places`, `Withdraws`, `Stutters`), and `MapStep` picks the one. That a
serving session is its chat's current one (`ServingIsCurrent`) is `NoOrphanShell`
read through the mapping, so the refinement stands on the first module.

`WebTermStreamProofs` first shows that a step of the viewers is a step of the
bus or leaves it alone; `EventBusProofs`' invariant then holds under them, and
`NoGap` and `OnlyTheOverlapRepeats` are proved on top of it. The invariant
`StreamInv` says where each viewer's reading stands: its stage agrees with its
subscription and its buffers (`Viewers`), the events of a publisher are
numbered as they are recorded (`LogInv`), everything due is written, being
replayed, in the channel or pending (`NoGapOf`), and what is written, replayed
and sent, in this order, comes from the log and goes back in a publisher's
numbering only inside the overlap (`Orderly`).

`GatewaysProofs` proves `TypeOK` and `OneLinkIsServed` and needs one fact more
than they say: the registered connection is being served (`ServedInv`).
`DeletedSettles` and `InstalledComesOnline` are liveness and are model-checked
only.

`WebAccessProofs` assumes that tokens and session ids of different kinds are
never the same string and that `None` is none of them. Its invariant adds to the
properties that a request presents what was made for its kind with a clock
reading that is not in the future (`RequestInv`), that a page's entry names all
that was ever given for it and shares its expiry (`HandedInv`), and that what
was refused is either gone from the stores or a session that has expired
(`RefusedInv`). `LinkWorksWhilePageDoes` is why the shared expiry matters: a
cleanup or request whose old clock reading removes the link must be one by which
the page has expired.

`AgentGatewayProofs` proves all five invariants of `agent_safety`, for any
connections and shells, any finite set of viewers (they are counted) and any
number of messages under way, assuming that `None` is none of the identities
and neither of the words "open" and "close". Its invariant has four parts that
no run names. `Fresh`: nobody knows of a connection before it is dialled, so
that what is told and counted starts at nothing. `FrameInv`: a viewer holds a
connection exactly between `h.get` and its use, and an agent without a
connection has no session. `WireInv`: unless the last word on a working
connection was "open", every "open" under way is followed by a "close", and a
session the agent already has meets one too; this is what becomes of
`NoReferenceNoSession` while messages are read one by one, and with
`ReferencesMatchWhatAgentWasTold` it implies it. `Bounded`: references come from
viewers that have called Open, and one from a late keystroke. Two lemmas carry
most steps: `OnlyLinks` (only dialling, breaking and the handlers of the hub
touch the registration) and `CallCounts` (Open, Close and Input each count on
one connection and, if it works, tell its agent what the count has become); the
lemmas `AnsweredTail` and `AnsweredAdd` say what reading a message and sending
one do to "followed by a close". `AttachedViewersAreCounted` is inductive with
`Fresh`: a viewer's Close gives back its own reference as long as no second
connection exists.

`DashboardSyncProofs` proves, for any pages and changes and any number of
failures, `TypeOK`, `AgreeUnlessDropped` and the action property
`OnlyStraysGoBack`; it assumes that "none" is not the name of a page. A page
sends only when nothing of its own is under way (`SendsAlone`), so that what is
under way is the last payload built (`OnePost`) and neither the stored one nor a
stray is later (`Frame`): only storing a stray, a POST its page has given up,
can take the row back, and that step counts as a drop
unless the page is about to send again (`SaveLate`). `Carried` is
the heart of `AgreeUnlessDropped`: with no timer set and nothing dropped, the
payload under way is the page's state, and so is the row from the answer on;
each of the ways to lose a change (a sync that finds another in flight, a
refusal, the initial load) sets `dropped`, and a payload built anew, which
carries everything, resets it.

The parts of both invariants hold in TLC too, on the instances of
`agent_safety` and `dashboard`.

Only model-checked: the liveness properties, `KeepsRegistryGoing` among them
(the prover has no fairness). Every invariant and every action property of the
passing runs is proved.

## 6. Not modelled

* The cipher, SQLite statements, HTML, HTTP routing, installation scripts,
  downloads and configuration: pure input and output. The bridge process only
  wires the components and shuts them down.
* Renaming and listing gateways and the time of last contact: one statement of
  SQL each, on columns nothing else reads.
* `validateCommand`: string matching without state. In `TerminalManager` it is a
  refusal that may come or not.
* The order of Close and the last audit records at shutdown: `TerminalManager`
  has it, but nothing says which records must be there.
* The windows of the console and of the terminal page with their reconnection
  timers. Two hazards of theirs are in `PROJECT.json` without a property.
* A write to an agent that times out is a connection that breaks (`Break`),
  after which sends are lost or refused until somebody notices.
* One token installed on two machines: they would replace each other's
  connection for ever; a machine is named by its token in `Gateways`.
* What becomes of a machine admitted before its row went. Between the
  validator's answer and the registration (`server.go:159`) a deleted gateway's
  machine can be registered once more; the model contains the race, and
  `DeletedSettles` allows its outcome, a machine that stays served on that one
  connection until it is cut, but not one that keeps coming and going.

## 7. Plan

Done: `TerminalManager` with its refinement to `SessionRegistry`, `EventBus`,
`WebTermStream`, `WebAccess`, `Gateways`, `AgentGateway` and `DashboardSync`,
each with its runs and its proofs. Left:

1. The console's windows: token, socket and reconnection timer of one window
   against its being closed meanwhile.
2. One specification of the hub's registration that `AgentGateway` and
   `Gateways`, which both contain it, are shown to implement.
