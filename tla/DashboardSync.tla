----------------------------- MODULE DashboardSync -----------------------------
(***************************************************************************)
(* The console's services and windows, kept in three places: the memory of *)
(* each page, the browser's localStorage, which the pages share, and the   *)
(* profile's row in the server's store (dashboard_state).  From            *)
(* internal/webterm/static/dashboard.html, HandleDashboardState in         *)
(* internal/webterm/server.go and internal/webterm/state_store.go.         *)
(*                                                                         *)
(* What is kept is the set of the changes made so far: a change is "made   *)
(* by" whatever calls saveState.  A page is one load of the console: two   *)
(* pages are two tabs, or a tab before and after it is reloaded.           *)
(***************************************************************************)
EXTENDS Naturals, FiniteSets

CONSTANTS
  Pages,     \* loads of the page (a bound)
  Changes,   \* calls of saveState, over all pages (a bound)
  MaxFails   \* requests that are refused or fail (a bound)

ASSUME PagesAssumption == "none" \notin Pages
ASSUME MaxFailsAssumption == MaxFails \in Nat

VARIABLES
  stage,    \* page -> "unopened", "loading", "ready" or "gone"
  mem,      \* page -> state
  timer,    \* page -> syncTimer is set
  sync,     \* page -> "idle", or what the sync in flight is doing
  load,     \* page -> the server's answer to loadRemoteState, or {"none"}
  local,    \* localStorage
  wire,     \* POSTs on their way to the server
  stray,    \* POSTs still on their way that their page has given up
  built,    \* page -> POSTs built so far
  remote,   \* the row, with the POST that wrote it; page "none" at first
  dropped,  \* history: page -> no POST brings some change in its state
  fails     \* counts towards MaxFails

vars == <<stage, mem, timer, sync, load, local, wire, stray, built, remote, dropped, fails>>

None == {"none"}
Post == [page: Pages, n: Nat, body: SUBSET Changes]

TypeOK ==
  /\ stage \in [Pages -> {"unopened", "loading", "ready", "gone"}]
  /\ mem \in [Pages -> SUBSET Changes] /\ local \in SUBSET Changes
  /\ timer \in [Pages -> BOOLEAN] /\ dropped \in [Pages -> BOOLEAN]
  /\ sync \in [Pages -> {"idle", "waiting", "login", "again", "answered"}]
  /\ load \in [Pages -> (SUBSET Changes) \cup {None}]
  /\ wire \in SUBSET Post /\ stray \in SUBSET Post /\ built \in [Pages -> Nat]
  /\ remote \in Post \cup {[page |-> "none", n |-> 0, body |-> {}]}
  /\ fails \in 0..MaxFails
  \* One request of a page at a time, and none unless it is waiting for it.
  /\ \A p \in Pages :
       /\ Cardinality({m \in wire : m.page = p}) <= 1
       /\ stage[p] # "gone" =>
            (sync[p] \in {"waiting", "again"} <=> \E m \in wire : m.page = p)

Init ==
  /\ stage = [p \in Pages |-> "unopened"]
  /\ mem = [p \in Pages |-> {}] /\ local = {}
  /\ timer = [p \in Pages |-> FALSE] /\ dropped = [p \in Pages |-> FALSE]
  /\ sync = [p \in Pages |-> "idle"]
  /\ load = [p \in Pages |-> None]
  /\ wire = {} /\ stray = {} /\ built = [p \in Pages |-> 0]
  /\ remote = [page |-> "none", n |-> 0, body |-> {}]
  /\ fails = 0

syncVars == <<sync, wire, built>>
Alive(p) == stage[p] \in {"loading", "ready"}

-----------------------------------------------------------------------------
(* The page.                                                               *)

\* loadState, the first rendering, and loadRemoteState's request.  Nothing
\* sends what the browser kept until something changes.
Open(p) ==
  /\ stage[p] = "unopened"
  /\ stage' = [stage EXCEPT ![p] = "loading"]
  /\ mem' = [mem EXCEPT ![p] = local]
  /\ dropped' = [dropped EXCEPT ![p] = local # {}]
  /\ UNCHANGED <<timer, load, local, syncVars, remote, fails, stray>>

\* The answer replaces the page's state and the browser's, and what was
\* changed meanwhile with them.
TakeLoad(p) ==
  /\ stage[p] = "loading" /\ load[p] # None
  /\ stage' = [stage EXCEPT ![p] = "ready"]
  /\ mem' = [mem EXCEPT ![p] = load[p]] /\ local' = load[p]
  /\ dropped' = [dropped EXCEPT ![p] = @ \/ mem[p] # load[p]]
  /\ UNCHANGED <<timer, load, syncVars, remote, fails, stray>>

\* The request fails, or its answer is an error.
LoadFails(p) ==
  /\ stage[p] = "loading" /\ fails < MaxFails
  /\ fails' = fails + 1
  /\ stage' = [stage EXCEPT ![p] = "ready"]
  /\ UNCHANGED <<mem, timer, load, local, syncVars, remote, dropped, stray>>

\* Mutant of Change: a sync in flight is thought to bring it along.
ChangeRidesAlong(p, c) ==
  /\ Alive(p)
  /\ \A q \in Pages : c \notin mem[q] \cup local \cup remote.body
  /\ mem' = [mem EXCEPT ![p] = @ \cup {c}]
  /\ local' = mem[p] \cup {c}
  /\ timer' = [timer EXCEPT ![p] = @ \/ sync[p] = "idle"]
  /\ UNCHANGED <<stage, load, syncVars, remote, dropped, fails, stray>>

\* A change and saveState, which (re)starts the timer.
Change(p, c) ==
  /\ Alive(p)
  /\ \A q \in Pages : c \notin mem[q] \cup local \cup remote.body
  /\ \A m \in wire \cup stray : c \notin m.body
  /\ mem' = [mem EXCEPT ![p] = @ \cup {c}]
  /\ local' = mem[p] \cup {c}
  /\ timer' = [timer EXCEPT ![p] = TRUE]
  /\ UNCHANGED <<stage, load, syncVars, remote, dropped, fails, stray>>

\* fetch with buildPayload().
Send(p) ==
  /\ built' = [built EXCEPT ![p] = @ + 1]
  /\ wire' = wire \cup {[page |-> p, n |-> built[p] + 1, body |-> mem[p]]}
  /\ dropped' = [dropped EXCEPT ![p] = FALSE]

\* Mutant of Sync: without syncInFlight.
SyncRegardless(p) ==
  /\ timer[p]
  /\ timer' = [timer EXCEPT ![p] = FALSE]
  /\ Send(p) /\ sync' = [sync EXCEPT ![p] = "waiting"]
  /\ UNCHANGED <<stage, mem, load, local, remote, fails, stray>>

\* The timer: a sync that finds another in flight returns, and nobody calls
\* it again.
Sync(p) ==
  /\ timer[p]
  /\ timer' = [timer EXCEPT ![p] = FALSE]
  /\ \/ /\ sync[p] = "idle"
        /\ Send(p) /\ sync' = [sync EXCEPT ![p] = "waiting"]
     \/ /\ sync[p] # "idle"
        /\ dropped' = [dropped EXCEPT ![p] = TRUE]
        /\ UNCHANGED syncVars
  /\ UNCHANGED <<stage, mem, load, local, remote, fails, stray>>

\* After a 401 and a login the POST is built anew.
Retry(p) ==
  /\ sync[p] = "login"
  /\ Send(p) /\ sync' = [sync EXCEPT ![p] = "again"]
  /\ UNCHANGED <<stage, mem, timer, load, local, remote, fails, stray>>

\* The end of syncRemoteState, whatever the answer was.
Finish(p) ==
  /\ sync[p] = "answered"
  /\ sync' = [sync EXCEPT ![p] = "idle"]
  /\ UNCHANGED <<stage, mem, timer, load, local, wire, built, remote, dropped, fails, stray>>

\* The page is closed or reloaded: what it had sent stays on its way.
Leave(p) ==
  /\ Alive(p)
  /\ stage' = [stage EXCEPT ![p] = "gone"]
  /\ timer' = [timer EXCEPT ![p] = FALSE]
  /\ sync' = [sync EXCEPT ![p] = "idle"]
  /\ UNCHANGED <<mem, load, local, wire, built, remote, dropped, fails, stray>>

-----------------------------------------------------------------------------
(* The server.                                                             *)

\* handleGetDashboardState: a profile without a row has an empty state.
Get(p) ==
  /\ stage[p] = "loading" /\ load[p] = None
  /\ load' = [load EXCEPT ![p] = remote.body]
  /\ UNCHANGED <<stage, mem, timer, local, syncVars, remote, dropped, fails, stray>>

\* What a page hears of its POST; a page that is gone hears nothing.
Hears(m, s) ==
  sync' = [sync EXCEPT ![m.page] = IF stage[m.page] = "gone" THEN @ ELSE s]

\* Mutant of Save: the INSERT does nothing when there is a row.
SaveOnce(m) ==
  /\ m \in wire /\ wire' = wire \ {m}
  /\ remote' = IF remote.page = "none" THEN m ELSE remote
  /\ Hears(m, "answered")
  /\ UNCHANGED <<stage, mem, timer, load, local, built, dropped, fails, stray>>

\* handleSaveDashboardState.
Save(m) ==
  /\ m \in wire /\ wire' = wire \ {m}
  /\ remote' = m
  /\ Hears(m, "answered")
  /\ UNCHANGED <<stage, mem, timer, load, local, built, dropped, fails, stray>>

\* The login has expired: the first time, the page asks for the password.
Refuse(m) ==
  /\ m \in wire /\ wire' = wire \ {m}
  /\ fails < MaxFails /\ fails' = fails + 1
  /\ Hears(m, IF sync[m.page] = "waiting" THEN "login" ELSE "answered")
  /\ dropped' = [dropped EXCEPT ![m.page] = TRUE]
  /\ UNCHANGED <<stage, mem, timer, load, local, built, remote, stray>>

\* The page hears that its request has failed: it is lost, the store fails,
\* or it goes on without its page.  No one tries again.
Fail(m) ==
  /\ m \in wire /\ wire' = wire \ {m}
  /\ stray' \in {stray, stray \cup {m}}
  /\ fails < MaxFails /\ fails' = fails + 1
  /\ Hears(m, "answered")
  /\ dropped' = [dropped EXCEPT ![m.page] = TRUE]
  /\ UNCHANGED <<stage, mem, timer, load, local, built, remote>>

\* handleSaveDashboardState of such a request: it does not look at the
\* request's context.  If its page has nothing newer to send, what later
\* requests of it had brought is gone.
SaveLate(m) ==
  /\ m \in stray /\ stray' = stray \ {m}
  /\ remote' = m
  /\ dropped' = [dropped EXCEPT ![m.page] =
                   @ \/ (~timer[m.page] /\ sync[m.page] \notin {"waiting", "again"})]
  /\ UNCHANGED <<stage, mem, timer, load, local, syncVars, fails>>

-----------------------------------------------------------------------------
Next ==
  \/ \E p \in Pages :
       \/ Open(p) \/ TakeLoad(p) \/ LoadFails(p) \/ Get(p)
       \/ \E c \in Changes : Change(p, c)
       \/ Sync(p) \/ Retry(p) \/ Finish(p) \/ Leave(p)
  \/ \E m \in wire : Save(m) \/ Refuse(m) \/ Fail(m)
  \/ \E m \in stray : SaveLate(m)

Spec == Init /\ [][Next]_vars

\* Timers fire, requests are answered or fail, and await returns.  Nobody has
\* to log in.
Fairness ==
  /\ \A p \in Pages : WF_vars(Sync(p)) /\ WF_vars(Finish(p))
  /\ WF_vars(\E m \in wire : Save(m) \/ Refuse(m) \/ Fail(m))

FairSpec == Spec /\ Fairness

-----------------------------------------------------------------------------
(* Properties.                                                             *)

\* The row is the state of the page that wrote it last, unless the page has
\* something to send, or one of its changes was dropped: by a request that
\* failed, by one that failed and was stored late, by a sync that found
\* another in flight, by the initial load, or by a page that was closed
\* before this one was opened.
AgreeUnlessDropped ==
  \A p \in Pages :
    /\ remote.page = p /\ Alive(p)
    /\ ~timer[p] /\ sync[p] = "idle" /\ ~dropped[p]
    => remote.body = mem[p]

\* The payloads of a page are stored in the order it built them: an older one
\* replaces a newer one only if the page was told that it had failed.
OnlyStraysGoBack ==
  [][remote'.page = remote.page /\ remote'.n < remote.n => remote' \in stray]_vars

\* A change reaches the row unless it is dropped: by its page's leaving, by
\* the initial load, at a login that nobody does, or in one of the ways above.
ChangeArrives ==
  \A p \in Pages, c \in Changes :
    timer[p] /\ c \in mem[p]
      ~> \/ c \in remote.body \/ c \notin mem[p]
         \/ ~Alive(p) \/ sync[p] = "login" \/ dropped[p]
=============================================================================
