----------------------------- MODULE WebAccess ------------------------------
(***************************************************************************)
(* Who may open a terminal: TokenStore (internal/webterm/tokens.go),       *)
(* ConsoleAuth (auth.go), the handlers of server.go that use them, and the *)
(* cleanup ticker of cmd/bridge/main.go.                                   *)
(*                                                                         *)
(* Requests run concurrently.  UsePageToken, ResolveWSToken and            *)
(* CleanupExpired read the clock before they take s.mu, and IssueWSToken   *)
(* and StartSession compute an expiry before they do: each is two actions, *)
(* and the time may be old when the lock is had.  Console login is taken   *)
(* as enabled.  Nothing in the repository calls Issue, which makes page    *)
(* tokens; it is here as the store offers it to HandlePage.                *)
(***************************************************************************)
EXTENDS Integers

CONSTANTS
  Requests,    \* concurrent HTTP requests
  PageTokens,  \* the tokens Issue can make (a bound)
  WsTokens,    \* the tokens IssueWSToken and UsePageToken can make (a bound)
  SessionIds,  \* the session ids StartSession can make (a bound)
  TTL,         \* ttl of a token
  SessionTTL,  \* sessionTTL
  MaxTime,     \* bound: the last instant of the clock
  None

ASSUME TTLAssumption == TTL \in Nat \ {0} /\ SessionTTL \in Nat \ {0}
ASSUME BoundAssumption == MaxTime \in Nat
ASSUME NoneAssumption == None \notin Nat \cup PageTokens \cup WsTokens \cup SessionIds
ASSUME KindsAssumption ==  \* newToken makes no string twice, whatever for
  PageTokens \cap WsTokens = {} /\ PageTokens \cap SessionIds = {} /\ WsTokens \cap SessionIds = {}

VARIABLES
  now,         \* time.Now()
  pageTokens,  \* s.pageTokens: token -> expiresAt and wsToken
  wsTokens,    \* s.wsTokens: token -> expiresAt
  sessions,    \* a.sessions: id -> expiresAt
  pc,          \* request -> where it is
  arg,         \* request -> the token or session id it presents, or None
  at,          \* request -> the time it has read or the expiry it will store
  cleaning,    \* the time CleanupExpired has read, or None
  made,        \* tokens and ids made so far (newToken never makes one twice)
  handed,      \* history variable: page token -> the web-socket tokens given for it
  refused      \* history variable: what was refused, as expired or unknown

stores == <<pageTokens, wsTokens, sessions>>
requests == <<pc, arg, at>>
vars == <<now, stores, requests, cleaning, made, handed, refused>>

Tokens == PageTokens \cup WsTokens \cup SessionIds
Times == 0 .. MaxTime + TTL + SessionTTL

\* tokenEntry of a page token; `used` is set together with wsToken.
PageEntry == [expiresAt : Times, wsToken : WsTokens \cup {None}]

TypeOK ==
  /\ now \in 0..MaxTime
  /\ DOMAIN pageTokens \subseteq PageTokens /\ \A t \in DOMAIN pageTokens : pageTokens[t] \in PageEntry
  /\ DOMAIN wsTokens \subseteq WsTokens /\ \A t \in DOMAIN wsTokens : wsTokens[t] \in Times
  /\ DOMAIN sessions \subseteq SessionIds /\ \A t \in DOMAIN sessions : sessions[t] \in Times
  /\ pc \in [Requests -> {"idle", "page", "given", "ws", "open", "login", "issue", "store"}]
  /\ arg \in [Requests -> Tokens \cup {None}]
  /\ at \in [Requests -> Times]
  /\ cleaning \in 0..MaxTime \cup {None}
  /\ made \subseteq Tokens
  /\ handed \in [PageTokens -> SUBSET WsTokens]
  /\ refused \subseteq Tokens

Init ==
  /\ now = 0
  /\ pageTokens = <<>> /\ wsTokens = <<>> /\ sessions = <<>>
  /\ pc = [r \in Requests |-> "idle"]
  /\ arg = [r \in Requests |-> None]
  /\ at = [r \in Requests |-> 0]
  /\ cleaning = None
  /\ made = {}
  /\ handed = [t \in PageTokens |-> {}]
  /\ refused = {}

Put(f, k, v) == [x \in DOMAIN f \cup {k} |-> IF x = k THEN v ELSE f[x]]
Drop(f, S) == [x \in DOMAIN f \ S |-> f[x]]

Tick ==
  /\ now < MaxTime
  /\ now' = now + 1
  /\ UNCHANGED <<stores, requests, cleaning, made, handed, refused>>

\* A request moves to p, presenting k, with time t in hand.
Move(r, p, k, t) ==
  /\ pc' = [pc EXCEPT ![r] = p]
  /\ arg' = [arg EXCEPT ![r] = k]
  /\ at' = [at EXCEPT ![r] = t]

Finish(r) == Move(r, "idle", None, 0)

\* The request is refused; what it presented is remembered as refused.
Refuse(r) == Finish(r) /\ refused' = refused \cup {arg[r]}

-----------------------------------------------------------------------------
(* Page tokens: Issue and HandlePage with UsePageToken.                    *)

Issue(t) ==
  /\ t \notin made /\ made' = made \cup {t}
  /\ pageTokens' = Put(pageTokens, t, [expiresAt |-> now + TTL, wsToken |-> None])
  /\ UNCHANGED <<now, wsTokens, sessions, requests, cleaning, handed, refused>>

PageStart(r, t) ==
  /\ pc[r] = "idle" /\ t \in made
  /\ Move(r, "page", t, now)
  /\ UNCHANGED <<now, stores, cleaning, made, handed, refused>>

PageMissing(r) ==
  /\ pc[r] = "page" /\ arg[r] \notin DOMAIN pageTokens
  /\ Refuse(r)
  /\ UNCHANGED <<now, stores, cleaning, made, handed>>

PageExpired(r) ==
  /\ pc[r] = "page" /\ arg[r] \in DOMAIN pageTokens
  /\ at[r] > pageTokens[arg[r]].expiresAt
  /\ pageTokens' = Drop(pageTokens, {arg[r]})
  /\ Refuse(r)
  /\ UNCHANGED <<now, wsTokens, sessions, cleaning, made, handed>>

\* The request has found a page token that is not expired.
PageFound(r) ==
  /\ pc[r] = "page" /\ arg[r] \in DOMAIN pageTokens
  /\ at[r] <= pageTokens[arg[r]].expiresAt

\* A page token used before gives the same web-socket token.
PageAgain(r) ==
  /\ PageFound(r) /\ pageTokens[arg[r]].wsToken # None
  /\ handed' = [handed EXCEPT ![arg[r]] = @ \cup {pageTokens[arg[r]].wsToken}]
  /\ Move(r, "given", arg[r], at[r])
  /\ UNCHANGED <<now, stores, cleaning, made, refused>>

\* Mutants of PageFirst: the page's own token is kept in the place of the new
\* one; the page token is not marked as used.
PageFirstSwapped(r, w) ==
  /\ PageFound(r) /\ pageTokens[arg[r]].wsToken = None
  /\ w \notin made /\ made' = made \cup {w}
  /\ pageTokens' = [pageTokens EXCEPT ![arg[r]].wsToken = arg[r]]
  /\ wsTokens' = Put(wsTokens, w, pageTokens[arg[r]].expiresAt)
  /\ handed' = [handed EXCEPT ![arg[r]] = @ \cup {w}]
  /\ Move(r, "given", arg[r], at[r])
  /\ UNCHANGED <<now, sessions, cleaning, refused>>

PageFirstUnmarked(r, w) ==
  /\ PageFound(r) /\ pageTokens[arg[r]].wsToken = None
  /\ w \notin made /\ made' = made \cup {w}
  /\ wsTokens' = Put(wsTokens, w, pageTokens[arg[r]].expiresAt)
  /\ handed' = [handed EXCEPT ![arg[r]] = @ \cup {w}]
  /\ Move(r, "given", arg[r], at[r])
  /\ UNCHANGED <<now, pageTokens, sessions, cleaning, refused>>

\* The first use makes the web-socket token, which expires with the page's.
PageFirst(r, w) ==
  /\ PageFound(r) /\ pageTokens[arg[r]].wsToken = None
  /\ w \notin made /\ made' = made \cup {w}
  /\ pageTokens' = [pageTokens EXCEPT ![arg[r]].wsToken = w]
  /\ wsTokens' = Put(wsTokens, w, pageTokens[arg[r]].expiresAt)
  /\ handed' = [handed EXCEPT ![arg[r]] = @ \cup {w}]
  /\ Move(r, "given", arg[r], at[r])
  /\ UNCHANGED <<now, sessions, cleaning, refused>>

-----------------------------------------------------------------------------
(* Web-socket tokens: HandleIssueWSToken and HandleWS with ResolveWSToken. *)

\* IsAuthenticated: a.mu is held throughout, the expired sessions go first.
Live(s) == s \in DOMAIN sessions /\ now < sessions[s]

Sweep == sessions' = Drop(sessions, {s \in DOMAIN sessions : now > sessions[s]})

IssueAllowed(r, s) ==
  /\ pc[r] = "idle" /\ s \in made /\ Live(s)
  /\ Sweep
  /\ Move(r, "issue", s, 0)
  /\ UNCHANGED <<now, pageTokens, wsTokens, cleaning, made, handed, refused>>

IssueDenied(r, s) ==
  /\ pc[r] = "idle" /\ s \in made /\ ~Live(s)
  /\ Sweep
  /\ refused' = refused \cup {s}
  /\ UNCHANGED <<now, pageTokens, wsTokens, requests, cleaning, made, handed>>

\* IssueWSToken, before and in its lock region.
IssueStamp(r) ==
  /\ pc[r] = "issue"
  /\ Move(r, "store", arg[r], now + TTL)
  /\ UNCHANGED <<now, stores, cleaning, made, handed, refused>>

IssueStore(r, w) ==
  /\ pc[r] = "store"
  /\ w \notin made /\ made' = made \cup {w}
  /\ wsTokens' = Put(wsTokens, w, at[r])
  /\ Finish(r)
  /\ UNCHANGED <<now, pageTokens, sessions, cleaning, handed, refused>>

WsStart(r, w) ==
  /\ pc[r] = "idle" /\ w \in made
  /\ Move(r, "ws", w, now)
  /\ UNCHANGED <<now, stores, cleaning, made, handed, refused>>

WsMissing(r) ==
  /\ pc[r] = "ws" /\ arg[r] \notin DOMAIN wsTokens
  /\ Refuse(r)
  /\ UNCHANGED <<now, stores, cleaning, made, handed>>

\* Mutant of WsExpired: the expired token stays in the map.
WsExpiredKept(r) ==
  /\ pc[r] = "ws" /\ arg[r] \in DOMAIN wsTokens /\ at[r] > wsTokens[arg[r]]
  /\ Refuse(r)
  /\ UNCHANGED <<now, stores, cleaning, made, handed>>

WsExpired(r) ==
  /\ pc[r] = "ws" /\ arg[r] \in DOMAIN wsTokens /\ at[r] > wsTokens[arg[r]]
  /\ wsTokens' = Drop(wsTokens, {arg[r]})
  /\ Refuse(r)
  /\ UNCHANGED <<now, pageTokens, sessions, cleaning, made, handed>>

WsAccept(r) ==
  /\ pc[r] = "ws" /\ arg[r] \in DOMAIN wsTokens /\ at[r] <= wsTokens[arg[r]]
  /\ Move(r, "open", arg[r], at[r])
  /\ UNCHANGED <<now, stores, cleaning, made, handed, refused>>

\* The page has been sent, or the terminal closed.
Done(r) ==
  /\ pc[r] \in {"given", "open"}
  /\ Finish(r)
  /\ UNCHANGED <<now, stores, cleaning, made, handed, refused>>

-----------------------------------------------------------------------------
(* Console sessions and the cleanup.                                       *)

\* HandleLogin with the right password; the expiry is computed before a.mu.
LoginStamp(r) ==
  /\ pc[r] = "idle"
  /\ Move(r, "login", None, now + SessionTTL)
  /\ UNCHANGED <<now, stores, cleaning, made, handed, refused>>

LoginStore(r, s) ==
  /\ pc[r] = "login"
  /\ s \notin made /\ made' = made \cup {s}
  /\ sessions' = Put(sessions, s, at[r])
  /\ Finish(r)
  /\ UNCHANGED <<now, pageTokens, wsTokens, cleaning, handed, refused>>

\* newToken fails: the request ends with nothing stored.
MakeFails(r) ==
  /\ \/ PageFound(r) /\ pageTokens[arg[r]].wsToken = None
     \/ pc[r] = "issue"
  /\ Finish(r)
  /\ UNCHANGED <<now, stores, cleaning, made, handed, refused>>

\* HandleLogout, with or without a session that is still there.
Logout(s) ==
  /\ s \in made
  /\ sessions' = Drop(sessions, {s})
  /\ refused' = refused \cup {s}
  /\ UNCHANGED <<now, pageTokens, wsTokens, requests, cleaning, made, handed>>

\* The ticker calls CleanupExpired, which reads the clock, then locks s.mu.
CleanStart ==
  /\ cleaning = None
  /\ cleaning' = now
  /\ UNCHANGED <<now, stores, requests, made, handed, refused>>

\* Mutants of CleanRun: a web-socket token goes an instant early; web-socket
\* tokens are left to those who present them.
CleanEarly ==
  /\ cleaning # None
  /\ pageTokens' = Drop(pageTokens, {t \in DOMAIN pageTokens : cleaning > pageTokens[t].expiresAt})
  /\ wsTokens' = Drop(wsTokens, {t \in DOMAIN wsTokens : cleaning >= wsTokens[t]})
  /\ cleaning' = None
  /\ UNCHANGED <<now, sessions, requests, made, handed, refused>>

CleanPagesOnly ==
  /\ cleaning # None
  /\ pageTokens' = Drop(pageTokens, {t \in DOMAIN pageTokens : cleaning > pageTokens[t].expiresAt})
  /\ cleaning' = None
  /\ UNCHANGED <<now, wsTokens, sessions, requests, made, handed, refused>>

CleanRun ==
  /\ cleaning # None
  /\ pageTokens' = Drop(pageTokens, {t \in DOMAIN pageTokens : cleaning > pageTokens[t].expiresAt})
  /\ wsTokens' = Drop(wsTokens, {t \in DOMAIN wsTokens : cleaning > wsTokens[t]})
  /\ cleaning' = None
  /\ UNCHANGED <<now, sessions, requests, made, handed, refused>>

Page(r) ==
  \/ PageMissing(r) \/ PageExpired(r) \/ PageAgain(r) \/ MakeFails(r) \/ Done(r)
  \/ \E w \in WsTokens : PageFirst(r, w)

Ws(r) ==
  \/ WsMissing(r) \/ WsExpired(r) \/ WsAccept(r) \/ IssueStamp(r)
  \/ \E w \in WsTokens : WsStart(r, w) \/ IssueStore(r, w)

Console(r) ==
  \/ LoginStamp(r)
  \/ \E s \in SessionIds : LoginStore(r, s) \/ IssueAllowed(r, s) \/ IssueDenied(r, s)

Next ==
  \/ Tick \/ CleanStart \/ CleanRun
  \/ \E t \in PageTokens : Issue(t) \/ \E r \in Requests : PageStart(r, t)
  \/ \E r \in Requests : Page(r) \/ Ws(r) \/ Console(r)
  \/ \E s \in SessionIds : Logout(s)

Spec == Init /\ [][Next]_vars

\* Time passes, and the ticker's goroutine keeps running.
FairSpec == Spec /\ WF_vars(Tick) /\ WF_vars(CleanStart) /\ WF_vars(CleanRun)

-----------------------------------------------------------------------------
(* Properties.                                                             *)

\* A page token opens one terminal: however often and however concurrently a
\* page is loaded, before and after cleanups, it gets one web-socket token,
\* and no other page gets that one.
OneTerminalPerPage ==
  /\ \A t \in PageTokens : \A v, w \in handed[t] : v = w
  /\ \A t, u \in PageTokens : t # u => handed[t] \cap handed[u] = {}

\* The link a page gets again still opens, unless it has expired: no cleanup
\* and no request takes the web-socket token away earlier than the page's.
LinkWorksWhilePageDoes ==
  \A t \in DOMAIN pageTokens :
    LET w == pageTokens[t].wsToken
    IN w # None /\ w \notin DOMAIN wsTokens => now > pageTokens[t].expiresAt

\* Refusal is final: a token or session once refused is not accepted later,
\* not even by a request that read the clock before the other one did.
RefusalIsFinal ==
  [][\A r \in Requests :
       pc'[r] # pc[r] /\ pc'[r] \in {"given", "open", "issue"} => arg'[r] \notin refused]_vars

\* Expired tokens do not pile up, presented again or not.
ExpiredIsForgotten ==
  /\ \A t \in PageTokens :
       t \in DOMAIN pageTokens /\ now < MaxTime - TTL ~> t \notin DOMAIN pageTokens
  /\ \A t \in WsTokens :
       t \in DOMAIN wsTokens /\ now < MaxTime - TTL ~> t \notin DOMAIN wsTokens
=============================================================================
