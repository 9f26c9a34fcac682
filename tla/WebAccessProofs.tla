---------------------------- MODULE WebAccessProofs ----------------------------
(***************************************************************************)
(* Proofs about WebAccess, for any number of requests, tokens and console  *)
(* sessions, any time to live and any end of the clock.                    *)
(***************************************************************************)
EXTENDS WebAccess, TLAPS

\* Requests present what was made for their kind, with a time that has come.
RequestInv ==
  /\ \A r \in Requests :
       /\ pc[r] \in {"page", "given"} => arg[r] \in PageTokens \cap made /\ at[r] <= now
       /\ pc[r] \in {"ws", "open"} => arg[r] \in WsTokens \cap made /\ at[r] <= now
  /\ cleaning # None => cleaning <= now

\* What the stores hold was made, and what is refused too.
MadeInv ==
  DOMAIN pageTokens \cup DOMAIN wsTokens \cup DOMAIN sessions \cup refused \subseteq made

\* Every step keeps the types.
LEMMA TypeStep ==
  ASSUME TypeOK, RequestInv, MadeInv, [Next]_vars
  PROVE  TypeOK'
<1> USE NoneAssumption, KindsAssumption, TTLAssumption, BoundAssumption
    DEF TypeOK, RequestInv, MadeInv, Times, Tokens, PageEntry, stores, requests, Put, Drop,
          Move, Finish, Refuse, PageFound, Sweep, Live
<1>1. CASE Tick
  BY <1>1 DEF Tick
<1>2. CASE CleanStart
  BY <1>2 DEF CleanStart
<1>3. CASE CleanRun
  BY <1>3 DEF CleanRun
<1>4. ASSUME NEW t \in PageTokens, Issue(t)
      PROVE  TypeOK'
  BY <1>4 DEF Issue
<1>5. ASSUME NEW r \in Requests, NEW t \in PageTokens, PageStart(r, t)
      PROVE  TypeOK'
  BY <1>5 DEF PageStart
<1>6. ASSUME NEW r \in Requests, PageMissing(r)
      PROVE  TypeOK'
  BY <1>6 DEF PageMissing
<1>7. ASSUME NEW r \in Requests, PageExpired(r)
      PROVE  TypeOK'
  BY <1>7 DEF PageExpired
<1>8. ASSUME NEW r \in Requests, PageAgain(r)
      PROVE  TypeOK'
  BY <1>8 DEF PageAgain
<1>9. ASSUME NEW r \in Requests, MakeFails(r)
      PROVE  TypeOK'
  BY <1>9 DEF MakeFails
<1>10. ASSUME NEW r \in Requests, Done(r)
      PROVE  TypeOK'
  BY <1>10 DEF Done
<1>11. ASSUME NEW r \in Requests, NEW w \in WsTokens, PageFirst(r, w)
      PROVE  TypeOK'
  BY <1>11 DEF PageFirst
<1>12. ASSUME NEW r \in Requests, WsMissing(r)
      PROVE  TypeOK'
  BY <1>12 DEF WsMissing
<1>13. ASSUME NEW r \in Requests, WsExpired(r)
      PROVE  TypeOK'
  BY <1>13 DEF WsExpired
<1>14. ASSUME NEW r \in Requests, WsAccept(r)
      PROVE  TypeOK'
  BY <1>14 DEF WsAccept
<1>15. ASSUME NEW r \in Requests, IssueStamp(r)
      PROVE  TypeOK'
  BY <1>15 DEF IssueStamp
<1>16. ASSUME NEW r \in Requests, NEW w \in WsTokens, WsStart(r, w)
      PROVE  TypeOK'
  BY <1>16 DEF WsStart
<1>17. ASSUME NEW r \in Requests, NEW w \in WsTokens, IssueStore(r, w)
      PROVE  TypeOK'
  BY <1>17 DEF IssueStore
<1>18. ASSUME NEW r \in Requests, LoginStamp(r)
      PROVE  TypeOK'
  BY <1>18 DEF LoginStamp
<1>19. ASSUME NEW r \in Requests, NEW s \in SessionIds, LoginStore(r, s)
      PROVE  TypeOK'
  BY <1>19 DEF LoginStore
<1>20. ASSUME NEW r \in Requests, NEW s \in SessionIds, IssueAllowed(r, s)
      PROVE  TypeOK'
  BY <1>20 DEF IssueAllowed
<1>21. ASSUME NEW r \in Requests, NEW s \in SessionIds, IssueDenied(r, s)
      PROVE  TypeOK'
  BY <1>21 DEF IssueDenied
<1>22. ASSUME NEW s \in SessionIds, Logout(s)
      PROVE  TypeOK'
  BY <1>22 DEF Logout
<1>23. CASE UNCHANGED vars
  BY <1>23 DEF vars
<1> QED
  BY <1>1, <1>2, <1>3, <1>4, <1>5, <1>6, <1>7, <1>8, <1>9, <1>10, <1>11,
     <1>12, <1>13, <1>14, <1>15, <1>16, <1>17, <1>18, <1>19, <1>20, <1>21, <1>22,
     <1>23
  DEF Next, Page, Ws, Console

\* Every step keeps requests in order.
LEMMA RequestStep ==
  ASSUME TypeOK, RequestInv, [Next]_vars
  PROVE  RequestInv'
<1> USE NoneAssumption, KindsAssumption, TTLAssumption, BoundAssumption
    DEF TypeOK, RequestInv, Times, Tokens, stores, requests, Put, Drop, Move, Finish, Refuse,
          PageFound, Sweep, Live
<1>1. CASE Tick
  BY <1>1 DEF Tick
<1>2. CASE CleanStart
  BY <1>2 DEF CleanStart
<1>3. CASE CleanRun
  BY <1>3 DEF CleanRun
<1>4. ASSUME NEW t \in PageTokens, Issue(t)
      PROVE  RequestInv'
  BY <1>4 DEF Issue
<1>5. ASSUME NEW r \in Requests, NEW t \in PageTokens, PageStart(r, t)
      PROVE  RequestInv'
  BY <1>5 DEF PageStart
<1>6. ASSUME NEW r \in Requests, PageMissing(r)
      PROVE  RequestInv'
  BY <1>6 DEF PageMissing
<1>7. ASSUME NEW r \in Requests, PageExpired(r)
      PROVE  RequestInv'
  BY <1>7 DEF PageExpired
<1>8. ASSUME NEW r \in Requests, PageAgain(r)
      PROVE  RequestInv'
  BY <1>8 DEF PageAgain
<1>9. ASSUME NEW r \in Requests, MakeFails(r)
      PROVE  RequestInv'
  BY <1>9 DEF MakeFails
<1>10. ASSUME NEW r \in Requests, Done(r)
      PROVE  RequestInv'
  BY <1>10 DEF Done
<1>11. ASSUME NEW r \in Requests, NEW w \in WsTokens, PageFirst(r, w)
      PROVE  RequestInv'
  BY <1>11 DEF PageFirst
<1>12. ASSUME NEW r \in Requests, WsMissing(r)
      PROVE  RequestInv'
  BY <1>12 DEF WsMissing
<1>13. ASSUME NEW r \in Requests, WsExpired(r)
      PROVE  RequestInv'
  BY <1>13 DEF WsExpired
<1>14. ASSUME NEW r \in Requests, WsAccept(r)
      PROVE  RequestInv'
  BY <1>14 DEF WsAccept
<1>15. ASSUME NEW r \in Requests, IssueStamp(r)
      PROVE  RequestInv'
  BY <1>15 DEF IssueStamp
<1>16. ASSUME NEW r \in Requests, NEW w \in WsTokens, WsStart(r, w)
      PROVE  RequestInv'
  BY <1>16 DEF WsStart
<1>17. ASSUME NEW r \in Requests, NEW w \in WsTokens, IssueStore(r, w)
      PROVE  RequestInv'
  BY <1>17 DEF IssueStore
<1>18. ASSUME NEW r \in Requests, LoginStamp(r)
      PROVE  RequestInv'
  BY <1>18 DEF LoginStamp
<1>19. ASSUME NEW r \in Requests, NEW s \in SessionIds, LoginStore(r, s)
      PROVE  RequestInv'
  BY <1>19 DEF LoginStore
<1>20. ASSUME NEW r \in Requests, NEW s \in SessionIds, IssueAllowed(r, s)
      PROVE  RequestInv'
  BY <1>20 DEF IssueAllowed
<1>21. ASSUME NEW r \in Requests, NEW s \in SessionIds, IssueDenied(r, s)
      PROVE  RequestInv'
  BY <1>21 DEF IssueDenied
<1>22. ASSUME NEW s \in SessionIds, Logout(s)
      PROVE  RequestInv'
  BY <1>22 DEF Logout
<1>23. CASE UNCHANGED vars
  BY <1>23 DEF vars
<1> QED
  BY <1>1, <1>2, <1>3, <1>4, <1>5, <1>6, <1>7, <1>8, <1>9, <1>10, <1>11,
     <1>12, <1>13, <1>14, <1>15, <1>16, <1>17, <1>18, <1>19, <1>20, <1>21, <1>22,
     <1>23
  DEF Next, Page, Ws, Console

\* Every step stores and refuses only what was made.
LEMMA MadeStep ==
  ASSUME TypeOK, RequestInv, MadeInv, [Next]_vars
  PROVE  MadeInv'
<1> USE NoneAssumption, KindsAssumption, TTLAssumption, BoundAssumption
    DEF TypeOK, RequestInv, MadeInv, Tokens, stores, requests, Put, Drop, Move, Finish,
          Refuse, PageFound, Sweep, Live
<1>1. CASE Tick
  BY <1>1 DEF Tick
<1>2. CASE CleanStart
  BY <1>2 DEF CleanStart
<1>3. CASE CleanRun
  BY <1>3 DEF CleanRun
<1>4. ASSUME NEW t \in PageTokens, Issue(t)
      PROVE  MadeInv'
  BY <1>4 DEF Issue
<1>5. ASSUME NEW r \in Requests, NEW t \in PageTokens, PageStart(r, t)
      PROVE  MadeInv'
  BY <1>5 DEF PageStart
<1>6. ASSUME NEW r \in Requests, PageMissing(r)
      PROVE  MadeInv'
  BY <1>6 DEF PageMissing
<1>7. ASSUME NEW r \in Requests, PageExpired(r)
      PROVE  MadeInv'
  BY <1>7 DEF PageExpired
<1>8. ASSUME NEW r \in Requests, PageAgain(r)
      PROVE  MadeInv'
  BY <1>8 DEF PageAgain
<1>9. ASSUME NEW r \in Requests, MakeFails(r)
      PROVE  MadeInv'
  BY <1>9 DEF MakeFails
<1>10. ASSUME NEW r \in Requests, Done(r)
      PROVE  MadeInv'
  BY <1>10 DEF Done
<1>11. ASSUME NEW r \in Requests, NEW w \in WsTokens, PageFirst(r, w)
      PROVE  MadeInv'
  BY <1>11 DEF PageFirst
<1>12. ASSUME NEW r \in Requests, WsMissing(r)
      PROVE  MadeInv'
  BY <1>12 DEF WsMissing
<1>13. ASSUME NEW r \in Requests, WsExpired(r)
      PROVE  MadeInv'
  BY <1>13 DEF WsExpired
<1>14. ASSUME NEW r \in Requests, WsAccept(r)
      PROVE  MadeInv'
  BY <1>14 DEF WsAccept
<1>15. ASSUME NEW r \in Requests, IssueStamp(r)
      PROVE  MadeInv'
  BY <1>15 DEF IssueStamp
<1>16. ASSUME NEW r \in Requests, NEW w \in WsTokens, WsStart(r, w)
      PROVE  MadeInv'
  BY <1>16 DEF WsStart
<1>17. ASSUME NEW r \in Requests, NEW w \in WsTokens, IssueStore(r, w)
      PROVE  MadeInv'
  BY <1>17 DEF IssueStore
<1>18. ASSUME NEW r \in Requests, LoginStamp(r)
      PROVE  MadeInv'
  BY <1>18 DEF LoginStamp
<1>19. ASSUME NEW r \in Requests, NEW s \in SessionIds, LoginStore(r, s)
      PROVE  MadeInv'
  BY <1>19 DEF LoginStore
<1>20. ASSUME NEW r \in Requests, NEW s \in SessionIds, IssueAllowed(r, s)
      PROVE  MadeInv'
  BY <1>20 DEF IssueAllowed
<1>21. ASSUME NEW r \in Requests, NEW s \in SessionIds, IssueDenied(r, s)
      PROVE  MadeInv'
  BY <1>21 DEF IssueDenied
<1>22. ASSUME NEW s \in SessionIds, Logout(s)
      PROVE  MadeInv'
  BY <1>22 DEF Logout
<1>23. CASE UNCHANGED vars
  BY <1>23 DEF vars
<1> QED
  BY <1>1, <1>2, <1>3, <1>4, <1>5, <1>6, <1>7, <1>8, <1>9, <1>10, <1>11,
     <1>12, <1>13, <1>14, <1>15, <1>16, <1>17, <1>18, <1>19, <1>20, <1>21, <1>22,
     <1>23
  DEF Next, Page, Ws, Console

\* What a page was given: its own web-socket token, which no other page has
\* and which expires with it.
HandedInv ==
  /\ \A t \in PageTokens : handed[t] \subseteq made /\ (t \notin made => handed[t] = {})
  /\ \A t \in DOMAIN pageTokens :
       LET w == pageTokens[t].wsToken
       IN /\ handed[t] = IF w = None THEN {} ELSE {w}
          /\ w \in DOMAIN wsTokens => wsTokens[w] = pageTokens[t].expiresAt

Shape == TypeOK /\ RequestInv /\ MadeInv

\* A page loaded again gets what it has.
LEMMA AgainAddsNothing ==
  ASSUME Shape, HandedInv, NEW r \in Requests, PageAgain(r)
  PROVE  UNCHANGED <<handed, pageTokens, wsTokens, made, now>>
<1> DEFINE a == arg[r]
           w == pageTokens[a].wsToken
<1>1. a \in PageTokens /\ a \in DOMAIN pageTokens /\ w # None
  BY DEF Shape, RequestInv, PageAgain, PageFound
<1>2. handed[a] = {w}
  BY <1>1 DEF HandedInv
<1>3. handed' = [handed EXCEPT ![a] = handed[a] \cup {w}] /\ handed \in [PageTokens -> SUBSET WsTokens]
  BY DEF Shape, TypeOK, PageAgain
<1>4. handed' = handed
  BY <1>2, <1>3
<1> QED
  BY <1>4 DEF PageAgain, stores

\* A page loaded for the first time gets a token nobody had, and nothing
\* else changes.
LEMMA FirstIsNew ==
  ASSUME Shape, HandedInv, NEW r \in Requests, NEW w \in WsTokens, PageFirst(r, w)
  PROVE  \E a \in PageTokens \cap DOMAIN pageTokens :
           /\ a \in made /\ handed[a] = {} /\ pageTokens[a].wsToken = None
           /\ DOMAIN pageTokens' = DOMAIN pageTokens
           /\ \A t \in DOMAIN pageTokens \ {a} : pageTokens'[t] = pageTokens[t]
           /\ pageTokens'[a].wsToken = w /\ pageTokens'[a].expiresAt = pageTokens[a].expiresAt
           /\ wsTokens' = Put(wsTokens, w, pageTokens[a].expiresAt)
           /\ handed'[a] = {w} /\ \A t \in PageTokens \ {a} : handed'[t] = handed[t]
           /\ w \notin made /\ made' = made \cup {w} /\ now' = now
<1> DEFINE a == arg[r]
<1>1. a \in PageTokens /\ a \in DOMAIN pageTokens /\ a \in made /\ pageTokens[a] \in PageEntry
  BY DEF Shape, TypeOK, RequestInv, PageFirst, PageFound
<1>2. pageTokens[a].wsToken = None /\ handed[a] = {}
  BY <1>1 DEF HandedInv, PageFirst
<1>3. pageTokens' = [pageTokens EXCEPT ![a].wsToken = w]
  BY DEF PageFirst
<1>4. /\ DOMAIN pageTokens' = DOMAIN pageTokens
      /\ \A t \in DOMAIN pageTokens \ {a} : pageTokens'[t] = pageTokens[t]
      /\ pageTokens'[a] = [pageTokens[a] EXCEPT !.wsToken = w]
  BY <1>1, <1>3
<1>5. pageTokens'[a].wsToken = w /\ pageTokens'[a].expiresAt = pageTokens[a].expiresAt
  BY <1>1, <1>4 DEF PageEntry
<1>6. handed' = [handed EXCEPT ![a] = handed[a] \cup {w}] /\ handed \in [PageTokens -> SUBSET WsTokens]
  BY DEF Shape, TypeOK, PageFirst
<1>7. handed'[a] = {w} /\ \A t \in PageTokens \ {a} : handed'[t] = handed[t]
  BY <1>1, <1>2, <1>6
<1>8. /\ wsTokens' = Put(wsTokens, w, pageTokens[a].expiresAt)
      /\ w \notin made /\ made' = made \cup {w} /\ now' = now
  BY DEF PageFirst
<1> QED
  BY <1>1, <1>2, <1>4, <1>5, <1>7, <1>8

\* Every step keeps each page with its own web-socket token.
LEMMA HandedStep ==
  ASSUME Shape, HandedInv, [Next]_vars
  PROVE  HandedInv'
<1> USE DEF stores, HandedInv
<1>1. CASE Tick
  BY <1>1 DEF Tick
<1>2. CASE CleanStart
  BY <1>2 DEF CleanStart
<1>3. CASE CleanRun
  BY <1>3, NoneAssumption DEF CleanRun, Drop
<1>4. ASSUME NEW t \in PageTokens, Issue(t)
      PROVE  HandedInv'
  BY <1>4, NoneAssumption DEF Issue, Put, Shape, TypeOK, MadeInv
<1>5. ASSUME NEW r \in Requests, NEW t \in PageTokens, PageStart(r, t)
      PROVE  HandedInv'
  BY <1>5 DEF PageStart
<1>6. ASSUME NEW r \in Requests, PageMissing(r)
      PROVE  HandedInv'
  BY <1>6 DEF PageMissing
<1>7. ASSUME NEW r \in Requests, PageExpired(r)
      PROVE  HandedInv'
  BY <1>7, NoneAssumption DEF PageExpired, Drop
<1>8. ASSUME NEW r \in Requests, PageAgain(r)
      PROVE  HandedInv'
  BY <1>8, AgainAddsNothing
<1>9. ASSUME NEW r \in Requests, MakeFails(r)
      PROVE  HandedInv'
  BY <1>9 DEF MakeFails
<1>10. ASSUME NEW r \in Requests, Done(r)
      PROVE  HandedInv'
  BY <1>10 DEF Done
<1>11. ASSUME NEW r \in Requests, NEW w \in WsTokens, PageFirst(r, w)
      PROVE  HandedInv'
  <2>1. PICK a \in PageTokens \cap DOMAIN pageTokens :
           /\ a \in made /\ handed[a] = {} /\ pageTokens[a].wsToken = None
           /\ DOMAIN pageTokens' = DOMAIN pageTokens
           /\ \A t \in DOMAIN pageTokens \ {a} : pageTokens'[t] = pageTokens[t]
           /\ pageTokens'[a].wsToken = w /\ pageTokens'[a].expiresAt = pageTokens[a].expiresAt
           /\ wsTokens' = Put(wsTokens, w, pageTokens[a].expiresAt)
           /\ handed'[a] = {w} /\ \A t \in PageTokens \ {a} : handed'[t] = handed[t]
           /\ w \notin made /\ made' = made \cup {w} /\ now' = now
    BY <1>11, FirstIsNew
  <2>2. \A t \in DOMAIN pageTokens \ {a} : pageTokens[t].wsToken # w
    BY <2>1, NoneAssumption, ZenonT(40) DEF Shape, TypeOK, HandedInv
  <2>3. \A t \in PageTokens : handed'[t] \subseteq made' /\ (t \notin made' => handed'[t] = {})
    BY <2>1 DEF HandedInv
  <2>4. ASSUME NEW t \in DOMAIN pageTokens'
        PROVE  /\ handed'[t] = IF pageTokens'[t].wsToken = None THEN {} ELSE {pageTokens'[t].wsToken}
               /\ pageTokens'[t].wsToken \in DOMAIN wsTokens' =>
                    wsTokens'[pageTokens'[t].wsToken] = pageTokens'[t].expiresAt
    <3>1. CASE t = a
      BY <2>1, <3>1, NoneAssumption DEF Put
    <3>2. CASE t # a
      <4>1. t \in DOMAIN pageTokens /\ t \in PageTokens /\ pageTokens'[t] = pageTokens[t] /\ handed'[t] = handed[t]
        BY <2>1, <3>2 DEF Shape, TypeOK
      <4>2. pageTokens[t].wsToken # w
        BY <2>2, <3>2, <4>1
      <4> QED
        BY <2>1, <4>1, <4>2, ZenonT(40) DEF HandedInv, Put
    <3> QED
      BY <3>1, <3>2
  <2> QED
    BY <2>3, <2>4 DEF HandedInv
<1>12. ASSUME NEW r \in Requests, WsMissing(r)
      PROVE  HandedInv'
  BY <1>12 DEF WsMissing
<1>13. ASSUME NEW r \in Requests, WsExpired(r)
      PROVE  HandedInv'
  BY <1>13, NoneAssumption DEF WsExpired, Drop
<1>14. ASSUME NEW r \in Requests, WsAccept(r)
      PROVE  HandedInv'
  BY <1>14 DEF WsAccept
<1>15. ASSUME NEW r \in Requests, IssueStamp(r)
      PROVE  HandedInv'
  BY <1>15 DEF IssueStamp
<1>16. ASSUME NEW r \in Requests, NEW w \in WsTokens, WsStart(r, w)
      PROVE  HandedInv'
  BY <1>16 DEF WsStart
<1>17. ASSUME NEW r \in Requests, NEW w \in WsTokens, IssueStore(r, w)
      PROVE  HandedInv'
  <2>1. w \notin made /\ made' = made \cup {w} /\ wsTokens' = Put(wsTokens, w, at[r])
    BY <1>17 DEF IssueStore
  <2>2. UNCHANGED <<handed, pageTokens>>
    BY <1>17 DEF IssueStore
  <2>3. \A t \in DOMAIN pageTokens : pageTokens[t].wsToken # w
    BY <2>1, NoneAssumption DEF Shape, TypeOK, PageEntry, HandedInv
  <2>4. \A x \in DOMAIN wsTokens' : x # w => x \in DOMAIN wsTokens /\ wsTokens'[x] = wsTokens[x]
    BY <2>1 DEF Put
  <2> QED
    BY <2>1, <2>2, <2>3, <2>4 DEF HandedInv
<1>18. ASSUME NEW r \in Requests, LoginStamp(r)
      PROVE  HandedInv'
  BY <1>18 DEF LoginStamp
<1>19. ASSUME NEW r \in Requests, NEW s \in SessionIds, LoginStore(r, s)
      PROVE  HandedInv'
  BY <1>19, NoneAssumption DEF LoginStore, requests
<1>20. ASSUME NEW r \in Requests, NEW s \in SessionIds, IssueAllowed(r, s)
      PROVE  HandedInv'
  BY <1>20, NoneAssumption DEF IssueAllowed, requests
<1>21. ASSUME NEW r \in Requests, NEW s \in SessionIds, IssueDenied(r, s)
      PROVE  HandedInv'
  BY <1>21 DEF IssueDenied
<1>22. ASSUME NEW s \in SessionIds, Logout(s)
      PROVE  HandedInv'
  BY <1>22 DEF Logout
<1>23. CASE UNCHANGED vars
  BY <1>23 DEF vars
<1> QED
  BY <1>1, <1>2, <1>3, <1>4, <1>5, <1>6, <1>7, <1>8, <1>9, <1>10, <1>11,
     <1>12, <1>13, <1>14, <1>15, <1>16, <1>17, <1>18, <1>19, <1>20, <1>21, <1>22,
     <1>23
  DEF Next, Page, Ws, Console

\* No step gives a page a second one, or one of another page.
LEMMA OneTerminalStep ==
  ASSUME Shape, HandedInv, OneTerminalPerPage, [Next]_vars
  PROVE  OneTerminalPerPage'
<1> USE DEF OneTerminalPerPage
<1>1. CASE Tick
  BY <1>1 DEF Tick
<1>2. CASE CleanStart
  BY <1>2 DEF CleanStart
<1>3. CASE CleanRun
  BY <1>3 DEF CleanRun
<1>4. ASSUME NEW t \in PageTokens, Issue(t)
      PROVE  OneTerminalPerPage'
  BY <1>4 DEF Issue
<1>5. ASSUME NEW r \in Requests, NEW t \in PageTokens, PageStart(r, t)
      PROVE  OneTerminalPerPage'
  BY <1>5 DEF PageStart
<1>6. ASSUME NEW r \in Requests, PageMissing(r)
      PROVE  OneTerminalPerPage'
  BY <1>6 DEF PageMissing
<1>7. ASSUME NEW r \in Requests, PageExpired(r)
      PROVE  OneTerminalPerPage'
  BY <1>7 DEF PageExpired
<1>8. ASSUME NEW r \in Requests, PageAgain(r)
      PROVE  OneTerminalPerPage'
  BY <1>8, AgainAddsNothing
<1>9. ASSUME NEW r \in Requests, MakeFails(r)
      PROVE  OneTerminalPerPage'
  BY <1>9 DEF MakeFails
<1>10. ASSUME NEW r \in Requests, Done(r)
      PROVE  OneTerminalPerPage'
  BY <1>10 DEF Done
<1>11. ASSUME NEW r \in Requests, NEW w \in WsTokens, PageFirst(r, w)
      PROVE  OneTerminalPerPage'
  <2>1. PICK a \in PageTokens \cap DOMAIN pageTokens :
           /\ a \in made /\ handed[a] = {} /\ pageTokens[a].wsToken = None
           /\ DOMAIN pageTokens' = DOMAIN pageTokens
           /\ \A t \in DOMAIN pageTokens \ {a} : pageTokens'[t] = pageTokens[t]
           /\ pageTokens'[a].wsToken = w /\ pageTokens'[a].expiresAt = pageTokens[a].expiresAt
           /\ wsTokens' = Put(wsTokens, w, pageTokens[a].expiresAt)
           /\ handed'[a] = {w} /\ \A t \in PageTokens \ {a} : handed'[t] = handed[t]
           /\ w \notin made /\ made' = made \cup {w} /\ now' = now
    BY <1>11, FirstIsNew
  <2>2. \A t \in PageTokens : w \notin handed[t]
    BY <2>1 DEF HandedInv
  <2> QED
    BY <2>1, <2>2 DEF OneTerminalPerPage
<1>12. ASSUME NEW r \in Requests, WsMissing(r)
      PROVE  OneTerminalPerPage'
  BY <1>12 DEF WsMissing
<1>13. ASSUME NEW r \in Requests, WsExpired(r)
      PROVE  OneTerminalPerPage'
  BY <1>13 DEF WsExpired
<1>14. ASSUME NEW r \in Requests, WsAccept(r)
      PROVE  OneTerminalPerPage'
  BY <1>14 DEF WsAccept
<1>15. ASSUME NEW r \in Requests, IssueStamp(r)
      PROVE  OneTerminalPerPage'
  BY <1>15 DEF IssueStamp
<1>16. ASSUME NEW r \in Requests, NEW w \in WsTokens, WsStart(r, w)
      PROVE  OneTerminalPerPage'
  BY <1>16 DEF WsStart
<1>17. ASSUME NEW r \in Requests, NEW w \in WsTokens, IssueStore(r, w)
      PROVE  OneTerminalPerPage'
  BY <1>17 DEF IssueStore
<1>18. ASSUME NEW r \in Requests, LoginStamp(r)
      PROVE  OneTerminalPerPage'
  BY <1>18 DEF LoginStamp
<1>19. ASSUME NEW r \in Requests, NEW s \in SessionIds, LoginStore(r, s)
      PROVE  OneTerminalPerPage'
  BY <1>19 DEF LoginStore
<1>20. ASSUME NEW r \in Requests, NEW s \in SessionIds, IssueAllowed(r, s)
      PROVE  OneTerminalPerPage'
  BY <1>20 DEF IssueAllowed
<1>21. ASSUME NEW r \in Requests, NEW s \in SessionIds, IssueDenied(r, s)
      PROVE  OneTerminalPerPage'
  BY <1>21 DEF IssueDenied
<1>22. ASSUME NEW s \in SessionIds, Logout(s)
      PROVE  OneTerminalPerPage'
  BY <1>22 DEF Logout
<1>23. CASE UNCHANGED vars
  BY <1>23 DEF vars
<1> QED
  BY <1>1, <1>2, <1>3, <1>4, <1>5, <1>6, <1>7, <1>8, <1>9, <1>10, <1>11,
     <1>12, <1>13, <1>14, <1>15, <1>16, <1>17, <1>18, <1>19, <1>20, <1>21, <1>22,
     <1>23
  DEF Next, Page, Ws, Console

\* A web-socket token goes only when its page has expired.
LEMMA LinkStep ==
  ASSUME Shape, HandedInv, LinkWorksWhilePageDoes, [Next]_vars
  PROVE  LinkWorksWhilePageDoes'
<1> USE DEF stores, LinkWorksWhilePageDoes
<1>1. CASE Tick
  <2>1. \A t \in DOMAIN pageTokens : pageTokens[t].expiresAt \in Nat
    BY BoundAssumption, TTLAssumption DEF Shape, TypeOK, PageEntry, Times
  <2>2. now \in Nat /\ now' = now + 1
    BY <1>1 DEF Shape, TypeOK, Tick
  <2> QED
    BY <2>1, <2>2, <1>1 DEF Tick
<1>2. CASE CleanStart
  BY <1>2 DEF CleanStart
<1>3. CASE CleanRun
  <2> DEFINE gone == {w \in DOMAIN wsTokens : cleaning > wsTokens[w]}
  <2>1. /\ pageTokens' = Drop(pageTokens, {t \in DOMAIN pageTokens : cleaning > pageTokens[t].expiresAt})
        /\ wsTokens' = Drop(wsTokens, gone) /\ now' = now
    BY <1>3 DEF CleanRun
  <2>2. ASSUME NEW t \in DOMAIN pageTokens, pageTokens[t].wsToken \in gone
        PROVE  t \notin DOMAIN pageTokens'
    BY <2>1, <2>2 DEF HandedInv, Drop
  <2>3. \A t \in DOMAIN pageTokens' : t \in DOMAIN pageTokens /\ pageTokens'[t] = pageTokens[t]
    BY <2>1 DEF Drop
  <2>4. \A w \in DOMAIN wsTokens \ gone : w \in DOMAIN wsTokens'
    BY <2>1 DEF Drop
  <2> QED
    BY <2>1, <2>2, <2>3, <2>4
<1>4. ASSUME NEW t \in PageTokens, Issue(t)
      PROVE  LinkWorksWhilePageDoes'
  BY <1>4, NoneAssumption DEF Issue, Put
<1>5. ASSUME NEW r \in Requests, NEW t \in PageTokens, PageStart(r, t)
      PROVE  LinkWorksWhilePageDoes'
  BY <1>5 DEF PageStart
<1>6. ASSUME NEW r \in Requests, PageMissing(r)
      PROVE  LinkWorksWhilePageDoes'
  BY <1>6 DEF PageMissing
<1>7. ASSUME NEW r \in Requests, PageExpired(r)
      PROVE  LinkWorksWhilePageDoes'
  BY <1>7, NoneAssumption DEF PageExpired, Drop
<1>8. ASSUME NEW r \in Requests, PageAgain(r)
      PROVE  LinkWorksWhilePageDoes'
  BY <1>8, AgainAddsNothing
<1>9. ASSUME NEW r \in Requests, MakeFails(r)
      PROVE  LinkWorksWhilePageDoes'
  BY <1>9 DEF MakeFails
<1>10. ASSUME NEW r \in Requests, Done(r)
      PROVE  LinkWorksWhilePageDoes'
  BY <1>10 DEF Done
<1>11. ASSUME NEW r \in Requests, NEW w \in WsTokens, PageFirst(r, w)
      PROVE  LinkWorksWhilePageDoes'
  <2>1. PICK a \in PageTokens \cap DOMAIN pageTokens :
           /\ a \in made /\ handed[a] = {} /\ pageTokens[a].wsToken = None
           /\ DOMAIN pageTokens' = DOMAIN pageTokens
           /\ \A t \in DOMAIN pageTokens \ {a} : pageTokens'[t] = pageTokens[t]
           /\ pageTokens'[a].wsToken = w /\ pageTokens'[a].expiresAt = pageTokens[a].expiresAt
           /\ wsTokens' = Put(wsTokens, w, pageTokens[a].expiresAt)
           /\ handed'[a] = {w} /\ \A t \in PageTokens \ {a} : handed'[t] = handed[t]
           /\ w \notin made /\ made' = made \cup {w} /\ now' = now
    BY <1>11, FirstIsNew
  <2> QED
    BY <2>1 DEF Put
<1>12. ASSUME NEW r \in Requests, WsMissing(r)
      PROVE  LinkWorksWhilePageDoes'
  BY <1>12 DEF WsMissing
<1>13. ASSUME NEW r \in Requests, WsExpired(r)
      PROVE  LinkWorksWhilePageDoes'
  <2>1. at[r] <= now /\ at[r] \in Nat /\ now \in Nat /\ at[r] > wsTokens[arg[r]] /\ arg[r] \in DOMAIN wsTokens
    BY <1>13 DEF WsExpired, Shape, TypeOK, RequestInv, Times
  <2>2. wsTokens' = Drop(wsTokens, {arg[r]}) /\ pageTokens' = pageTokens /\ now' = now
    BY <1>13 DEF WsExpired
  <2>3. ASSUME NEW t \in DOMAIN pageTokens, pageTokens[t].wsToken # None, pageTokens[t].wsToken \notin DOMAIN wsTokens'
        PROVE  now > pageTokens[t].expiresAt
    <3>1. CASE pageTokens[t].wsToken = arg[r]
      <4>1. wsTokens[arg[r]] = pageTokens[t].expiresAt
        BY <2>1, <3>1 DEF HandedInv
      <4>2. wsTokens[arg[r]] \in Nat
        BY <2>1, BoundAssumption, TTLAssumption DEF Shape, TypeOK, Times
      <4> QED
        BY <2>1, <4>1, <4>2
    <3>2. CASE pageTokens[t].wsToken # arg[r]
      <4>1. pageTokens[t].wsToken \notin DOMAIN wsTokens
        BY <2>2, <2>3, <3>2 DEF Drop
      <4> QED
        BY <2>3, <4>1 DEF LinkWorksWhilePageDoes
    <3> QED
      BY <3>1, <3>2
  <2> QED
    BY <2>2, <2>3 DEF LinkWorksWhilePageDoes
<1>14. ASSUME NEW r \in Requests, WsAccept(r)
      PROVE  LinkWorksWhilePageDoes'
  BY <1>14 DEF WsAccept
<1>15. ASSUME NEW r \in Requests, IssueStamp(r)
      PROVE  LinkWorksWhilePageDoes'
  BY <1>15 DEF IssueStamp
<1>16. ASSUME NEW r \in Requests, NEW w \in WsTokens, WsStart(r, w)
      PROVE  LinkWorksWhilePageDoes'
  BY <1>16 DEF WsStart
<1>17. ASSUME NEW r \in Requests, NEW w \in WsTokens, IssueStore(r, w)
      PROVE  LinkWorksWhilePageDoes'
  BY <1>17, NoneAssumption DEF IssueStore, Put
<1>18. ASSUME NEW r \in Requests, LoginStamp(r)
      PROVE  LinkWorksWhilePageDoes'
  BY <1>18 DEF LoginStamp
<1>19. ASSUME NEW r \in Requests, NEW s \in SessionIds, LoginStore(r, s)
      PROVE  LinkWorksWhilePageDoes'
  BY <1>19 DEF LoginStore
<1>20. ASSUME NEW r \in Requests, NEW s \in SessionIds, IssueAllowed(r, s)
      PROVE  LinkWorksWhilePageDoes'
  BY <1>20 DEF IssueAllowed
<1>21. ASSUME NEW r \in Requests, NEW s \in SessionIds, IssueDenied(r, s)
      PROVE  LinkWorksWhilePageDoes'
  BY <1>21 DEF IssueDenied
<1>22. ASSUME NEW s \in SessionIds, Logout(s)
      PROVE  LinkWorksWhilePageDoes'
  BY <1>22 DEF Logout
<1>23. CASE UNCHANGED vars
  BY <1>23 DEF vars
<1> QED
  BY <1>1, <1>2, <1>3, <1>4, <1>5, <1>6, <1>7, <1>8, <1>9, <1>10, <1>11,
     <1>12, <1>13, <1>14, <1>15, <1>16, <1>17, <1>18, <1>19, <1>20, <1>21, <1>22,
     <1>23
  DEF Next, Page, Ws, Console

\* What was refused is not in the stores, or a session that has expired.
RefusedInv ==
  /\ refused \cap (DOMAIN pageTokens \cup DOMAIN wsTokens) = {}
  /\ \A s \in refused \cap DOMAIN sessions : now >= sessions[s]

\* Every step keeps refused tokens and sessions out.
LEMMA RefusedStep ==
  ASSUME Shape, RefusedInv, [Next]_vars
  PROVE  RefusedInv'
<1> USE NoneAssumption, KindsAssumption, TTLAssumption, BoundAssumption
    DEF Shape, TypeOK, RequestInv, MadeInv, HandedInv, Times, Tokens, PageEntry, stores,
          requests, Put, Drop, Move, Finish, Refuse, PageFound, Sweep, Live, RefusedInv
<1>1. CASE Tick
  BY <1>1 DEF Tick
<1>2. CASE CleanStart
  BY <1>2 DEF CleanStart
<1>3. CASE CleanRun
  BY <1>3 DEF CleanRun
<1>4. ASSUME NEW t \in PageTokens, Issue(t)
      PROVE  RefusedInv'
  BY <1>4 DEF Issue
<1>5. ASSUME NEW r \in Requests, NEW t \in PageTokens, PageStart(r, t)
      PROVE  RefusedInv'
  BY <1>5 DEF PageStart
<1>6. ASSUME NEW r \in Requests, PageMissing(r)
      PROVE  RefusedInv'
  BY <1>6 DEF PageMissing
<1>7. ASSUME NEW r \in Requests, PageExpired(r)
      PROVE  RefusedInv'
  BY <1>7 DEF PageExpired
<1>8. ASSUME NEW r \in Requests, PageAgain(r)
      PROVE  RefusedInv'
  BY <1>8 DEF PageAgain
<1>9. ASSUME NEW r \in Requests, MakeFails(r)
      PROVE  RefusedInv'
  BY <1>9 DEF MakeFails
<1>10. ASSUME NEW r \in Requests, Done(r)
      PROVE  RefusedInv'
  BY <1>10 DEF Done
<1>11. ASSUME NEW r \in Requests, NEW w \in WsTokens, PageFirst(r, w)
      PROVE  RefusedInv'
  BY <1>11 DEF PageFirst
<1>12. ASSUME NEW r \in Requests, WsMissing(r)
      PROVE  RefusedInv'
  BY <1>12 DEF WsMissing
<1>13. ASSUME NEW r \in Requests, WsExpired(r)
      PROVE  RefusedInv'
  BY <1>13 DEF WsExpired
<1>14. ASSUME NEW r \in Requests, WsAccept(r)
      PROVE  RefusedInv'
  BY <1>14 DEF WsAccept
<1>15. ASSUME NEW r \in Requests, IssueStamp(r)
      PROVE  RefusedInv'
  BY <1>15 DEF IssueStamp
<1>16. ASSUME NEW r \in Requests, NEW w \in WsTokens, WsStart(r, w)
      PROVE  RefusedInv'
  BY <1>16 DEF WsStart
<1>17. ASSUME NEW r \in Requests, NEW w \in WsTokens, IssueStore(r, w)
      PROVE  RefusedInv'
  BY <1>17 DEF IssueStore
<1>18. ASSUME NEW r \in Requests, LoginStamp(r)
      PROVE  RefusedInv'
  BY <1>18 DEF LoginStamp
<1>19. ASSUME NEW r \in Requests, NEW s \in SessionIds, LoginStore(r, s)
      PROVE  RefusedInv'
  BY <1>19 DEF LoginStore
<1>20. ASSUME NEW r \in Requests, NEW s \in SessionIds, IssueAllowed(r, s)
      PROVE  RefusedInv'
  BY <1>20 DEF IssueAllowed
<1>21. ASSUME NEW r \in Requests, NEW s \in SessionIds, IssueDenied(r, s)
      PROVE  RefusedInv'
  BY <1>21 DEF IssueDenied
<1>22. ASSUME NEW s \in SessionIds, Logout(s)
      PROVE  RefusedInv'
  BY <1>22 DEF Logout
<1>23. CASE UNCHANGED vars
  BY <1>23 DEF vars
<1> QED
  BY <1>1, <1>2, <1>3, <1>4, <1>5, <1>6, <1>7, <1>8, <1>9, <1>10, <1>11,
     <1>12, <1>13, <1>14, <1>15, <1>16, <1>17, <1>18, <1>19, <1>20, <1>21, <1>22,
     <1>23
  DEF Next, Page, Ws, Console

\* Whoever gets through presents something that was not refused.
LEMMA AcceptStep ==
  ASSUME Shape, RefusedInv, NEW q \in Requests, pc'[q] # pc[q],
         pc'[q] \in {"given", "open", "issue"}, [Next]_vars
  PROVE  arg'[q] \notin refused
<1> USE NoneAssumption, KindsAssumption, TTLAssumption, BoundAssumption
    DEF Shape, TypeOK, RequestInv, MadeInv, HandedInv, Times, Tokens, PageEntry, stores,
          requests, Put, Drop, Move, Finish, Refuse, PageFound, Sweep, Live, RefusedInv
<1>1. CASE Tick
  BY <1>1 DEF Tick
<1>2. CASE CleanStart
  BY <1>2 DEF CleanStart
<1>3. CASE CleanRun
  BY <1>3 DEF CleanRun
<1>4. ASSUME NEW t \in PageTokens, Issue(t)
      PROVE  arg'[q] \notin refused
  BY <1>4 DEF Issue
<1>5. ASSUME NEW r \in Requests, NEW t \in PageTokens, PageStart(r, t)
      PROVE  arg'[q] \notin refused
  BY <1>5 DEF PageStart
<1>6. ASSUME NEW r \in Requests, PageMissing(r)
      PROVE  arg'[q] \notin refused
  BY <1>6 DEF PageMissing
<1>7. ASSUME NEW r \in Requests, PageExpired(r)
      PROVE  arg'[q] \notin refused
  BY <1>7 DEF PageExpired
<1>8. ASSUME NEW r \in Requests, PageAgain(r)
      PROVE  arg'[q] \notin refused
  BY <1>8 DEF PageAgain
<1>9. ASSUME NEW r \in Requests, MakeFails(r)
      PROVE  arg'[q] \notin refused
  BY <1>9 DEF MakeFails
<1>10. ASSUME NEW r \in Requests, Done(r)
      PROVE  arg'[q] \notin refused
  BY <1>10 DEF Done
<1>11. ASSUME NEW r \in Requests, NEW w \in WsTokens, PageFirst(r, w)
      PROVE  arg'[q] \notin refused
  BY <1>11 DEF PageFirst
<1>12. ASSUME NEW r \in Requests, WsMissing(r)
      PROVE  arg'[q] \notin refused
  BY <1>12 DEF WsMissing
<1>13. ASSUME NEW r \in Requests, WsExpired(r)
      PROVE  arg'[q] \notin refused
  BY <1>13 DEF WsExpired
<1>14. ASSUME NEW r \in Requests, WsAccept(r)
      PROVE  arg'[q] \notin refused
  BY <1>14 DEF WsAccept
<1>15. ASSUME NEW r \in Requests, IssueStamp(r)
      PROVE  arg'[q] \notin refused
  BY <1>15 DEF IssueStamp
<1>16. ASSUME NEW r \in Requests, NEW w \in WsTokens, WsStart(r, w)
      PROVE  arg'[q] \notin refused
  BY <1>16 DEF WsStart
<1>17. ASSUME NEW r \in Requests, NEW w \in WsTokens, IssueStore(r, w)
      PROVE  arg'[q] \notin refused
  BY <1>17 DEF IssueStore
<1>18. ASSUME NEW r \in Requests, LoginStamp(r)
      PROVE  arg'[q] \notin refused
  BY <1>18 DEF LoginStamp
<1>19. ASSUME NEW r \in Requests, NEW s \in SessionIds, LoginStore(r, s)
      PROVE  arg'[q] \notin refused
  BY <1>19 DEF LoginStore
<1>20. ASSUME NEW r \in Requests, NEW s \in SessionIds, IssueAllowed(r, s)
      PROVE  arg'[q] \notin refused
  BY <1>20 DEF IssueAllowed
<1>21. ASSUME NEW r \in Requests, NEW s \in SessionIds, IssueDenied(r, s)
      PROVE  arg'[q] \notin refused
  BY <1>21 DEF IssueDenied
<1>22. ASSUME NEW s \in SessionIds, Logout(s)
      PROVE  arg'[q] \notin refused
  BY <1>22 DEF Logout
<1>23. CASE UNCHANGED vars
  BY <1>23 DEF vars
<1> QED
  BY <1>1, <1>2, <1>3, <1>4, <1>5, <1>6, <1>7, <1>8, <1>9, <1>10, <1>11,
     <1>12, <1>13, <1>14, <1>15, <1>16, <1>17, <1>18, <1>19, <1>20, <1>21, <1>22,
     <1>23
  DEF Next, Page, Ws, Console

-----------------------------------------------------------------------------

IInv == Shape /\ HandedInv /\ OneTerminalPerPage /\ LinkWorksWhilePageDoes /\ RefusedInv

\* The inductive invariant.
LEMMA Invariance == Spec => []IInv
<1>1. Init => IInv
  BY NoneAssumption, BoundAssumption, TTLAssumption
  DEF Init, IInv, Shape, TypeOK, RequestInv, MadeInv, HandedInv, OneTerminalPerPage,
      LinkWorksWhilePageDoes, RefusedInv, Times, Tokens
<1>2. IInv /\ [Next]_vars => IInv'
  BY TypeStep, RequestStep, MadeStep, HandedStep, OneTerminalStep, LinkStep, RefusedStep
  DEF IInv, Shape
<1> QED
  BY <1>1, <1>2, PTL DEF Spec

\* Every variable has its type: the stores hold only tokens of their own kind,
\* with times the clock can give.
THEOREM AccessTypeCorrect == Spec => []TypeOK
<1>1. IInv => TypeOK
  BY DEF IInv, Shape
<1> QED
  BY <1>1, Invariance, PTL

\* However many requests load a page, at once or one after the other, with
\* cleanups between them, it opens one terminal, and it alone opens that one.
THEOREM PageOpensOneTerminal == Spec => []OneTerminalPerPage
<1>1. IInv => OneTerminalPerPage
  BY DEF IInv
<1> QED
  BY <1>1, Invariance, PTL

\* A page that still loads has a link that still opens: nothing takes a
\* web-socket token away before its page has expired.
THEOREM LinkOutlivesPage == Spec => []LinkWorksWhilePageDoes
<1>1. IInv => LinkWorksWhilePageDoes
  BY DEF IInv
<1> QED
  BY <1>1, Invariance, PTL

\* Nobody gets in with what somebody was refused with, whatever each of them
\* had read of the clock before it locked the store.
THEOREM RefusalHolds == Spec => RefusalIsFinal
<1>1. IInv /\ [Next]_vars =>
        [\A r \in Requests :
           pc'[r] # pc[r] /\ pc'[r] \in {"given", "open", "issue"} => arg'[r] \notin refused]_vars
  BY AcceptStep DEF IInv
<1> QED
  BY <1>1, Invariance, PTL DEF Spec, RefusalIsFinal

=============================================================================
