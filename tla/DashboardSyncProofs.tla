---------------------------- MODULE DashboardSyncProofs ----------------------------
(***************************************************************************)
(* Proofs about DashboardSync, for any number of pages and changes and any *)
(* number of requests that fail.                                           *)
(***************************************************************************)
EXTENDS DashboardSync, FiniteSetTheorems, TLAPS

\* TypeOK without its last clause, ...
Types ==
  /\ stage \in [Pages -> {"unopened", "loading", "ready", "gone"}]
  /\ mem \in [Pages -> SUBSET Changes] /\ local \in SUBSET Changes
  /\ timer \in [Pages -> BOOLEAN] /\ dropped \in [Pages -> BOOLEAN]
  /\ sync \in [Pages -> {"idle", "waiting", "login", "again", "answered"}]
  /\ load \in [Pages -> (SUBSET Changes) \cup {None}]
  /\ wire \in SUBSET Post /\ stray \in SUBSET Post /\ built \in [Pages -> Nat]
  /\ remote \in Post \cup {[page |-> "none", n |-> 0, body |-> {}]}
  /\ fails \in 0..MaxFails

\* ... and that clause: a page waits exactly while a POST of it is under way.
Waits ==
  \A p \in Pages : stage[p] # "gone" =>
    (sync[p] \in {"waiting", "again"} <=> \E m \in wire : m.page = p)

\* One POST of a page is under way at most, and it is the last one it built.
OnePost ==
  /\ \A m \in wire : m.n = built[m.page]
  /\ \A m1, m2 \in wire : m1.page = m2.page => m1 = m2

\* A page that is not open has no timer and no sync, and what is stored or
\* was given up was built by a page that was opened.
Frame ==
  /\ \A p \in Pages : ~Alive(p) => ~timer[p] /\ sync[p] = "idle"
  /\ \A p \in Pages : remote.page = p => stage[p] # "unopened" /\ remote.n <= built[p]
  /\ \A m \in stray : stage[m.page] # "unopened" /\ m.n <= built[m.page]

\* With nothing to send and nothing dropped, the page's last POST carries its
\* state, on its way and once it is stored.
Carried ==
  \A p \in Pages : Alive(p) /\ ~timer[p] /\ ~dropped[p] =>
    /\ \A m \in wire : m.page = p => m.body = mem[p]
    /\ sync[p] \notin {"waiting", "again"} /\ remote.page = p => remote.body = mem[p]

IInv == Types /\ Waits /\ OnePost /\ Frame /\ Carried

-----------------------------------------------------------------------------
LEMMA TypeParts ==
  ASSUME Types, Waits, OnePost
  PROVE  TypeOK
<1>1. ASSUME NEW p \in Pages
      PROVE  Cardinality({m \in wire : m.page = p}) <= 1
  <2>1. CASE \A m \in wire : m.page # p
    <3>1. {m \in wire : m.page = p} = {}
      BY <2>1
    <3> QED
      BY <3>1, FS_EmptySet
  <2>2. ASSUME NEW m \in wire, m.page = p
        PROVE  Cardinality({x \in wire : x.page = p}) <= 1
    <3>1. {x \in wire : x.page = p} = {m}
      BY <2>2 DEF OnePost
    <3> QED
      BY <3>1, FS_Singleton
  <2> QED
    BY <2>1, <2>2
<1> QED
  BY <1>1 DEF Types, Waits, TypeOK

\* buildPayload and fetch: the POST that joins those under way.
LEMMA SendAdds ==
  ASSUME Types, OnePost, NEW p \in Pages, Send(p), \A m \in wire : m.page # p
  PROVE  \E new \in Post :
           /\ new.page = p /\ new.n = built[p] + 1 /\ new.body = mem[p]
           /\ wire' = wire \cup {new}
           /\ built' \in [Pages -> Nat] /\ built'[p] = built[p] + 1
           /\ \A q \in Pages \ {p} : built'[q] = built[q]
           /\ OnePost'
<1> DEFINE new == [page |-> p, n |-> built[p] + 1, body |-> mem[p]]
<1>1. new \in Post /\ new.page = p /\ new.n = built[p] + 1 /\ new.body = mem[p]
  BY DEF Types, Post
<1>2. wire' = wire \cup {new} /\ built' = [built EXCEPT ![p] = built[p] + 1]
  BY DEF Send
<1>3. /\ built' \in [Pages -> Nat] /\ built'[p] = built[p] + 1
      /\ \A q \in Pages \ {p} : built'[q] = built[q]
  BY <1>2 DEF Types
<1>4. \A m \in wire : m.page \in Pages \ {p}
  BY DEF Types, Post
<1> HIDE DEF new
<1>5. OnePost'
  BY <1>1, <1>2, <1>3, <1>4 DEF OnePost
<1> QED
  BY <1>1, <1>2, <1>3, <1>5

\* The three answers a POST can get.
Answered(m) == Save(m) \/ Refuse(m) \/ Fail(m)

LEMMA AnswerTakes ==
  ASSUME Types, NEW m \in wire, Answered(m)
  PROVE  /\ m.page \in Pages /\ wire' = wire \ {m}
         /\ UNCHANGED <<stage, mem, timer, load, local, built>>
         /\ sync' \in [Pages -> {"idle", "waiting", "login", "again", "answered"}]
         /\ \A p \in Pages \ {m.page} : sync'[p] = sync[p] /\ dropped'[p] = dropped[p]
         /\ stage[m.page] = "gone" => sync'[m.page] = sync[m.page]
         /\ stage[m.page] # "gone" => sync'[m.page] \in {"login", "answered"}
         /\ \/ Save(m) /\ remote' = m
            \/ remote' = remote /\ dropped'[m.page] = TRUE
         /\ stray' = stray \/ stray' = stray \cup {m}
<1>1. m.page \in Pages
  BY DEF Types, Post
<1>2. CASE Save(m)
  BY <1>1, <1>2 DEF Save, Hears, Types
<1>3. CASE Refuse(m)
  BY <1>1, <1>3 DEF Refuse, Hears, Types
<1>4. CASE Fail(m)
  BY <1>1, <1>4 DEF Fail, Hears, Types
<1> QED
  BY <1>2, <1>3, <1>4 DEF Answered

\* A request that its page has given up is stored after all.
LEMMA LateTakes ==
  ASSUME Types, NEW m \in stray, SaveLate(m)
  PROVE  /\ m \in Post /\ m.page \in Pages /\ remote' = m /\ stray' = stray \ {m}
         /\ UNCHANGED <<stage, mem, timer, load, local, sync, wire, built, fails>>
         /\ dropped' \in [Pages -> BOOLEAN]
         /\ \A p \in Pages \ {m.page} : dropped'[p] = dropped[p]
         /\ \/ timer[m.page] \/ sync[m.page] \in {"waiting", "again"}
            \/ dropped'[m.page]
<1>1. m \in Post /\ m.page \in Pages
  BY DEF Types, Post
<1> QED
  BY <1>1 DEF SaveLate, syncVars, Types

\* A page sends only when nothing of its own is under way.
LEMMA SendsAlone ==
  ASSUME Types, Waits, Frame, NEW p \in Pages,
         (timer[p] /\ sync[p] = "idle") \/ sync[p] = "login"
  PROVE  Alive(p) /\ \A m \in wire : m.page # p
<1>1. Alive(p)
  BY DEF Frame, Types
<1> QED
  BY <1>1 DEF Waits, Alive

-----------------------------------------------------------------------------
(* The steps preserve the invariant.                                       *)

LEMMA TypesStep ==
  ASSUME Types, Waits, OnePost, Frame, [Next]_vars
  PROVE  Types'
<1> USE MaxFailsAssumption
<1>1. CASE UNCHANGED vars
  BY <1>1 DEF Types, vars
<1>2. ASSUME NEW p \in Pages, Open(p)
      PROVE  Types'
  BY <1>2 DEF Open, Types, syncVars
<1>3. ASSUME NEW p \in Pages, TakeLoad(p)
      PROVE  Types'
  <2>1. load[p] \in SUBSET Changes
    BY <1>3 DEF TakeLoad, Types
  <2> QED
    BY <1>3, <2>1 DEF TakeLoad, Types, syncVars
<1>4. ASSUME NEW p \in Pages, LoadFails(p)
      PROVE  Types'
  BY <1>4 DEF LoadFails, Types, syncVars
<1>5. ASSUME NEW p \in Pages, Get(p)
      PROVE  Types'
  <2>1. remote.body \in SUBSET Changes
    BY DEF Types, Post
  <2> QED
    BY <1>5, <2>1 DEF Get, Types, syncVars
<1>6. ASSUME NEW p \in Pages, NEW c \in Changes, Change(p, c)
      PROVE  Types'
  <2>1. mem[p] \cup {c} \in SUBSET Changes
    BY DEF Types
  <2> QED
    BY <1>6, <2>1 DEF Change, Types, syncVars
<1>7. ASSUME NEW p \in Pages, Send(p), \A m \in wire : m.page # p
      PROVE  /\ wire' \in SUBSET Post /\ built' \in [Pages -> Nat]
             /\ dropped' \in [Pages -> BOOLEAN]
  <2>1. dropped' \in [Pages -> BOOLEAN]
    BY <1>7 DEF Send, Types
  <2> QED
    BY <1>7, <2>1, SendAdds DEF Types
<1>8. ASSUME NEW p \in Pages, Sync(p)
      PROVE  Types'
  <2>1. CASE sync[p] = "idle"
    <3>1. Send(p) /\ \A m \in wire : m.page # p
      BY <1>8, <2>1, SendsAlone DEF Sync
    <3> QED
      BY <1>7, <1>8, <2>1, <3>1 DEF Sync, Types
  <2>2. CASE sync[p] # "idle"
    BY <1>8, <2>2 DEF Sync, Types, syncVars
  <2> QED
    BY <2>1, <2>2
<1>9. ASSUME NEW p \in Pages, Retry(p)
      PROVE  Types'
  <2>1. Send(p) /\ \A m \in wire : m.page # p
    BY <1>9, SendsAlone DEF Retry
  <2> QED
    BY <1>7, <1>9, <2>1 DEF Retry, Types
<1>10. ASSUME NEW p \in Pages, Finish(p) \/ Leave(p)
       PROVE  Types'
  BY <1>10 DEF Finish, Leave, Types
<1>11. ASSUME NEW m \in wire, Answered(m)
       PROVE  Types'
  <2>1. /\ wire' \in SUBSET Post /\ UNCHANGED <<stage, mem, timer, load, local, built>>
        /\ sync' \in [Pages -> {"idle", "waiting", "login", "again", "answered"}]
    BY <1>11, AnswerTakes DEF Types
  <2>2. /\ remote' \in Post \cup {[page |-> "none", n |-> 0, body |-> {}]}
        /\ fails' \in 0..MaxFails /\ dropped' \in [Pages -> BOOLEAN]
    <3>1. m \in Post
      BY DEF Types
    <3>2. CASE Save(m)
      BY <3>1, <3>2 DEF Save, Types
    <3>3. CASE Refuse(m) \/ Fail(m)
      <4>1. /\ remote' = remote /\ dropped' = [dropped EXCEPT ![m.page] = TRUE]
            /\ fails < MaxFails /\ fails' = fails + 1
        BY <3>3 DEF Refuse, Fail
      <4>2. fails' \in 0..MaxFails
        BY <4>1 DEF Types
      <4>3. dropped' \in [Pages -> BOOLEAN]
        BY <4>1 DEF Types
      <4> QED
        BY <4>1, <4>2, <4>3 DEF Types
    <3> QED
      BY <1>11, <3>2, <3>3 DEF Answered
  <2>3. stray' \in SUBSET Post
    <3>1. m \in Post /\ stray \in SUBSET Post
      BY DEF Types
    <3>2. stray' = stray \/ stray' = stray \cup {m}
      BY <1>11, AnswerTakes
    <3> QED
      BY <3>1, <3>2
  <2> QED
    BY <2>1, <2>2, <2>3 DEF Types
<1>12. ASSUME NEW m \in stray, SaveLate(m)
       PROVE  Types'
  BY <1>12, LateTakes DEF Types
<1> QED
  BY <1>1, <1>2, <1>3, <1>4, <1>5, <1>6, <1>8, <1>9, <1>10, <1>11, <1>12 DEF Next, Answered

\* A step of one page: what happens to the POSTs and to what is stored.
Own(p) ==
  \/ Open(p) \/ TakeLoad(p) \/ LoadFails(p) \/ Get(p) \/ (\E c \in Changes : Change(p, c))
  \/ Sync(p) \/ Retry(p) \/ Finish(p) \/ Leave(p)

LEMMA Steps ==
  ASSUME [Next]_vars
  PROVE  \/ \E p \in Pages : Own(p)
         \/ \E m \in wire : Answered(m)
         \/ \E m \in stray : SaveLate(m)
         \/ UNCHANGED vars
  BY DEF Next, Own, Answered

\* A page leaves the others alone, and sends or not.
LEMMA OwnStep ==
  ASSUME Types, Waits, OnePost, Frame, NEW p \in Pages, Own(p)
  PROVE  /\ remote' = remote /\ stray' = stray
         /\ \A q \in Pages \ {p} :
              UNCHANGED <<stage[q], mem[q], timer[q], sync[q], dropped[q]>>
         /\ \/ UNCHANGED <<wire, built>>
            \/ /\ Send(p) /\ \A m \in wire : m.page # p
               /\ Alive(p) /\ UNCHANGED <<stage, mem>>
               /\ sync'[p] \in {"waiting", "again"}
<1>1. /\ remote' = remote /\ stray' = stray
      /\ \A q \in Pages \ {p} :
           UNCHANGED <<stage[q], mem[q], timer[q], sync[q], dropped[q]>>
  BY DEF Own, Open, TakeLoad, LoadFails, Get, Change, Sync, Retry, Finish, Leave, Send,
         syncVars, Types
<1>2. CASE UNCHANGED <<wire, built>>
  BY <1>1, <1>2
<1>3. CASE Sync(p) /\ sync[p] = "idle"
  BY <1>1, <1>3, SendsAlone DEF Sync, Types
<1>4. CASE Retry(p)
  BY <1>1, <1>4, SendsAlone DEF Retry, Types
<1> QED
  BY <1>2, <1>3, <1>4
  DEF Own, Open, TakeLoad, LoadFails, Get, Change, Sync, Finish, Leave, syncVars

LEMMA OnePostStep ==
  ASSUME Types, Waits, OnePost, Frame, [Next]_vars
  PROVE  OnePost'
<1>1. ASSUME NEW p \in Pages, Own(p)
      PROVE  OnePost'
  <2>1. CASE UNCHANGED <<wire, built>>
    BY <2>1 DEF OnePost
  <2>2. CASE Send(p) /\ \A m \in wire : m.page # p
    BY <2>2, SendAdds
  <2> QED
    BY <1>1, <2>1, <2>2, OwnStep
<1>2. ASSUME NEW m \in wire, Answered(m)
      PROVE  OnePost'
  BY <1>2, AnswerTakes DEF OnePost
<1>3. CASE UNCHANGED vars
  BY <1>3 DEF OnePost, vars
<1>4. ASSUME NEW m \in stray, SaveLate(m)
      PROVE  OnePost'
  BY <1>4, LateTakes DEF OnePost
<1> QED
  BY <1>1, <1>2, <1>3, <1>4, Steps

LEMMA WaitsStep ==
  ASSUME Types, Waits, OnePost, Frame, [Next]_vars
  PROVE  Waits'
<1> SUFFICES ASSUME NEW q \in Pages, stage'[q] # "gone"
             PROVE  sync'[q] \in {"waiting", "again"} <=> \E m \in wire' : m.page = q
  BY DEF Waits
<1>1. stage[q] # "gone"
  BY Steps, AnswerTakes, LateTakes
  DEF Own, Open, TakeLoad, LoadFails, Get, Change, Sync, Retry, Finish, Leave, vars, Types
<1>2. sync[q] \in {"waiting", "again"} <=> \E m \in wire : m.page = q
  BY <1>1 DEF Waits
<1>3. ASSUME NEW p \in Pages, Own(p)
      PROVE  sync'[q] \in {"waiting", "again"} <=> \E m \in wire' : m.page = q
  <2>1. CASE Send(p) /\ (\A m \in wire : m.page # p) /\ sync'[p] \in {"waiting", "again"}
    <3>1. PICK new \in Post : new.page = p /\ wire' = wire \cup {new}
      BY <2>1, SendAdds
    <3> QED
      BY <1>2, <1>3, <2>1, <3>1, OwnStep
  <2>2. CASE UNCHANGED <<wire, built>>
    <3>1. sync'[q] = sync[q] \/ (sync'[q] \in {"idle"} /\ sync[q] = "answered")
      BY <1>3, <2>2
      DEF Own, Open, TakeLoad, LoadFails, Get, Change, Sync, Retry, Finish, Leave, Send,
          syncVars, Types
    <3> QED
      BY <1>2, <2>2, <3>1
  <2> QED
    BY <1>3, <2>1, <2>2, OwnStep
<1>4. ASSUME NEW m \in wire, Answered(m)
      PROVE  sync'[q] \in {"waiting", "again"} <=> \E x \in wire' : x.page = q
  <2>1. /\ wire' = wire \ {m} /\ m.page \in Pages
        /\ q # m.page => sync'[q] = sync[q]
        /\ q = m.page => sync'[q] \in {"login", "answered"}
    BY <1>1, <1>4, AnswerTakes
  <2>2. CASE q = m.page
    BY <2>1, <2>2 DEF OnePost
  <2>3. CASE q # m.page
    BY <1>2, <2>1, <2>3
  <2> QED
    BY <2>2, <2>3
<1>5. CASE UNCHANGED vars
  BY <1>2, <1>5 DEF vars
<1>6. ASSUME NEW m \in stray, SaveLate(m)
      PROVE  sync'[q] \in {"waiting", "again"} <=> \E x \in wire' : x.page = q
  BY <1>2, <1>6, LateTakes
<1> QED
  BY <1>3, <1>4, <1>5, <1>6, Steps

LEMMA FrameStep ==
  ASSUME Types, Waits, OnePost, Frame, [Next]_vars
  PROVE  Frame'
<1>1. ASSUME NEW q \in Pages, ~Alive(q)'
      PROVE  ~timer'[q] /\ sync'[q] = "idle"
  <2>1. ASSUME NEW p \in Pages, Own(p)
        PROVE  ~timer'[q] /\ sync'[q] = "idle"
    <3>1. CASE p = q
      BY <1>1, <2>1, <3>1
      DEF Own, Open, TakeLoad, LoadFails, Get, Change, Sync, Retry, Finish, Leave, Send,
          syncVars, Types, Alive, Frame
    <3>2. CASE p # q
      BY <1>1, <2>1, <3>2, OwnStep DEF Alive, Frame
    <3> QED
      BY <3>1, <3>2
  <2>2. ASSUME NEW m \in wire, Answered(m)
        PROVE  ~timer'[q] /\ sync'[q] = "idle"
    <3>1. /\ UNCHANGED <<stage, timer>> /\ m.page \in Pages
          /\ (q # m.page \/ stage[m.page] = "gone") => sync'[q] = sync[q]
      BY <2>2, AnswerTakes
    <3>2. ~timer[q] /\ sync[q] = "idle"
      BY <1>1, <3>1 DEF Alive, Frame
    <3>3. q # m.page \/ stage[m.page] = "gone"
      BY <3>2 DEF Waits
    <3> QED
      BY <3>1, <3>2, <3>3
  <2>3. CASE UNCHANGED vars
    BY <1>1, <2>3 DEF vars, Alive, Frame
  <2>4. ASSUME NEW m \in stray, SaveLate(m)
        PROVE  ~timer'[q] /\ sync'[q] = "idle"
    BY <1>1, <2>4, LateTakes DEF Alive, Frame
  <2> QED
    BY <2>1, <2>2, <2>3, <2>4, Steps
<1>2. ASSUME NEW q \in Pages, remote'.page = q
      PROVE  stage'[q] # "unopened" /\ remote'.n <= built'[q]
  <2>1. ASSUME NEW p \in Pages, Own(p)
        PROVE  stage'[q] # "unopened" /\ remote'.n <= built'[q]
    <3>1. remote.page = q /\ stage[q] # "unopened" /\ remote.n <= built[q] /\ remote.n \in Nat
      BY <1>2, <2>1, OwnStep DEF Frame, Types, Post
    <3>2. stage'[q] # "unopened"
      BY <2>1, <3>1
      DEF Own, Open, TakeLoad, LoadFails, Get, Change, Sync, Retry, Finish, Leave, Types
    <3>3. built'[q] = built[q] \/ built'[q] = built[q] + 1
      BY <2>1, OwnStep, SendAdds
    <3> QED
      BY <2>1, <3>1, <3>2, <3>3, OwnStep DEF Types
  <2>2. ASSUME NEW m \in wire, Answered(m)
        PROVE  stage'[q] # "unopened" /\ remote'.n <= built'[q]
    <3>1. CASE remote' = remote
      BY <1>2, <2>2, <3>1, AnswerTakes, ZenonT(40) DEF Frame
    <3>2. CASE remote' = m
      <4>1. m.page = q /\ m.n = built[q] /\ built[q] \in Nat
        BY <1>2, <3>2 DEF OnePost, Types
      <4>2. stage[q] # "unopened"
        BY <4>1 DEF Waits, Frame, Alive
      <4>3. stage' = stage /\ built' = built
        BY <2>2, AnswerTakes
      <4> QED
        BY <3>2, <4>1, <4>2, <4>3
    <3>3. remote' = m \/ remote' = remote
      BY <2>2, AnswerTakes
    <3> QED
      BY <3>1, <3>2, <3>3
  <2>3. CASE UNCHANGED vars
    BY <1>2, <2>3 DEF vars, Frame
  <2>4. ASSUME NEW m \in stray, SaveLate(m)
        PROVE  stage'[q] # "unopened" /\ remote'.n <= built'[q]
    BY <1>2, <2>4, LateTakes DEF Frame
  <2> QED
    BY <2>1, <2>2, <2>3, <2>4, Steps
<1>3. ASSUME NEW x \in stray'
      PROVE  stage'[x.page] # "unopened" /\ x.n <= built'[x.page]
  <2>1. ASSUME NEW p \in Pages, Own(p)
        PROVE  stage'[x.page] # "unopened" /\ x.n <= built'[x.page]
    <3>1. /\ x \in Post /\ x.page \in Pages /\ x.n \in Nat
          /\ stage[x.page] # "unopened" /\ x.n <= built[x.page]
      BY <2>1, OwnStep DEF Frame, Types, Post
    <3>2. stage'[x.page] # "unopened"
      BY <2>1, <3>1
      DEF Own, Open, TakeLoad, LoadFails, Get, Change, Sync, Retry, Finish, Leave, Types
    <3>3. built'[x.page] = built[x.page] \/ built'[x.page] = built[x.page] + 1
      BY <2>1, <3>1, OwnStep, SendAdds
    <3> QED
      BY <3>1, <3>2, <3>3 DEF Types
  <2>2. ASSUME NEW m \in wire, Answered(m)
        PROVE  stage'[x.page] # "unopened" /\ x.n <= built'[x.page]
    <3>1. UNCHANGED <<stage, built>> /\ (x \in stray \/ x = m)
      BY <2>2, AnswerTakes
    <3>2. m.page \in Pages /\ m.n = built[m.page] /\ built[m.page] \in Nat
      BY DEF OnePost, Types, Post
    <3>3. stage[m.page] # "unopened"
      BY <3>2 DEF Waits, Frame, Alive
    <3> QED
      BY <3>1, <3>2, <3>3 DEF Frame
  <2>3. CASE UNCHANGED vars
    BY <2>3 DEF vars, Frame
  <2>4. ASSUME NEW m \in stray, SaveLate(m)
        PROVE  stage'[x.page] # "unopened" /\ x.n <= built'[x.page]
    BY <2>4, LateTakes DEF Frame
  <2> QED
    BY <2>1, <2>2, <2>3, <2>4, Steps
<1> QED
  BY <1>1, <1>2, <1>3 DEF Frame

LEMMA CarriedStep ==
  ASSUME Types, Waits, OnePost, Frame, Carried, [Next]_vars
  PROVE  Carried'
<1> SUFFICES ASSUME NEW q \in Pages, Alive(q)', ~timer'[q], ~dropped'[q]
             PROVE  /\ \A m \in wire' : m.page = q => m.body = mem'[q]
                    /\ sync'[q] \notin {"waiting", "again"} /\ remote'.page = q
                         => remote'.body = mem'[q]
  BY DEF Carried
<1> DEFINE Good == /\ \A m \in wire' : m.page = q => m.body = mem'[q]
                   /\ sync'[q] \notin {"waiting", "again"} /\ remote'.page = q
                        => remote'.body = mem'[q]
<1>1. Alive(q) /\ ~timer[q] /\ ~dropped[q] =>
        /\ \A m \in wire : m.page = q => m.body = mem[q]
        /\ sync[q] \notin {"waiting", "again"} /\ remote.page = q => remote.body = mem[q]
  BY DEF Carried
<1>2. ASSUME NEW p \in Pages, Own(p), p # q
      PROVE  Good
  <2>1. /\ UNCHANGED <<stage[q], mem[q], timer[q], sync[q], dropped[q]>> /\ remote' = remote
    BY <1>2, OwnStep
  <2>2. \A m \in wire' : m.page = q => m \in wire
    BY <1>2, OwnStep, SendAdds
  <2> QED
    BY <1>1, <2>1, <2>2 DEF Alive
<1>3. ASSUME Send(q), \A m \in wire : m.page # q, mem' = mem,
             sync'[q] \in {"waiting", "again"}
      PROVE  Good
  BY <1>3, SendAdds
<1>4. ASSUME Own(q), UNCHANGED <<wire, built>>
      PROVE  Good
  <2>1. remote' = remote
    BY <1>4, OwnStep
  <2>2. CASE Open(q)
    <3>1. (\A m \in wire : m.page # q) /\ remote.page # q
      BY <2>2 DEF Open, Frame, Waits, Alive
    <3> QED
      BY <1>4, <2>1, <3>1
  <2>3. CASE TakeLoad(q)
    <3>1. ~dropped[q] /\ mem'[q] = mem[q] /\ Alive(q) /\ UNCHANGED <<timer, sync>>
      BY <2>3 DEF TakeLoad, Alive, syncVars, Types
    <3> QED
      BY <1>1, <1>4, <2>1, <3>1
  <2>4. CASE LoadFails(q) \/ Get(q)
    BY <1>1, <1>4, <2>1, <2>4 DEF LoadFails, Get, Alive, syncVars, Types
  <2>5. CASE \E c \in Changes : Change(q, c)
    BY <2>5 DEF Change, Types
  <2>6. CASE Sync(q) \/ Retry(q)
    BY <1>4, <2>6, SendAdds, SendsAlone DEF Sync, Retry, Types
  <2>7. CASE Finish(q)
    BY <1>1, <1>4, <2>1, <2>7 DEF Finish, Alive, Types
  <2>8. CASE Leave(q)
    BY <2>8 DEF Leave, Alive, Types
  <2> QED
    BY <1>4, <2>2, <2>3, <2>4, <2>5, <2>6, <2>7, <2>8 DEF Own
<1>5. ASSUME NEW m \in wire, Answered(m)
      PROVE  Good
  <2>1. /\ m.page \in Pages /\ wire' = wire \ {m}
        /\ Alive(q) /\ mem' = mem /\ timer' = timer
    BY <1>5, AnswerTakes DEF Alive
  <2>2. CASE m.page = q
    <3>1. remote' = m /\ dropped' = dropped
      BY <1>5, <2>2, AnswerTakes DEF Save
    <3>2. m.body = mem[q]
      BY <1>1, <2>1, <2>2, <3>1
    <3>3. \A x \in wire' : x.page # q
      BY <2>1, <2>2 DEF OnePost
    <3> QED
      BY <2>1, <3>1, <3>2, <3>3
  <2>3. CASE m.page # q
    <3>1. /\ sync'[q] = sync[q] /\ dropped'[q] = dropped[q]
          /\ remote'.page = q => remote' = remote
      BY <1>5, <2>3, AnswerTakes
    <3> QED
      BY <1>1, <2>1, <3>1
  <2> QED
    BY <2>2, <2>3
<1>6. ASSUME UNCHANGED vars
      PROVE  Good
  BY <1>1, <1>6 DEF vars, Alive
<1>7. ASSUME NEW m \in stray, SaveLate(m)
      PROVE  Good
  <2>1. /\ m.page \in Pages /\ UNCHANGED <<stage, mem, timer, sync, wire>> /\ remote' = m
        /\ Alive(q)
    BY <1>7, LateTakes DEF Alive
  <2>2. CASE m.page = q
    <3>1. sync[q] \in {"waiting", "again"}
      BY <1>7, <2>1, <2>2, LateTakes
    <3>2. ~dropped[q]
      BY <1>7, <2>1, <2>2, <3>1 DEF SaveLate, Types
    <3> QED
      BY <1>1, <2>1, <3>1, <3>2
  <2>3. CASE m.page # q
    BY <1>1, <1>7, <2>1, <2>3, LateTakes
  <2> QED
    BY <2>2, <2>3
<1> HIDE DEF Good
<1>8. Good
  <2>1. CASE Own(q)
    <3>1. \/ UNCHANGED <<wire, built>>
          \/ /\ Send(q) /\ (\A m \in wire : m.page # q) /\ mem' = mem
             /\ sync'[q] \in {"waiting", "again"}
      BY <2>1, OwnStep
    <3> QED
      BY <1>3, <1>4, <2>1, <3>1
  <2> QED
    BY <1>2, <1>5, <1>6, <1>7, <2>1, Steps
<1> QED
  BY <1>8 DEF Good

-----------------------------------------------------------------------------
(* The theorems.                                                           *)

LEMMA Invariance == Spec => []IInv
<1>1. Init => IInv
  BY PagesAssumption, MaxFailsAssumption
  DEF Init, IInv, Types, Waits, OnePost, Frame, Carried, Alive
<1>2. IInv /\ [Next]_vars => IInv'
  BY TypesStep, WaitsStep, OnePostStep, FrameStep, CarriedStep DEF IInv
<1> QED
  BY <1>1, <1>2, PTL DEF Spec

\* Every variable keeps its type, and a page has one request under way at
\* most, exactly while it waits for the answer (syncInFlight).
THEOREM DashboardTypeCorrect == Spec => []TypeOK
<1>1. IInv => TypeOK
  BY TypeParts DEF IInv
<1> QED
  BY <1>1, Invariance, PTL

\* The page that wrote the row last has in memory what it wrote, unless it
\* has something to send or one of its changes was dropped: a payload built
\* after the last change is what is under way, and then what is stored.
THEOREM AgreesUnlessDropped == Spec => []AgreeUnlessDropped
<1>1. IInv => AgreeUnlessDropped
  BY DEF IInv, Carried, AgreeUnlessDropped
<1> QED
  BY <1>1, Invariance, PTL

\* A payload replaces a later one of the same page only if the page had given
\* it up: otherwise what is under way is the last one built, and no stored one
\* is later.
THEOREM RowGoesBackForStrays == Spec => OnlyStraysGoBack
<1>1. IInv /\ [Next]_vars =>
        [remote'.page = remote.page /\ remote'.n < remote.n => remote' \in stray]_vars
  <2> SUFFICES ASSUME IInv, [Next]_vars, remote'.page = remote.page, remote'.n < remote.n
               PROVE  remote' \in stray
    OBVIOUS
  <2> USE DEF IInv
  <2>1. remote' # remote
    BY DEF Types, Post
  <2>2. ASSUME NEW m \in wire, Answered(m), remote' = m
        PROVE  FALSE
    <3>1. m.page \in Pages /\ m.n = built[m.page] /\ built[m.page] \in Nat
      BY DEF OnePost, Types, Post
    <3>2. remote.n <= built[m.page] /\ remote.n \in Nat
      BY <2>2, <3>1 DEF Frame, Types, Post
    <3> QED
      BY <2>2, <3>1, <3>2
  <2> QED
    BY <2>1, <2>2, Steps, OwnStep, AnswerTakes, LateTakes DEF vars
<1> QED
  BY <1>1, Invariance, PTL DEF Spec, OnlyStraysGoBack

=============================================================================
