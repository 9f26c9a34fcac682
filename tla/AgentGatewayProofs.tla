--------------------------- MODULE AgentGatewayProofs ---------------------------
(***************************************************************************)
(* Proofs about AgentGateway, for any number of viewers, connections and   *)
(* shells and any number of messages under way.                            *)
(***************************************************************************)
EXTENDS AgentGateway, FiniteSetTheorems, SequenceTheorems, TLAPS

\* What a connection is before it is dialled: nobody knows of it.
Fresh ==
  \A k \in Conns : handler[k] = "none" =>
    /\ refs[k] = 0 /\ told[k] = None /\ wire[k] = <<>> /\ ~Up(k)
    /\ agents # k /\ cur # k
    /\ \A v \in Viewers : target[v] # k /\ typing[v] # k

\* A viewer holds a connection between h.get and the use of it, and an agent
\* without a connection has no session.
FrameInv ==
  /\ \A v \in Viewers : viewer[v] \in {"open", "close"} <=> target[v] # None
  /\ cur = None => session = None

\* Every "open" among these messages is followed by a "close".
Answered(ms) ==
  \A i \in DOMAIN ms : ms[i] = "open" => \E j \in DOMAIN ms : j > i /\ ms[j] = "close"

HasClose(ms) == \E i \in DOMAIN ms : ms[i] = "close"

\* Unless the last word to the agent was "open", a session it has, or gets
\* from what is under way, is closed by what is under way.
WireInv ==
  \A k \in Conns : Up(k) /\ told[k] # "open" =>
    Answered(wire[k]) /\ (cur = k /\ session # None => HasClose(wire[k]))

\* Viewers that have called Open.
Opened == {v \in Viewers : viewer[v] \notin {"off", "open"}}

\* Each of them took a reference at most, and a late keystroke one more.
Bounded == \A k \in Conns : refs[k] <= Cardinality(Opened) + 1

-----------------------------------------------------------------------------
(* Messages under way.                                                     *)

LEMMA AnsweredTail ==
  ASSUME NEW ms \in Seq(Messages), ms # <<>>, Answered(ms)
  PROVE  /\ Answered(Tail(ms))
         /\ Head(ms) = "open" => HasClose(Tail(ms))
         /\ Head(ms) # "close" /\ HasClose(ms) => HasClose(Tail(ms))
<1>1. /\ Len(ms) \in Nat \ {0} /\ DOMAIN ms = 1..Len(ms) /\ Head(ms) = ms[1]
      /\ DOMAIN Tail(ms) = 1..Len(ms) - 1
      /\ \A i \in 1..Len(ms) - 1 : Tail(ms)[i] = ms[i + 1]
  BY EmptySeq, LenProperties, HeadTailProperties
<1>2. \A j \in DOMAIN ms : j > 1 => j - 1 \in DOMAIN Tail(ms) /\ Tail(ms)[j - 1] = ms[j]
  BY <1>1
<1>3. Answered(Tail(ms))
  <2> SUFFICES ASSUME NEW i \in DOMAIN Tail(ms), Tail(ms)[i] = "open"
               PROVE  \E j \in DOMAIN Tail(ms) : j > i /\ Tail(ms)[j] = "close"
    BY DEF Answered
  <2>1. i + 1 \in DOMAIN ms /\ ms[i + 1] = "open"
    BY <1>1
  <2>2. PICK j \in DOMAIN ms : j > i + 1 /\ ms[j] = "close"
    BY <2>1 DEF Answered
  <2>3. j - 1 \in DOMAIN Tail(ms) /\ j - 1 > i /\ Tail(ms)[j - 1] = "close"
    BY <1>1, <1>2, <2>2
  <2> QED
    BY <2>3
<1>4. Head(ms) = "open" => HasClose(Tail(ms))
  BY <1>1, <1>2 DEF Answered, HasClose
<1>5. Head(ms) # "close" /\ HasClose(ms) => HasClose(Tail(ms))
  BY <1>1, <1>2 DEF HasClose
<1> QED
  BY <1>3, <1>4, <1>5

LEMMA AnsweredAdd ==
  ASSUME NEW ms \in Seq(Messages), NEW m \in {"input", "close"}
  PROVE  /\ Answered(ms) => Answered(ms \o <<m>>)
         /\ HasClose(ms) => HasClose(ms \o <<m>>)
         /\ m = "close" => Answered(ms \o <<m>>) /\ HasClose(ms \o <<m>>)
<1> DEFINE new == ms \o <<m>>
           n == Len(ms) + 1
<1>1. /\ Len(ms) \in Nat /\ DOMAIN ms = 1..Len(ms) /\ DOMAIN new = 1..n
      /\ \A i \in DOMAIN ms : i \in DOMAIN new /\ new[i] = ms[i]
      /\ n \in DOMAIN new /\ new[n] = m
  OBVIOUS
<1>2. \A i \in DOMAIN new : new[i] = "open" => i \in DOMAIN ms /\ ms[i] = "open" /\ i < n
  BY <1>1
<1> HIDE DEF new, n
<1>3. Answered(ms) => Answered(new)
  BY <1>1, <1>2 DEF Answered
<1>4. HasClose(ms) => HasClose(new)
  BY <1>1 DEF HasClose
<1>5. m = "close" => Answered(new) /\ HasClose(new)
  BY <1>1, <1>2 DEF Answered, HasClose
<1> QED
  BY <1>3, <1>4, <1>5 DEF new

-----------------------------------------------------------------------------
(* What the steps do to the hub's variables.                               *)

\* Only the ends of a connection and the network change its state.
LEMMA OnlyLinks ==
  ASSUME [Next]_vars
  PROVE  \/ \E k \in Conns : Dial(k) \/ Break(k) \/ Handler(k)
         \/ UNCHANGED <<agents, handler, link>>
<1>1. CASE UNCHANGED vars
  BY <1>1 DEF vars, hubVars
<1>2. ASSUME NEW v \in Viewers,
             OpenGet(v) \/ Leave(v) \/ InputGet(v) \/ Input(v) \/ Viewer(v)
      PROVE  UNCHANGED <<agents, handler, link>>
  BY <1>2 DEF OpenGet, Leave, InputGet, Input, Viewer, Open, CloseGet, Close, Gone, hubVars
<1>3. CASE Agent \/ WriteReturns
  BY <1>3 DEF Agent, HandleOpen, HandleClose, HandleInput, Disconnect, WriteReturns, hubVars
<1>4. ASSUME NEW s \in Shells, ShellExits(s) \/ ExitCallback(s)
      PROVE  UNCHANGED <<agents, handler, link>>
  BY <1>4 DEF ShellExits, ExitCallback, hubVars
<1> QED
  BY <1>1, <1>2, <1>3, <1>4 DEF Next

\* Only these three calls of a viewer count references and send.
Calls(v) == Open(v) \/ Close(v) \/ Input(v)

LEMMA OnlyCalls ==
  ASSUME [Next]_vars
  PROVE  \/ \E v \in Viewers : Calls(v)
         \/ UNCHANGED <<refs, told>>
<1>1. CASE UNCHANGED vars
  BY <1>1 DEF vars, hubVars
<1>2. ASSUME NEW v \in Viewers,
             OpenGet(v) \/ Leave(v) \/ InputGet(v) \/ CloseGet(v) \/ Gone(v)
      PROVE  UNCHANGED <<refs, told>>
  BY <1>2 DEF OpenGet, Leave, InputGet, CloseGet, Gone, hubVars
<1>3. CASE Agent \/ WriteReturns
  BY <1>3 DEF Agent, HandleOpen, HandleClose, HandleInput, Disconnect, WriteReturns, hubVars
<1>4. ASSUME NEW s \in Shells, ShellExits(s) \/ ExitCallback(s)
      PROVE  UNCHANGED <<refs, told>>
  BY <1>4 DEF ShellExits, ExitCallback, hubVars
<1>5. ASSUME NEW k \in Conns, Dial(k) \/ Break(k) \/ Handler(k)
      PROVE  UNCHANGED <<refs, told>>
  BY <1>5 DEF Dial, Break, Handler, Register, HandlerFails, Unregister
<1> QED
  BY <1>1, <1>2, <1>3, <1>4, <1>5 DEF Next, Viewer, Calls

\* What such a call does: it counts on one connection, and as long as that
\* works the agent is told what the count has become.
Hears(k) ==
  \/ told'[k] = "open" /\ refs'[k] > 0
  \/ told'[k] = "close" /\ refs'[k] = 0 /\ wire'[k] = wire[k] \o <<"close">>
  \/ /\ told'[k] = told[k] /\ (refs'[k] > 0 <=> refs[k] > 0)
     /\ wire'[k] \in {wire[k], wire[k] \o <<"input">>}

Counts(k) ==
  /\ handler[k] # "none"
  /\ refs' \in [Conns -> Nat] /\ wire' \in [Conns -> Seq(Messages)]
  /\ told' \in [Conns -> {"open", "close", None}]
  /\ \A j \in Conns \ {k} : refs'[j] = refs[j] /\ wire'[j] = wire[j] /\ told'[j] = told[j]
  /\ Up(k) => Hears(k)
  /\ UNCHANGED <<agents, handler, link, agentVars, shellVars>>

\* What Sends and SendFails come to.
LEMMA Speaks ==
  ASSUME TypeOK, NEW k \in Conns, NEW m \in {"open", "close", "input"},
         NEW ms \in {<<m>>, <<"open", "input">>}, Sends(k, ms) \/ SendFails(k)
  PROVE  /\ wire' \in [Conns -> Seq(Messages)] /\ told' \in [Conns -> {"open", "close", None}]
         /\ \A j \in Conns \ {k} : wire'[j] = wire[j] /\ told'[j] = told[j]
         /\ Up(k) => /\ wire'[k] = wire[k] \o ms
                     /\ told'[k] = IF ms[1] = "input" THEN told[k] ELSE ms[1]
<1>1. ms \in Seq(Messages) /\ ms[1] \in Messages
  <2>1. CASE ms = <<m>>
    BY <2>1 DEF Messages
  <2>2. CASE ms = <<"open", "input">>
    BY <2>2 DEF Messages
  <2> QED
    BY <2>1, <2>2
<1>2. wire \in [Conns -> Seq(Messages)] /\ told \in [Conns -> {"open", "close", None}]
  BY DEF TypeOK
<1>3. CASE UNCHANGED <<wire, told>> /\ ~Up(k)
  BY <1>2, <1>3
<1>4. CASE /\ wire' = [wire EXCEPT ![k] = @ \o ms]
           /\ told' = [told EXCEPT ![k] = IF ms[1] = "input" THEN @ ELSE ms[1]]
  <2>1. wire[k] \o ms \in Seq(Messages)
    BY <1>1, <1>2, ConcatProperties
  <2>2. (IF ms[1] = "input" THEN told[k] ELSE ms[1]) \in {"open", "close", None}
    BY <1>1, <1>2 DEF Messages
  <2> QED
    BY <1>2, <1>4, <2>1, <2>2
<1> QED
  BY <1>3, <1>4 DEF Sends, SendFails

LEMMA CallCounts ==
  ASSUME TypeOK, Fresh, FrameInv, NEW v \in Viewers, Calls(v)
  PROVE  \E k \in Conns : Counts(k)
<1>1. /\ refs \in [Conns -> Nat]
      /\ wire \in [Conns -> Seq(Messages)] /\ told \in [Conns -> {"open", "close", None}]
  BY FS_CardinalityType, ViewersAssumption DEF TypeOK
<1>2. UNCHANGED <<agents, handler, link, agentVars, shellVars>>
  BY DEF Calls, Open, Close, Input
<1>3. PICK k \in Conns : k = IF Input(v) THEN typing[v] ELSE target[v]
  BY DEF Calls, Open, Close, Input, FrameInv, TypeOK
<1>4. handler[k] # "none" /\ refs[k] \in Nat
  BY <1>1, <1>3 DEF Fresh
<1> DEFINE Quiet == UNCHANGED <<wire, told>>
           Says(ms) == Sends(k, ms) \/ SendFails(k)
\* The six ways in which such a call can go.
<1>5. \/ refs' = [refs EXCEPT ![k] = refs[k] + 1] /\ refs[k] = 0 /\ Says(<<"open">>)
      \/ refs' = [refs EXCEPT ![k] = refs[k] + 1] /\ refs[k] > 0 /\ Quiet
      \/ refs' = [refs EXCEPT ![k] = 0] /\ Says(<<"close">>)
      \/ refs' = [refs EXCEPT ![k] = refs[k] - 1] /\ refs[k] > 1 /\ Quiet
      \/ refs' = [refs EXCEPT ![k] = 1] /\ refs[k] = 0 /\ Says(<<"open", "input">>)
      \/ refs' = refs /\ refs[k] > 0 /\ Says(<<"input">>)
  <2>1. CASE Input(v)
    <3>1. k = typing[v]
      BY <1>3, <2>1
    <3>2. CASE refs[k] = 0
      BY <2>1, <3>1, <3>2, <1>1 DEF Input
    <3>3. CASE refs[k] > 0
      BY <2>1, <3>1, <3>3, <1>1 DEF Input
    <3> QED
      BY <1>4, <3>2, <3>3
  <2>2. CASE Open(v) /\ ~Input(v)
    <3>1. k = target[v]
      BY <1>3, <2>2
    <3>2. CASE refs[k] = 0
      BY <2>2, <3>1, <3>2, <1>1 DEF Open
    <3>3. CASE refs[k] > 0
      BY <2>2, <3>1, <3>3, <1>1 DEF Open
    <3> QED
      BY <1>4, <3>2, <3>3
  <2>3. CASE Close(v) /\ ~Input(v)
    <3>1. k = target[v]
      BY <1>3, <2>3
    <3>2. CASE refs[k] <= 1
      BY <2>3, <3>1, <3>2, <1>1 DEF Close
    <3>3. CASE refs[k] > 1
      BY <2>3, <3>1, <3>3, <1>1, <1>4 DEF Close
    <3> QED
      BY <1>4, <3>2, <3>3
  <2> QED
    BY <2>1, <2>2, <2>3 DEF Calls
<1> DEFINE Heard(ms) ==
      /\ wire' \in [Conns -> Seq(Messages)] /\ told' \in [Conns -> {"open", "close", None}]
      /\ \A j \in Conns \ {k} : wire'[j] = wire[j] /\ told'[j] = told[j]
      /\ Up(k) => /\ wire'[k] = wire[k] \o ms
                  /\ told'[k] = IF ms[1] = "input" THEN told[k] ELSE ms[1]
<1>6. \A m \in {"open", "close", "input"} : Says(<<m>>) => Heard(<<m>>)
  BY Speaks
<1>7. Says(<<"open", "input">>) => Heard(<<"open", "input">>)
  BY Speaks
<1> HIDE DEF Says
<1>8. CASE refs' = [refs EXCEPT ![k] = refs[k] + 1] /\ refs[k] = 0 /\ Says(<<"open">>)
  <2>1. Heard(<<"open">>)
    BY <1>6, <1>8
  <2>2. <<"open">>[1] = "open"
    OBVIOUS
  <2>3. Up(k) => wire'[k] = wire[k] \o <<"open">> /\ told'[k] = "open"
    BY <2>1, <2>2
  <2>4. /\ wire' \in [Conns -> Seq(Messages)] /\ told' \in [Conns -> {"open", "close", None}]
        /\ \A j \in Conns \ {k} : wire'[j] = wire[j] /\ told'[j] = told[j]
    BY <2>1
  <2>5. /\ refs' \in [Conns -> Nat] /\ refs'[k] = 0 + 1
        /\ \A j \in Conns \ {k} : refs'[j] = refs[j]
    BY <1>1, <1>8
  <2>6. Up(k) => Hears(k)
    BY <2>3, <2>5 DEF Hears
  <2>7. Counts(k)
    BY <1>2, <1>4, <2>4, <2>5, <2>6 DEF Counts
  <2> QED
    BY <2>7
<1>9. CASE refs' = [refs EXCEPT ![k] = refs[k] + 1] /\ refs[k] > 0 /\ Quiet
  <2>1. /\ refs' \in [Conns -> Nat] /\ refs'[k] = refs[k] + 1
        /\ \A j \in Conns \ {k} : refs'[j] = refs[j]
    BY <1>1, <1>4, <1>9
  <2>2. Hears(k)
    BY <1>4, <1>9, <2>1 DEF Hears
  <2>3. Counts(k)
    BY <1>1, <1>2, <1>4, <1>9, <2>1, <2>2 DEF Counts
  <2> QED
    BY <2>3
<1>10. CASE refs' = [refs EXCEPT ![k] = 0] /\ Says(<<"close">>)
  <2>1. Heard(<<"close">>)
    BY <1>6, <1>10
  <2>2. <<"close">>[1] = "close"
    OBVIOUS
  <2>3. Up(k) => wire'[k] = wire[k] \o <<"close">> /\ told'[k] = "close"
    BY <2>1, <2>2
  <2>4. /\ wire' \in [Conns -> Seq(Messages)] /\ told' \in [Conns -> {"open", "close", None}]
        /\ \A j \in Conns \ {k} : wire'[j] = wire[j] /\ told'[j] = told[j]
    BY <2>1
  <2>5. /\ refs' \in [Conns -> Nat] /\ refs'[k] = 0
        /\ \A j \in Conns \ {k} : refs'[j] = refs[j]
    BY <1>1, <1>4, <1>10
  <2>6. Up(k) => Hears(k)
    BY <2>3, <2>5 DEF Hears
  <2>7. Counts(k)
    BY <1>2, <1>4, <2>4, <2>5, <2>6 DEF Counts
  <2> QED
    BY <2>7
<1>11. CASE refs' = [refs EXCEPT ![k] = refs[k] - 1] /\ refs[k] > 1 /\ Quiet
  <2>1. /\ refs' \in [Conns -> Nat] /\ refs'[k] = refs[k] - 1
        /\ \A j \in Conns \ {k} : refs'[j] = refs[j]
    BY <1>1, <1>4, <1>11
  <2>2. Hears(k)
    BY <1>4, <1>11, <2>1 DEF Hears
  <2>3. Counts(k)
    BY <1>1, <1>2, <1>4, <1>11, <2>1, <2>2 DEF Counts
  <2> QED
    BY <2>3
<1>12. CASE refs' = [refs EXCEPT ![k] = 1] /\ refs[k] = 0 /\ Says(<<"open", "input">>)
  <2>1. Heard(<<"open", "input">>)
    BY <1>7, <1>12
  <2>2. <<"open", "input">>[1] = "open"
    OBVIOUS
  <2>3. Up(k) => wire'[k] = wire[k] \o <<"open", "input">> /\ told'[k] = "open"
    BY <2>1, <2>2
  <2>4. /\ wire' \in [Conns -> Seq(Messages)] /\ told' \in [Conns -> {"open", "close", None}]
        /\ \A j \in Conns \ {k} : wire'[j] = wire[j] /\ told'[j] = told[j]
    BY <2>1
  <2>5. /\ refs' \in [Conns -> Nat] /\ refs'[k] = 1
        /\ \A j \in Conns \ {k} : refs'[j] = refs[j]
    BY <1>1, <1>4, <1>12
  <2>6. Up(k) => Hears(k)
    BY <2>3, <2>5 DEF Hears
  <2>7. Counts(k)
    BY <1>2, <1>4, <2>4, <2>5, <2>6 DEF Counts
  <2> QED
    BY <2>7
<1>13. CASE refs' = refs /\ refs[k] > 0 /\ Says(<<"input">>)
  <2>1. Heard(<<"input">>)
    BY <1>6, <1>13
  <2>2. Up(k) => told'[k] = told[k]
    BY <2>1
  <2> QED
    BY <1>1, <1>2, <1>4, <1>13, <2>1, <2>2 DEF Counts, Hears
<1> QED
  BY <1>5, <1>8, <1>9, <1>10, <1>11, <1>12, <1>13

\* The steps that neither count nor belong to a link's ends.
LEMMA OtherSteps ==
  ASSUME [Next]_vars
  PROVE  \/ \E k \in Conns : Dial(k) \/ Break(k) \/ Handler(k)
         \/ \E v \in Viewers : Calls(v)
         \/ \E v \in Viewers : OpenGet(v) \/ Leave(v) \/ InputGet(v) \/ CloseGet(v) \/ Gone(v)
         \/ Agent \/ WriteReturns
         \/ \E s \in Shells : ShellExits(s) \/ ExitCallback(s)
         \/ UNCHANGED vars
  BY DEF Next, Viewer, Calls

-----------------------------------------------------------------------------
(* The steps preserve the invariants.                                      *)

LEMMA OnlineStep ==
  ASSUME TypeOK, Fresh, OnlineMeansServed, [Next]_vars
  PROVE  OnlineMeansServed'
<1> USE NoneAssumption
<1>1. CASE UNCHANGED <<agents, handler, link>>
  BY <1>1 DEF OnlineMeansServed, Up
<1>2. ASSUME NEW k \in Conns, Dial(k)
      PROVE  OnlineMeansServed'
  BY <1>2 DEF Dial, OnlineMeansServed, Up, Fresh, TypeOK
<1>3. ASSUME NEW k \in Conns, Break(k)
      PROVE  OnlineMeansServed'
  BY <1>3 DEF Break, OnlineMeansServed, Up, TypeOK
<1>4. ASSUME NEW k \in Conns, Register(k)
      PROVE  OnlineMeansServed'
  BY <1>4 DEF Register, OnlineMeansServed, Up, TypeOK
<1>5. ASSUME NEW k \in Conns, HandlerFails(k)
      PROVE  OnlineMeansServed'
  BY <1>5 DEF HandlerFails, OnlineMeansServed, Up, TypeOK
<1>6. ASSUME NEW k \in Conns, Unregister(k)
      PROVE  OnlineMeansServed'
  BY <1>6 DEF Unregister, OnlineMeansServed, Up, TypeOK
<1> QED
  BY <1>1, <1>2, <1>3, <1>4, <1>5, <1>6, OnlyLinks DEF Handler

LEMMA FreshStep ==
  ASSUME TypeOK, Fresh, FrameInv, [Next]_vars
  PROVE  Fresh'
<1> USE NoneAssumption
<1> SUFFICES ASSUME NEW k \in Conns, handler'[k] = "none"
             PROVE  /\ refs'[k] = 0 /\ told'[k] = None /\ wire'[k] = <<>> /\ ~Up(k)'
                    /\ agents' # k /\ cur' # k
                    /\ \A v \in Viewers : target'[v] # k /\ typing'[v] # k
  BY DEF Fresh
<1>1. handler[k] = "none"
  <2>1. CASE UNCHANGED <<agents, handler, link>>
    BY <2>1
  <2>2. ASSUME NEW j \in Conns, Dial(j) \/ Break(j) \/ Handler(j)
        PROVE  handler[k] = "none"
    BY <2>2 DEF Dial, Break, Handler, Register, HandlerFails, Unregister, TypeOK
  <2> QED
    BY <2>1, <2>2, OnlyLinks
<1>2. /\ refs[k] = 0 /\ told[k] = None /\ wire[k] = <<>> /\ ~Up(k)
      /\ agents # k /\ cur # k
      /\ \A v \in Viewers : target[v] # k /\ typing[v] # k
  BY <1>1 DEF Fresh
<1>3. CASE UNCHANGED vars
  BY <1>2, <1>3 DEF vars, hubVars, agentVars, viewerVars, Up
<1>4. ASSUME NEW j \in Conns, Dial(j) \/ Break(j) \/ Handler(j), handler'[k] = "none"
      PROVE  UNCHANGED <<refs, told, wire, viewerVars>> /\ ~Up(k)' /\ agents' # k /\ cur' # k
  BY <1>1, <1>2, <1>4
  DEF Dial, Break, Handler, Register, HandlerFails, Unregister, agentVars, Up, TypeOK
<1>5. ASSUME NEW v \in Viewers, Calls(v)
      PROVE  /\ UNCHANGED <<agents, link, cur>> /\ UNCHANGED <<refs[k], told[k], wire[k]>>
             /\ \A u \in Viewers : target'[u] # k /\ typing'[u] # k
  <2>1. PICK j \in Conns : Counts(j)
    BY <1>5, CallCounts
  <2>2. UNCHANGED <<agents, link, cur>> /\ UNCHANGED <<refs[k], told[k], wire[k]>>
    BY <1>1, <2>1 DEF Counts, agentVars
  <2>3. \A u \in Viewers : target'[u] # k /\ typing'[u] # k
    BY <1>2, <1>5 DEF Calls, Open, Close, Input, TypeOK
  <2> QED
    BY <2>2, <2>3
<1>6. ASSUME NEW v \in Viewers,
             OpenGet(v) \/ Leave(v) \/ InputGet(v) \/ CloseGet(v) \/ Gone(v)
      PROVE  UNCHANGED <<hubVars, cur>> /\ \A u \in Viewers : target'[u] # k /\ typing'[u] # k
  BY <1>2, <1>6 DEF OpenGet, Leave, InputGet, CloseGet, Gone, agentVars, TypeOK
<1>7. ASSUME Agent \/ WriteReturns
      PROVE  /\ UNCHANGED <<agents, link, refs, told, viewerVars>> /\ wire'[k] = wire[k]
             /\ cur' # k
  BY <1>2, <1>7
  DEF Agent, HandleOpen, HandleClose, HandleInput, Disconnect, WriteReturns, Takes, hubVars,
        TypeOK
<1>8. ASSUME NEW s \in Shells, ShellExits(s) \/ ExitCallback(s)
      PROVE  UNCHANGED <<hubVars, viewerVars, cur>>
  BY <1>8 DEF ShellExits, ExitCallback, agentVars
<1> QED
  BY <1>2, <1>3, <1>4, <1>5, <1>6, <1>7, <1>8, OtherSteps DEF hubVars, viewerVars, Up

LEMMA FrameStep ==
  ASSUME TypeOK, FrameInv, [Next]_vars
  PROVE  FrameInv'
<1> USE NoneAssumption
<1>1. (\A v \in Viewers : viewer[v] \in {"open", "close"} <=> target[v] # None)'
  <2>1. CASE UNCHANGED viewerVars
    BY <2>1 DEF FrameInv, viewerVars
  <2>2. ASSUME NEW v \in Viewers,
               \/ OpenGet(v) \/ Leave(v) \/ InputGet(v) \/ CloseGet(v) \/ Gone(v)
               \/ Calls(v)
        PROVE  (\A u \in Viewers : viewer[u] \in {"open", "close"} <=> target[u] # None)'
    BY <2>2
    DEF OpenGet, Leave, InputGet, CloseGet, Gone, Calls, Open, Close, Input, FrameInv, TypeOK
  <2>3. \/ UNCHANGED viewerVars
        \/ \E v \in Viewers : \/ OpenGet(v) \/ Leave(v) \/ InputGet(v) \/ CloseGet(v) \/ Gone(v)
                             \/ Calls(v)
    BY OtherSteps DEF Dial, Break, Handler, Register, HandlerFails, Unregister, Agent,
       HandleOpen, HandleClose, HandleInput, Disconnect, WriteReturns, ShellExits,
       ExitCallback, vars
  <2> QED
    BY <2>1, <2>2, <2>3
<1>2. (cur = None => session = None)'
  <2>1. CASE UNCHANGED <<cur, session>>
    BY <2>1 DEF FrameInv
  <2>2. CASE (\E k \in Conns : Dial(k)) \/ Agent \/ (\E s \in Shells : ExitCallback(s))
    BY <2>2 DEF Dial, Agent, HandleOpen, HandleClose, HandleInput, Disconnect, Takes,
       ExitCallback, FrameInv
  <2>3. \/ UNCHANGED <<cur, session>>
        \/ (\E k \in Conns : Dial(k)) \/ Agent \/ (\E s \in Shells : ExitCallback(s))
    BY OtherSteps DEF Break, Handler, Register, HandlerFails, Unregister, OpenGet, Leave,
       InputGet, CloseGet, Gone, Calls, Open, Close, Input, WriteReturns, ShellExits,
       vars, agentVars
  <2> QED
    BY <2>1, <2>2, <2>3
<1> QED
  BY <1>1, <1>2 DEF FrameInv

LEMMA MatchStep ==
  ASSUME TypeOK, Fresh, FrameInv, ReferencesMatchWhatAgentWasTold, [Next]_vars
  PROVE  ReferencesMatchWhatAgentWasTold'
<1> USE NoneAssumption
<1> SUFFICES ASSUME NEW k \in Conns, Up(k)'
             PROVE  refs'[k] > 0 <=> told'[k] = "open"
  BY DEF ReferencesMatchWhatAgentWasTold
<1>1. Up(k) \/ handler[k] = "none"
  BY OnlyLinks DEF Dial, Break, Handler, Register, HandlerFails, Unregister, Up, TypeOK
<1>2. refs[k] > 0 <=> told[k] = "open"
  BY <1>1 DEF Fresh, ReferencesMatchWhatAgentWasTold
<1>3. CASE UNCHANGED <<refs, told>>
  BY <1>2, <1>3
<1>4. ASSUME NEW v \in Viewers, Calls(v)
      PROVE  refs'[k] > 0 <=> told'[k] = "open"
  <2>1. PICK j \in Conns : Counts(j)
    BY <1>4, CallCounts
  <2>2. CASE j # k
    BY <1>2, <2>1, <2>2 DEF Counts
  <2>3. CASE j = k
    <3>1. Hears(k)
      BY <1>1, <2>1, <2>3 DEF Counts
    <3> QED
      BY <1>2, <3>1 DEF Hears
  <2> QED
    BY <2>2, <2>3
<1> QED
  BY <1>3, <1>4, OnlyCalls

LEMMA WireStep ==
  ASSUME TypeOK, Fresh, FrameInv, WireInv, [Next]_vars
  PROVE  WireInv'
<1> USE NoneAssumption
<1> DEFINE Holds(k) == Answered(wire[k]) /\ (cur = k /\ session # None => HasClose(wire[k]))
<1> SUFFICES ASSUME NEW k \in Conns, Up(k)', told'[k] # "open"
             PROVE  Holds(k)'
  BY DEF WireInv
<1>1. wire[k] \in Seq(Messages)
  BY DEF TypeOK
<1>2. Up(k) /\ told[k] # "open" => Holds(k)
  BY DEF WireInv
<1>3. ASSUME UNCHANGED <<told, link, wire, cur, session>>
      PROVE  Holds(k)'
  BY <1>2, <1>3 DEF Up
<1>4. ASSUME NEW j \in Conns, Dial(j)
      PROVE  Holds(k)'
  <2>1. CASE j = k
    BY <1>4, <2>1 DEF Dial, Fresh, FrameInv, Answered
  <2>2. CASE j # k
    BY <1>2, <1>4, <2>2 DEF Dial, Up, TypeOK
  <2> QED
    BY <2>1, <2>2
<1>5. ASSUME NEW j \in Conns, Break(j) \/ Handler(j)
      PROVE  Holds(k)'
  BY <1>2, <1>5 DEF Break, Handler, Register, HandlerFails, Unregister, agentVars, Up, TypeOK
<1>6. ASSUME NEW v \in Viewers, Calls(v)
      PROVE  Holds(k)'
  <2>1. PICK j \in Conns : Counts(j)
    BY <1>6, CallCounts
  <2>2. Up(k) /\ UNCHANGED <<cur, session>>
    BY <2>1 DEF Counts, Up, agentVars
  <2>3. CASE j # k
    BY <1>2, <2>1, <2>2, <2>3 DEF Counts
  <2>4. CASE j = k
    <3>1. Hears(k)
      BY <2>1, <2>2, <2>4 DEF Counts
    <3>2. \/ wire'[k] = wire[k] \o <<"close">>
          \/ told[k] # "open" /\ wire'[k] \in {wire[k], wire[k] \o <<"input">>}
      BY <3>1 DEF Hears
    <3> QED
      BY <1>1, <1>2, <2>2, <3>2, AnsweredAdd
  <2> QED
    BY <2>3, <2>4
<1>7. ASSUME Agent
      PROVE  Holds(k)'
  <2>1. Up(k) /\ told[k] # "open" /\ Holds(k) /\ cur \in Conns
    BY <1>2, <1>7
    DEF Agent, HandleOpen, HandleClose, HandleInput, Disconnect, Takes, Up, TypeOK
  <2>2. CASE Disconnect
    BY <2>1, <2>2 DEF Disconnect, TypeOK
  <2>3. ASSUME NEW m \in Messages, Takes(m), k # cur, cur' = cur
        PROVE  Holds(k)'
    BY <2>1, <2>3 DEF Takes, TypeOK
  <2>4. ASSUME NEW m \in Messages, Takes(m), k = cur
        PROVE  /\ wire'[k] = Tail(wire[k]) /\ Answered(wire'[k])
               /\ m = "open" => HasClose(wire'[k])
               /\ m # "close" /\ HasClose(wire[k]) => HasClose(wire'[k])
    <3>1. wire'[k] = Tail(wire[k]) /\ wire[k] # <<>> /\ Head(wire[k]) = m
      BY <2>4 DEF Takes, TypeOK
    <3> QED
      BY <1>1, <2>1, <3>1, AnsweredTail
  <2>5. CASE HandleOpen
    BY <2>3, <2>4, <2>5 DEF HandleOpen, Messages
  <2>6. CASE HandleClose
    BY <2>3, <2>4, <2>6 DEF HandleClose, Messages
  <2>7. CASE HandleInput
    BY <2>1, <2>3, <2>4, <2>7 DEF HandleInput, Messages
  <2> QED
    BY <1>7, <2>2, <2>5, <2>6, <2>7 DEF Agent
<1>8. ASSUME NEW s \in Shells, ShellExits(s) \/ ExitCallback(s)
      PROVE  Holds(k)'
  BY <1>2, <1>8 DEF ShellExits, ExitCallback, hubVars, agentVars, Up
<1>9. ASSUME NEW v \in Viewers,
             OpenGet(v) \/ Leave(v) \/ InputGet(v) \/ CloseGet(v) \/ Gone(v)
      PROVE  UNCHANGED <<told, link, wire, cur, session>>
  BY <1>9 DEF OpenGet, Leave, InputGet, CloseGet, Gone, hubVars, agentVars
<1>10. ASSUME WriteReturns \/ UNCHANGED vars
       PROVE  UNCHANGED <<told, link, wire, cur, session>>
  BY <1>10 DEF WriteReturns, vars, hubVars, agentVars
<1> HIDE DEF Holds
<1> QED
  BY <1>3, <1>4, <1>5, <1>6, <1>7, <1>8, <1>9, <1>10, OtherSteps

-----------------------------------------------------------------------------
(* How many references there can be, and for whom.                         *)

\* Whatever is not a viewer's call, and no progress of a viewer.
LEMMA ViewersStay ==
  ASSUME [Next]_vars
  PROVE  \/ \E v \in Viewers : Calls(v)
         \/ /\ UNCHANGED <<refs, told>>
            /\ \/ UNCHANGED <<viewer, target>>
               \/ \E v \in Viewers : OpenGet(v) \/ Leave(v) \/ CloseGet(v) \/ Gone(v)
<1>1. \/ UNCHANGED <<viewer, target>>
      \/ \E v \in Viewers : OpenGet(v) \/ Leave(v) \/ CloseGet(v) \/ Gone(v)
      \/ \E v \in Viewers : Calls(v)
  BY OtherSteps
  DEF Dial, Break, Handler, Register, HandlerFails, Unregister, InputGet, Agent, HandleOpen,
      HandleClose, HandleInput, Disconnect, WriteReturns, ShellExits, ExitCallback, vars, viewerVars
<1> QED
  BY <1>1, OnlyCalls

\* The call that counts v on k, and what it does to the count.
LEMMA OneCall ==
  ASSUME TypeOK, Fresh, FrameInv, NEW v \in Viewers, Calls(v)
  PROVE  /\ refs' \in [Conns -> Nat]
         /\ \E k \in Conns :
              /\ \A j \in Conns \ {k} : refs'[j] = refs[j]
              /\ handler[k] # "none"
              /\ \/ /\ Open(v) /\ target[v] = k /\ refs'[k] = refs[k] + 1
                 \/ /\ Close(v) /\ target[v] = k
                    /\ refs'[k] = IF refs[k] <= 1 THEN 0 ELSE refs[k] - 1
                 \/ /\ Input(v) /\ refs'[k] = IF refs[k] = 0 THEN 1 ELSE refs[k]
<1>1. refs \in [Conns -> Nat]
  BY FS_CardinalityType, ViewersAssumption DEF TypeOK
<1>2. CASE Open(v)
  <2>1. PICK k \in Conns : k = target[v]
    BY <1>2 DEF Open, FrameInv, TypeOK
  <2>2. refs' = [refs EXCEPT ![k] = refs[k] + 1] /\ handler[k] # "none"
    BY <1>2, <2>1 DEF Open, Fresh
  <2> QED
    BY <1>1, <1>2, <2>1, <2>2
<1>3. CASE Close(v)
  <2>1. PICK k \in Conns : k = target[v]
    BY <1>3 DEF Close, FrameInv, TypeOK
  <2>2. /\ refs' = [refs EXCEPT ![k] = IF refs[k] <= 1 THEN 0 ELSE refs[k] - 1]
        /\ handler[k] # "none"
    BY <1>3, <2>1 DEF Close, Fresh
  <2> QED
    BY <1>1, <1>3, <2>1, <2>2
<1>4. CASE Input(v)
  <2>1. PICK k \in Conns : k = typing[v]
    BY <1>4 DEF Input, TypeOK
  <2>2. refs' = [refs EXCEPT ![k] = IF refs[k] = 0 THEN 1 ELSE refs[k]] /\ handler[k] # "none"
    BY <1>4, <2>1 DEF Input, Fresh
  <2> QED
    BY <1>1, <1>4, <2>1, <2>2
<1> QED
  BY <1>2, <1>3, <1>4 DEF Calls

LEMMA BoundedStep ==
  ASSUME TypeOK, Fresh, FrameInv, Bounded, [Next]_vars
  PROVE  Bounded'
<1>1. refs \in [Conns -> Nat]
  BY FS_CardinalityType, ViewersAssumption DEF TypeOK
<1>2. IsFiniteSet(Opened) /\ IsFiniteSet(Opened') /\ Cardinality(Opened) \in Nat
      /\ Cardinality(Opened') \in Nat
  BY FS_CardinalityType, FS_Subset, ViewersAssumption DEF Opened
<1>3. Opened \subseteq Opened'
  <2>1. CASE UNCHANGED <<viewer, target>>
    BY <2>1 DEF Opened
  <2>2. ASSUME NEW v \in Viewers,
               OpenGet(v) \/ Leave(v) \/ CloseGet(v) \/ Gone(v) \/ Calls(v)
        PROVE  Opened \subseteq Opened'
    BY <2>2 DEF OpenGet, Leave, CloseGet, Gone, Calls, Open, Close, Input, Opened, TypeOK
  <2> QED
    BY <2>1, <2>2, ViewersStay
<1>4. Cardinality(Opened) <= Cardinality(Opened')
  BY <1>2, <1>3, FS_Subset
<1> SUFFICES ASSUME NEW k \in Conns
             PROVE  refs'[k] <= Cardinality(Opened') + 1
  BY DEF Bounded
<1>5. refs[k] <= Cardinality(Opened) + 1 /\ refs[k] \in Nat
  BY <1>1 DEF Bounded
<1>6. CASE UNCHANGED <<refs, told>>
  BY <1>2, <1>4, <1>5, <1>6
<1>7. ASSUME NEW v \in Viewers, Calls(v)
      PROVE  refs'[k] <= Cardinality(Opened') + 1
  <2>1. /\ refs'[k] \in Nat
        /\ \/ refs'[k] <= refs[k] \/ refs'[k] <= 1
           \/ Open(v) /\ refs'[k] = refs[k] + 1
    BY <1>1, <1>7, OneCall
  <2>2. ASSUME Open(v)
        PROVE  Cardinality(Opened) + 1 <= Cardinality(Opened')
    <3>1. v \notin Opened /\ Opened \cup {v} \subseteq Opened'
      BY <1>3, <2>2 DEF Open, Opened, TypeOK
    <3>2. Cardinality(Opened \cup {v}) = Cardinality(Opened) + 1
      BY <1>2, <3>1, FS_AddElement
    <3> QED
      BY <1>2, <3>1, <3>2, FS_Subset
  <2> QED
    BY <1>2, <1>4, <1>5, <2>1, <2>2
<1> QED
  BY <1>6, <1>7, OnlyCalls

LEMMA CountedStep ==
  ASSUME TypeOK, Fresh, FrameInv, AttachedViewersAreCounted, [Next]_vars
  PROVE  AttachedViewersAreCounted'
<1> USE NoneAssumption
<1> SUFFICES ASSUME NEW k \in Conns, \A j \in Conns \ {k} : handler'[j] = "none"
             PROVE  Cardinality(Holders(k))' <= refs'[k]
  BY DEF AttachedViewersAreCounted
<1>1. \A j \in Conns \ {k} : handler[j] = "none"
  BY OnlyLinks DEF Dial, Break, Handler, Register, HandlerFails, Unregister, TypeOK
<1>2. Cardinality(Holders(k)) <= refs[k]
  BY <1>1 DEF AttachedViewersAreCounted
<1>3. /\ IsFiniteSet(Holders(k)) /\ IsFiniteSet(Holders(k)')
      /\ Cardinality(Holders(k)) \in Nat /\ Cardinality(Holders(k)') \in Nat
      /\ refs[k] \in Nat
  BY FS_CardinalityType, FS_Subset, ViewersAssumption DEF Holders, TypeOK
<1>4. ASSUME Holders(k)' \subseteq Holders(k), refs'[k] = refs[k]
      PROVE  Cardinality(Holders(k))' <= refs'[k]
  BY <1>2, <1>3, <1>4, FS_Subset
<1>5. CASE UNCHANGED <<viewer, target>> /\ refs' = refs
  BY <1>4, <1>5 DEF Holders
<1>6. ASSUME NEW v \in Viewers, OpenGet(v) \/ Leave(v) \/ CloseGet(v) \/ Gone(v)
      PROVE  Holders(k)' \subseteq Holders(k)
  BY <1>6 DEF OpenGet, Leave, CloseGet, Gone, Holders, TypeOK
<1>7. ASSUME NEW v \in Viewers, Calls(v)
      PROVE  Cardinality(Holders(k))' <= refs'[k]
  <2>1. PICK j \in Conns :
             /\ handler[j] # "none"
             /\ \/ /\ Open(v) /\ target[v] = j /\ refs'[j] = refs[j] + 1
                \/ /\ Close(v) /\ target[v] = j
                   /\ refs'[j] = IF refs[j] <= 1 THEN 0 ELSE refs[j] - 1
                \/ /\ Input(v) /\ refs'[j] = IF refs[j] = 0 THEN 1 ELSE refs[j]
    BY <1>7, OneCall
  <2>2. j = k
    BY <1>1, <2>1
  <2>3. CASE Open(v) /\ refs'[k] = refs[k] + 1
    <3>1. v \notin Holders(k) /\ Holders(k)' \subseteq Holders(k) \cup {v}
      BY <2>3 DEF Open, Holders, TypeOK
    <3>2. /\ IsFiniteSet(Holders(k) \cup {v})
          /\ Cardinality(Holders(k) \cup {v}) = Cardinality(Holders(k)) + 1
      BY <1>3, <3>1, FS_AddElement
    <3>3. Cardinality(Holders(k)') <= Cardinality(Holders(k) \cup {v})
      BY <3>1, <3>2, FS_Subset
    <3> QED
      BY <1>2, <1>3, <2>3, <3>2, <3>3
  <2>4. CASE /\ Close(v) /\ target[v] = k
             /\ refs'[k] = IF refs[k] <= 1 THEN 0 ELSE refs[k] - 1
    <3>1. v \in Holders(k) /\ Holders(k)' \subseteq Holders(k) \ {v}
      BY <2>4 DEF Close, Holders, TypeOK
    <3>2. /\ IsFiniteSet(Holders(k) \ {v})
          /\ Cardinality(Holders(k) \ {v}) = Cardinality(Holders(k)) - 1
      BY <1>3, <3>1, FS_RemoveElement
    <3>3. Cardinality(Holders(k)') <= Cardinality(Holders(k)) - 1
      BY <3>1, <3>2, FS_Subset
    <3> QED
      BY <1>2, <1>3, <2>4, <3>3
  <2>5. CASE Input(v) /\ refs'[k] = IF refs[k] = 0 THEN 1 ELSE refs[k]
    <3>1. Holders(k)' = Holders(k)
      BY <2>5 DEF Input, Holders
    <3> QED
      BY <1>2, <1>3, <2>5, <3>1
  <2> QED
    BY <2>1, <2>2, <2>3, <2>4, <2>5
<1> QED
  BY <1>4, <1>5, <1>6, <1>7, ViewersStay

LEMMA TypeStep ==
  ASSUME TypeOK, Fresh, FrameInv, Bounded', [Next]_vars
  PROVE  TypeOK'
<1> USE NoneAssumption
<1>1. refs' \in [Conns -> 0..Cardinality(Viewers) + 1]
  <2>1. refs' \in [Conns -> Nat]
    BY OneCall, OnlyCalls, FS_CardinalityType, ViewersAssumption DEF TypeOK
  <2>2. Opened' \subseteq Viewers
    BY DEF Opened
  <2>3. /\ Cardinality(Opened') <= Cardinality(Viewers)
        /\ Cardinality(Opened') \in Nat /\ Cardinality(Viewers) \in Nat
    BY <2>2, FS_Subset, FS_CardinalityType, ViewersAssumption
  <2>4. \A k \in Conns : refs'[k] \in 0..Cardinality(Viewers) + 1
    BY <2>1, <2>3 DEF Bounded
  <2> QED
    BY <2>1, <2>4
<1>2. /\ agents' \in Conns \cup {None}
      /\ handler' \in [Conns -> {"none", "accepted", "reading", "leaving", "gone"}]
      /\ link' \in [Conns -> {"up", "down"}]
  <2> DEFINE Goal == /\ agents' \in Conns \cup {None}
                     /\ handler' \in [Conns -> {"none", "accepted", "reading", "leaving", "gone"}]
                     /\ link' \in [Conns -> {"up", "down"}]
  <2>1. ASSUME NEW k \in Conns, Dial(k) \/ Break(k)
        PROVE  Goal
    BY <2>1 DEF Dial, Break, TypeOK
  <2>2. ASSUME NEW k \in Conns, Register(k)
        PROVE  Goal
    <3>1. \A j \in Conns : (IF j = agents THEN "down" ELSE link[j]) \in {"up", "down"}
      BY DEF TypeOK
    <3> QED
      BY <2>2, <3>1 DEF Register, TypeOK
  <2>3. ASSUME NEW k \in Conns, HandlerFails(k) \/ Unregister(k)
        PROVE  Goal
    BY <2>3 DEF HandlerFails, Unregister, TypeOK
  <2>4. CASE UNCHANGED <<agents, handler, link>>
    BY <2>4 DEF TypeOK
  <2> QED
    BY <2>1, <2>2, <2>3, <2>4, OnlyLinks DEF Handler
<1>3. /\ wire' \in [Conns -> Seq(Messages)]
      /\ told' \in [Conns -> {"open", "close", None}]
  <2>1. CASE UNCHANGED <<wire, told>>
    BY <2>1 DEF TypeOK
  <2>2. ASSUME NEW v \in Viewers, Calls(v)
        PROVE  wire' \in [Conns -> Seq(Messages)] /\ told' \in [Conns -> {"open", "close", None}]
    BY <2>2, CallCounts DEF Counts
  <2>3. CASE Agent
    <3>1. told' = told /\ cur \in Conns
      BY <2>3 DEF Agent, HandleOpen, HandleClose, HandleInput, Disconnect, Takes, TypeOK
    <3>2. CASE Disconnect
      BY <3>1, <3>2, EmptySeq DEF Disconnect, TypeOK
    <3>3. CASE wire[cur] # <<>> /\ wire' = [wire EXCEPT ![cur] = Tail(wire[cur])]
      <4>1. Tail(wire[cur]) \in Seq(Messages)
        BY <3>1, <3>3, HeadTailProperties DEF TypeOK
      <4> QED
        BY <3>1, <3>3, <4>1 DEF TypeOK
    <3> QED
      BY <2>3, <3>2, <3>3 DEF Agent, HandleOpen, HandleClose, HandleInput, Takes
  <2> QED
    BY <2>1, <2>2, <2>3, OtherSteps
    DEF Dial, Break, Handler, Register, HandlerFails, Unregister, OpenGet, Leave, InputGet,
        CloseGet, Gone, WriteReturns, ShellExits, ExitCallback, vars, hubVars
<1>4. /\ cur' \in Conns \cup {None}
      /\ session' \in Shells \cup {None} /\ writing' \in Shells \cup {None}
      /\ shell' \in [Shells -> {"unborn", "running", "dead"}]
      /\ home' \in [Shells -> Conns \cup {None}]
      /\ stopped' \in [Shells -> BOOLEAN] /\ exited' \in [Shells -> BOOLEAN]
  <2>1. CASE UNCHANGED <<agentVars, shellVars>>
    BY <2>1 DEF TypeOK, agentVars, shellVars
  <2>2. CASE HandleOpen
    <3>1. cur \in Conns
      BY <2>2 DEF HandleOpen, Takes, TypeOK
    <3>2. CASE UNCHANGED <<session, shell, home>>
      BY <2>2, <3>2 DEF HandleOpen, TypeOK
    <3>3. ASSUME NEW s \in Shells, shell' = [shell EXCEPT ![s] = "running"],
                 home' = [home EXCEPT ![s] = cur], session' = s
          PROVE  /\ session' \in Shells \cup {None}
                 /\ shell' \in [Shells -> {"unborn", "running", "dead"}]
                 /\ home' \in [Shells -> Conns \cup {None}]
      BY <3>1, <3>3 DEF TypeOK
    <3> QED
      BY <2>2, <3>2, <3>3 DEF HandleOpen, TypeOK
  <2>3. CASE HandleClose \/ Disconnect
    BY <2>3 DEF HandleClose, Disconnect, Stop, TypeOK
  <2>4. CASE (\E k \in Conns : Dial(k)) \/ HandleInput \/ WriteReturns
    BY <2>4 DEF Dial, HandleInput, WriteReturns, TypeOK, shellVars
  <2>5. ASSUME NEW s \in Shells, ShellExits(s)
        PROVE  /\ UNCHANGED <<agentVars, home, stopped, exited>>
               /\ shell' \in [Shells -> {"unborn", "running", "dead"}]
    BY <2>5 DEF ShellExits, TypeOK
  <2>6. ASSUME NEW s \in Shells, ExitCallback(s)
        PROVE  /\ UNCHANGED <<cur, writing, shell, home>> /\ session' \in Shells \cup {None}
               /\ stopped' \in [Shells -> BOOLEAN] /\ exited' \in [Shells -> BOOLEAN]
    BY <2>6 DEF ExitCallback, Stop, TypeOK
  <2>7. CASE \E s \in Shells : ShellExits(s) \/ ExitCallback(s)
    BY <2>5, <2>6, <2>7 DEF TypeOK, agentVars
  <2> QED
    BY <2>1, <2>2, <2>3, <2>4, <2>7, OtherSteps
    DEF Break, Handler, Register, HandlerFails, Unregister, OpenGet, Leave, InputGet,
        CloseGet, Gone, Calls, Open, Close, Input, Agent, vars
<1>5. /\ viewer' \in [Viewers -> {"off", "open", "attached", "leaving", "close", "left", "gone"}]
      /\ target' \in [Viewers -> Conns \cup {None}] /\ typing' \in [Viewers -> Conns \cup {None}]
  <2>1. CASE UNCHANGED viewerVars
    BY <2>1 DEF TypeOK, viewerVars
  <2>2. ASSUME NEW v \in Viewers,
               OpenGet(v) \/ Leave(v) \/ InputGet(v) \/ CloseGet(v) \/ Gone(v) \/ Calls(v)
        PROVE  /\ viewer' \in [Viewers -> {"off", "open", "attached", "leaving", "close",
                                          "left", "gone"}]
               /\ target' \in [Viewers -> Conns \cup {None}]
               /\ typing' \in [Viewers -> Conns \cup {None}]
    <3>1. CASE OpenGet(v)
      BY <3>1 DEF OpenGet, TypeOK
    <3>2. CASE CloseGet(v)
      BY <3>2 DEF CloseGet, TypeOK
    <3>3. ASSUME NEW x \in {"attached", "leaving", "left", "gone"},
                 viewer' = [viewer EXCEPT ![v] = x]
          PROVE  viewer' \in [Viewers -> {"off", "open", "attached", "leaving", "close",
                                        "left", "gone"}]
      BY <3>3 DEF TypeOK
    <3>4. CASE Leave(v) \/ Gone(v)
      BY <3>3, <3>4 DEF Leave, Gone, TypeOK
    <3>5. CASE InputGet(v)
      BY <3>5 DEF InputGet, TypeOK
    <3>6. CASE Input(v)
      BY <3>6 DEF Input, TypeOK
    <3>7. ASSUME target' = [target EXCEPT ![v] = None]
          PROVE  target' \in [Viewers -> Conns \cup {None}]
      BY <3>7 DEF TypeOK
    <3>8. CASE Open(v) \/ Close(v)
      BY <3>3, <3>7, <3>8 DEF Open, Close, TypeOK
    <3> QED
      BY <2>2, <3>1, <3>2, <3>4, <3>5, <3>6, <3>8 DEF Calls
  <2> QED
    BY <2>1, <2>2, OtherSteps
    DEF Dial, Break, Handler, Register, HandlerFails, Unregister, Agent, HandleOpen,
        HandleClose, HandleInput, Disconnect, WriteReturns, ShellExits, ExitCallback, vars
<1> QED
  BY <1>1, <1>2, <1>3, <1>4, <1>5 DEF TypeOK

-----------------------------------------------------------------------------
(* The theorems.                                                           *)

IInv ==
  /\ TypeOK /\ Fresh /\ FrameInv /\ Bounded
  /\ OnlineMeansServed /\ ReferencesMatchWhatAgentWasTold
  /\ WireInv /\ AttachedViewersAreCounted

\* The parts of the argument hold together in every state.
LEMMA Invariance == Spec => []IInv
<1>1. Init => IInv
  <2> SUFFICES ASSUME Init
               PROVE  IInv
    OBVIOUS
  <2>1. TypeOK
    BY FS_CardinalityType, ViewersAssumption, EmptySeq DEF Init, TypeOK
  <2>2. Fresh /\ FrameInv /\ OnlineMeansServed /\ ReferencesMatchWhatAgentWasTold /\ WireInv
    BY NoneAssumption
    DEF Init, Fresh, FrameInv, OnlineMeansServed, ReferencesMatchWhatAgentWasTold, WireInv, Up
  <2>3. Bounded
    <3>1. Cardinality(Opened) \in Nat
      BY FS_CardinalityType, FS_Subset, ViewersAssumption DEF Opened
    <3> QED
      BY <3>1 DEF Init, Bounded
  <2>4. AttachedViewersAreCounted
    <3>1. \A k \in Conns : Holders(k) = {} /\ refs[k] = 0
      BY DEF Init, Holders
    <3>2. Cardinality({}) = 0
      BY FS_EmptySet
    <3> QED
      BY <3>1, <3>2 DEF AttachedViewersAreCounted
  <2> QED
    BY <2>1, <2>2, <2>3, <2>4 DEF IInv
<1>2. IInv /\ [Next]_vars => IInv'
  BY OnlineStep, FreshStep, FrameStep, MatchStep, WireStep, BoundedStep, CountedStep, TypeStep
  DEF IInv
<1> QED
  BY <1>1, <1>2, PTL DEF Spec

\* Every variable keeps its type: in particular the references of a chat on a
\* connection (ac.refs) are at most one per viewer, and one for late typing.
THEOREM AgentTypeCorrect == Spec => []TypeOK
  BY Invariance, PTL DEF IInv

\* A working connection that is served is the registered one, and the
\* registered one is served: HandleWS's two lock regions never take a
\* gateway off line that has reconnected.
THEOREM OnlineIsServed == Spec => []OnlineMeansServed
  BY Invariance, PTL DEF IInv

\* On a working connection the references are positive exactly when the last
\* word to the agent was "open": Open, Close and Input count and send under
\* one mutex, and none of them lets the two disagree.
THEOREM ReferencesMatch == Spec => []ReferencesMatchWhatAgentWasTold
  BY Invariance, PTL DEF IInv

\* A session the agent has without a reference of the hub has its "close"
\* under way: once the last word was not "open", every "open" still under way
\* is followed by a "close".
THEOREM NoSessionUnreferenced == Spec => []NoReferenceNoSession
<1>1. IInv => NoReferenceNoSession
  <2> SUFFICES ASSUME IInv, cur # None, Up(cur), refs[cur] = 0, session # None
               PROVE  \E i \in DOMAIN wire[cur] : wire[cur][i] = "close"
    BY DEF NoReferenceNoSession
  <2>1. cur \in Conns
    BY DEF IInv, TypeOK
  <2>2. told[cur] # "open"
    BY <2>1 DEF IInv, ReferencesMatchWhatAgentWasTold
  <2> QED
    BY <2>1, <2>2 DEF IInv, WireInv, HasClose
<1> QED
  BY <1>1, Invariance, PTL

\* While the agent has not reconnected, each viewer attached through the
\* connection has a reference of its own.
THEOREM ViewersAreCounted == Spec => []AttachedViewersAreCounted
  BY Invariance, PTL DEF IInv

=============================================================================
