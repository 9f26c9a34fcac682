---------------------------- MODULE GatewaysProofs ----------------------------
(***************************************************************************)
(* Proofs about Gateways, for any number of tokens, connections and        *)
(* delete requests.                                                        *)
(***************************************************************************)
EXTENDS Gateways, TLAPS

\* Every step keeps the types.
LEMMA TypeStep ==
  ASSUME TypeOK, [Next]_vars
  PROVE  TypeOK'
<1> USE NilAssumption DEF TypeOK, storeVars, hubVars, netVars, agentVars, reqVars
<1>1. ASSUME NEW t \in Tokens, Create(t)
      PROVE  TypeOK'
  BY <1>1 DEF Create
<1>2. ASSUME NEW t \in Tokens, Install(t)
      PROVE  TypeOK'
  BY <1>2 DEF Install
<1>3. ASSUME NEW t \in Tokens, Fail(t)
      PROVE  TypeOK'
  BY <1>3 DEF Fail
<1>4. ASSUME NEW t \in Tokens, TakeUninstall(t)
      PROVE  TypeOK'
  BY <1>4 DEF TakeUninstall
<1>5. ASSUME NEW t \in Tokens, NEW c \in Conns, Dial(t, c)
      PROVE  TypeOK'
  BY <1>5 DEF Dial, Forgotten
<1>6. ASSUME NEW t \in Tokens, Exit(t)
      PROVE  TypeOK'
  BY <1>6 DEF Exit
<1>7. ASSUME NEW c \in Conns, Validate(c)
      PROVE  TypeOK'
  BY <1>7 DEF Validate
<1>8. ASSUME NEW c \in Conns, Register(c)
      PROVE  TypeOK'
  BY <1>8 DEF Register, Tell
<1>9. ASSUME NEW c \in Conns, Unregister(c)
      PROVE  TypeOK'
  BY <1>9 DEF Unregister
<1>10. ASSUME NEW c \in Conns, Refuse(c)
      PROVE  TypeOK'
  BY <1>10 DEF Refuse
<1>11. ASSUME NEW c \in Conns, Break(c)
      PROVE  TypeOK'
  BY <1>11 DEF Break
<1>12. ASSUME NEW d \in Deletes, DeleteStart(d)
      PROVE  TypeOK'
  BY <1>12 DEF DeleteStart
<1>13. ASSUME NEW d \in Deletes, UninstallGet(d)
      PROVE  TypeOK'
  BY <1>13 DEF UninstallGet
<1>14. ASSUME NEW d \in Deletes, UninstallSend(d)
      PROVE  TypeOK'
  BY <1>14 DEF UninstallSend
<1>15. ASSUME NEW d \in Deletes, Delete(d)
      PROVE  TypeOK'
  BY <1>15 DEF Delete
<1>16. CASE UNCHANGED vars
  BY <1>16 DEF vars
<1> QED
  BY <1>1, <1>2, <1>3, <1>4, <1>5, <1>6, <1>7, <1>8, <1>9, <1>10, <1>11,
     <1>12, <1>13, <1>14, <1>15, <1>16
  DEF Next, Loop, Handler

\* The registered connection is one that HandleWS serves.
ServedInv == online # Nil => stage[online] = "serving"

IInv == TypeOK /\ ServedInv /\ OneLinkIsServed

\* Every step keeps the registered connection, and it alone, served.
LEMMA ServedStep ==
  ASSUME IInv, [Next]_vars
  PROVE  (ServedInv /\ OneLinkIsServed)'
<1> USE NilAssumption DEF IInv, TypeOK, ServedInv, OneLinkIsServed, storeVars, hubVars,
      netVars, agentVars, reqVars
<1>1. ASSUME NEW t \in Tokens, Create(t)
      PROVE  (ServedInv /\ OneLinkIsServed)'
  BY <1>1 DEF Create
<1>2. ASSUME NEW t \in Tokens, Install(t)
      PROVE  (ServedInv /\ OneLinkIsServed)'
  BY <1>2 DEF Install
<1>3. ASSUME NEW t \in Tokens, Fail(t)
      PROVE  (ServedInv /\ OneLinkIsServed)'
  BY <1>3 DEF Fail
<1>4. ASSUME NEW t \in Tokens, TakeUninstall(t)
      PROVE  (ServedInv /\ OneLinkIsServed)'
  BY <1>4 DEF TakeUninstall
<1>5. ASSUME NEW t \in Tokens, NEW c \in Conns, Dial(t, c)
      PROVE  (ServedInv /\ OneLinkIsServed)'
  BY <1>5 DEF Dial, Forgotten
<1>6. ASSUME NEW t \in Tokens, Exit(t)
      PROVE  (ServedInv /\ OneLinkIsServed)'
  BY <1>6 DEF Exit
<1>7. ASSUME NEW c \in Conns, Validate(c)
      PROVE  (ServedInv /\ OneLinkIsServed)'
  BY <1>7 DEF Validate
<1>8. ASSUME NEW c \in Conns, Register(c)
      PROVE  (ServedInv /\ OneLinkIsServed)'
  BY <1>8 DEF Register, Tell
<1>9. ASSUME NEW c \in Conns, Unregister(c)
      PROVE  (ServedInv /\ OneLinkIsServed)'
  BY <1>9 DEF Unregister
<1>10. ASSUME NEW c \in Conns, Refuse(c)
      PROVE  (ServedInv /\ OneLinkIsServed)'
  BY <1>10 DEF Refuse
<1>11. ASSUME NEW c \in Conns, Break(c)
      PROVE  (ServedInv /\ OneLinkIsServed)'
  BY <1>11 DEF Break
<1>12. ASSUME NEW d \in Deletes, DeleteStart(d)
      PROVE  (ServedInv /\ OneLinkIsServed)'
  BY <1>12 DEF DeleteStart
<1>13. ASSUME NEW d \in Deletes, UninstallGet(d)
      PROVE  (ServedInv /\ OneLinkIsServed)'
  BY <1>13 DEF UninstallGet
<1>14. ASSUME NEW d \in Deletes, UninstallSend(d)
      PROVE  (ServedInv /\ OneLinkIsServed)'
  BY <1>14 DEF UninstallSend
<1>15. ASSUME NEW d \in Deletes, Delete(d)
      PROVE  (ServedInv /\ OneLinkIsServed)'
  BY <1>15 DEF Delete
<1>16. CASE UNCHANGED vars
  BY <1>16 DEF vars
<1> QED
  BY <1>1, <1>2, <1>3, <1>4, <1>5, <1>6, <1>7, <1>8, <1>9, <1>10, <1>11,
     <1>12, <1>13, <1>14, <1>15, <1>16
  DEF Next, Loop, Handler

LEMMA Invariance == Spec => []IInv
<1>1. Init => IInv
  BY DEF Init, IInv, TypeOK, ServedInv, OneLinkIsServed
<1>2. IInv /\ [Next]_vars => IInv'
  BY TypeStep, ServedStep DEF IInv
<1> QED
  BY <1>1, <1>2, PTL DEF Spec

\* The gateway's state stays well formed.
THEOREM GatewayTypeCorrect == Spec => []TypeOK
<1>1. IInv => TypeOK
  BY DEF IInv
<1> QED
  BY <1>1, Invariance, PTL

\* However often machines redial and the hub replaces their connections, one
\* connection of a gateway works at most, and it is the registered one.
THEOREM OneLinkServed == Spec => []OneLinkIsServed
<1>1. IInv => OneLinkIsServed
  BY DEF IInv
<1> QED
  BY <1>1, Invariance, PTL

=============================================================================
