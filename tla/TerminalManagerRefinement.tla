---------------------- MODULE TerminalManagerRefinement ----------------------
(***************************************************************************)
(* TerminalManager implements SessionRegistry, for any sets of callers,    *)
(* chats and sessions: every step of a caller, a loop, a callback or Close *)
(* is a step of the abstract registry, or none, under the mapping phase.   *)
(* The fairness part (KeepsRegistryGoing) is model-checked only.           *)
(***************************************************************************)
EXTENDS TerminalManagerProofs

\* Every step keeps new sessions new and callers alone with theirs.
LEMMA FreshStep ==
  ASSUME IInv /\ FreshInv, [Next]_vars
  PROVE  FreshInv'
<1> USE NoneAssumption
    DEF IInv, TypeOK, CallInv, SessionInv, ListInv, FreshInv, Goto, Stop, Refresh,
          Deregister, Return,
           registryVars, sessionVars, callVars, gcVars, closeVars
<1>1. ASSUME NEW p \in Callers, Call(p)
      PROVE  FreshInv'
  BY <1>1 DEF Call
<1>2. ASSUME NEW p \in Callers, LookupClosed(p)
      PROVE  FreshInv'
  BY <1>2 DEF LookupClosed
<1>3. ASSUME NEW p \in Callers, LookupHit(p)
      PROVE  FreshInv'
  BY <1>3 DEF LookupHit
<1>4. ASSUME NEW p \in Callers, LookupMiss(p)
      PROVE  FreshInv'
  BY <1>4 DEF LookupMiss
<1>5. ASSUME NEW p \in Callers, SpawnFails(p)
      PROVE  FreshInv'
  BY <1>5 DEF SpawnFails
<1>6. ASSUME NEW p \in Callers, NEW s \in Sids, Spawn(p, s)
      PROVE  FreshInv'
  BY <1>6 DEF Spawn
<1>7. ASSUME NEW p \in Callers, RegisterClosed(p)
      PROVE  FreshInv'
  BY <1>7 DEF RegisterClosed
<1>8. ASSUME NEW p \in Callers, RegisterLoses(p)
      PROVE  FreshInv'
  BY <1>8 DEF RegisterLoses
<1>9. ASSUME NEW p \in Callers, RegisterWins(p)
      PROVE  FreshInv'
  BY <1>9 DEF RegisterWins
<1>10. ASSUME NEW p \in Callers, Discard(p)
      PROVE  FreshInv'
  BY <1>10 DEF Discard
<1>11. ASSUME NEW p \in Callers, UnknownControl(p)
      PROVE  FreshInv'
  BY <1>11 DEF UnknownControl
<1>12. ASSUME NEW p \in Callers, Touch(p)
      PROVE  FreshInv'
  BY <1>12 DEF Touch
<1>13. ASSUME NEW p \in Callers, ResizePty(p)
      PROVE  FreshInv'
  BY <1>13 DEF ResizePty
<1>14. ASSUME NEW p \in Callers, LockPty(p)
      PROVE  FreshInv'
  BY <1>14 DEF LockPty
<1>15. ASSUME NEW p \in Callers, WriteTaken(p)
      PROVE  FreshInv'
  BY <1>15 DEF WriteTaken
<1>16. ASSUME NEW p \in Callers, WriteFails(p)
      PROVE  FreshInv'
  BY <1>16 DEF WriteFails
<1>17. ASSUME NEW p \in Callers, Audit(p)
      PROVE  FreshInv'
  BY <1>17 DEF Audit
<1>18. ASSUME NEW p \in Callers, NEW c \in Chats, Reset(p, c)
      PROVE  FreshInv'
  BY <1>18 DEF Reset
<1>19. ASSUME NEW p \in Callers, ResetStop(p)
      PROVE  FreshInv'
  BY <1>19 DEF ResetStop
<1>20. ASSUME NEW s \in Sids, ShellExits(s)
      PROVE  FreshInv'
  BY <1>20 DEF ShellExits
<1>21. ASSUME NEW s \in Sids, WaitReturns(s)
      PROVE  FreshInv'
  BY <1>21 DEF WaitReturns
<1>22. ASSUME NEW s \in Sids, RemoveEntry(s)
      PROVE  FreshInv'
  BY <1>22 DEF RemoveEntry
<1>23. ASSUME NEW s \in Sids, ReadChunk(s)
      PROVE  FreshInv'
  BY <1>23 DEF ReadChunk
<1>24. ASSUME NEW s \in Sids, DeliverChunk(s)
      PROVE  FreshInv'
  BY <1>24 DEF DeliverChunk
<1>25. ASSUME NEW s \in Sids, ReaderEnds(s)
      PROVE  FreshInv'
  BY <1>25 DEF ReaderEnds
<1>26. ASSUME NEW c \in Chats, BecomeStale(c)
      PROVE  FreshInv'
  BY <1>26 DEF BecomeStale
<1>27. CASE GcSweep
  BY <1>27 DEF GcSweep
<1>28. ASSUME NEW s \in Sids, GcStop(s)
      PROVE  FreshInv'
  BY <1>28 DEF GcStop
<1>29. CASE GcExit
  BY <1>29 DEF GcExit
<1>30. CASE CloseBegin
  BY <1>30 DEF CloseBegin
<1>31. ASSUME NEW s \in Sids, CloseStop(s)
      PROVE  FreshInv'
  BY <1>31 DEF CloseStop
<1>32. CASE CloseLog
  BY <1>32 DEF CloseLog
<1>33. CASE UNCHANGED vars
  BY <1>33 DEF vars, callVars, gcVars, closeVars
<1> QED
  BY <1>1, <1>2, <1>3, <1>4, <1>5, <1>6, <1>7, <1>8, <1>9, <1>10, <1>11,
     <1>12, <1>13, <1>14, <1>15, <1>16, <1>17, <1>18, <1>19, <1>20, <1>21, <1>22,
     <1>23, <1>24, <1>25, <1>26, <1>27, <1>28, <1>29, <1>30, <1>31, <1>32, <1>33
  DEF Next, CallStep, WaitLoop, ReadLoop, GcLoop, Close

\* In every reachable state new sessions are new and callers alone with theirs.
THEOREM FreshInvariant == Spec => []FreshInv
<1>1. Init => FreshInv
  BY NoneAssumption DEF Init, FreshInv
<1>2. IInv /\ FreshInv /\ [Next]_vars => FreshInv'
  BY FreshStep
<1> QED
  BY <1>1, <1>2, Inductive, PTL DEF Spec

-----------------------------------------------------------------------------
(* The mapping, step by step.                                              *)

\* What Phase gives in each case.
PhaseIs(s) ==
  /\ shell[s] = "unborn" => Phase(s) = "unborn"
  /\ shell[s] # "unborn" /\ Over(s) => Phase(s) = IF Placing(s) THEN "stillborn" ELSE "ended"
  /\ shell[s] # "unborn" /\ ~Over(s) /\ Placing(s) => Phase(s) = "starting"
  /\ shell[s] # "unborn" /\ ~Over(s) /\ ~Placing(s) =>
       Phase(s) = IF Doomed(s) THEN "retired" ELSE "serving"

\* It is so in every state, ...
LEMMA PhaseNow == \A s \in Sids : PhaseIs(s)
<1> SUFFICES ASSUME NEW s \in Sids PROVE PhaseIs(s)
  OBVIOUS
<1> DEFINE A == shell[s] = "unborn"
           O == Over(s)
           P == Placing(s)
           W == Doomed(s)
<1>1. Phase(s) = CASE A -> "unborn"
                   [] ~A /\ O -> IF P THEN "stillborn" ELSE "ended"
                   [] ~A /\ ~O /\ P -> "starting"
                   [] ~A /\ ~O /\ ~P -> IF W THEN "retired" ELSE "serving"
  BY DEF Phase
<1> HIDE DEF A, O, P, W
<1>2. /\ A => Phase(s) = "unborn"
      /\ ~A /\ O => Phase(s) = IF P THEN "stillborn" ELSE "ended"
      /\ ~A /\ ~O /\ P => Phase(s) = "starting"
      /\ ~A /\ ~O /\ ~P => Phase(s) = IF W THEN "retired" ELSE "serving"
  BY <1>1
<1> QED
  BY <1>2 DEF PhaseIs, A, O, P, W

\* ... so also in the next one.
LEMMA PhaseNext == (\A s \in Sids : PhaseIs(s))'
  BY PhaseNow, PTL

\* What a step that does not concern session t leaves of it.
Same(t) ==
  /\ (shell[t] = "unborn")' <=> shell[t] = "unborn"
  /\ Over(t)' <=> Over(t)
  /\ Placing(t)' <=> Placing(t)
  /\ ~Over(t) => (Doomed(t)' <=> Doomed(t))

LEMMA SamePhase ==
  ASSUME NEW t \in Sids, Same(t)
  PROVE  Phase(t)' = Phase(t)
  BY PhaseNow, PhaseNext DEF PhaseIs, Same

\* A step that concerns no session is none of the abstract registry.
LEMMA Stutters ==
  ASSUME \A t \in Sids : Same(t), UNCHANGED <<closed, registry, chatOf>>
  PROVE  UNCHANGED Registry!registry
<1>1. phase' = phase
  BY SamePhase DEF phase
<1> QED
  BY <1>1 DEF Registry!registry

\* One that kills a session, or finds it dead, ends it or is none.
LEMMA Ends ==
  ASSUME NEW s \in Sids, \A t \in Sids \ {s} : Same(t), UNCHANGED <<closed, registry, chatOf>>,
         shell[s] # "unborn", shell'[s] # "unborn", Over(s)', Placing(s)' <=> Placing(s)
  PROVE  [Registry!Next]_(Registry!registry)
<1>1. CASE Over(s)
  <2>1. Same(s)
    BY <1>1 DEF Same
  <2> QED
    BY <2>1, Stutters
<1>2. CASE ~Over(s)
  <2>1. phase[s] \in {"starting", "serving", "retired"}
    BY <1>2, PhaseNow DEF PhaseIs, phase
  <2>2. Phase(s)' = IF phase[s] = "starting" THEN "stillborn" ELSE "ended"
    BY <1>2, PhaseNow, PhaseNext DEF PhaseIs, phase
  <2>3. phase' = [phase EXCEPT ![s] = IF @ = "starting" THEN "stillborn" ELSE "ended"]
    BY <2>2, SamePhase DEF phase
  <2> QED
    BY <2>1, <2>3 DEF Registry!End, Registry!Next
<1> QED
  BY <1>1, <1>2

\* A session whose creator has placed it: its phase before and after.
LEMMA Places ==
  ASSUME NEW s \in Sids, Placing(s), ~Placing(s)', Over(s)' <=> Over(s),
         shell[s] # "unborn", shell'[s] # "unborn"
  PROVE  /\ phase[s] = IF Over(s) THEN "stillborn" ELSE "starting"
         /\ Doomed(s)' => Phase(s)' = IF Over(s) THEN "ended" ELSE "retired"
         /\ ~Doomed(s)' => Phase(s)' = IF Over(s) THEN "ended" ELSE "serving"
<1>1. phase[s] = IF Over(s) THEN "stillborn" ELSE "starting"
  BY PhaseNow DEF PhaseIs, phase
<1>2. CASE Over(s)
  <2>1. Over(s)' /\ Phase(s)' = "ended"
    BY <1>2, PhaseNext DEF PhaseIs
  <2> QED
    BY <1>1, <1>2, <2>1
<1>3. CASE ~Over(s)
  <2>1. ~Over(s)' /\ Phase(s)' = IF Doomed(s)' THEN "retired" ELSE "serving"
    BY <1>3, PhaseNext DEF PhaseIs
  <2> QED
    BY <1>1, <1>3, <2>1
<1> QED
  BY <1>2, <1>3

\* A session in service is its chat's entry.
LEMMA ServingIsCurrent ==
  ASSUME IInv, NEW s \in Sids, phase[s] = "serving"
  PROVE  registry[chatOf[s]] = s /\ chatOf[s] \in Chats /\ ~Placing(s) /\ ~Doomed(s)
<1>1. shell[s] # "unborn" /\ ~Over(s) /\ ~Placing(s) /\ ~Doomed(s)
  BY PhaseNow DEF PhaseIs, phase
<1>2. shell[s] = "running" /\ ~stopped[s]
  BY <1>1 DEF Over, IInv, TypeOK
<1> QED
  BY <1>1, <1>2 DEF IInv, NoOrphanShell, SessionInv, Placing

\* Sessions that leave the registry, all those of some chats, are withdrawn:
\* each is in somebody's hands afterwards, and no other changes hands.
LEMMA Withdraws ==
  ASSUME NEW chats \in SUBSET Chats, IInv, FreshInv,
         registry' = [c \in Chats |-> IF c \in chats THEN None ELSE registry[c]],
         UNCHANGED <<chatOf, shell, stopped>>,
         \A s \in Sids : Placing(s)' <=> Placing(s),
         \A s \in Sids : ~Over(s) => (Doomed(s)' <=> Doomed(s) \/ \E c \in chats : registry[c] = s)
  PROVE  Registry!Withdraw(chats)
<1>1. ASSUME NEW s \in Sids
      PROVE  Phase(s)' = IF phase[s] = "serving" /\ chatOf[s] \in chats THEN "retired" ELSE phase[s]
  <2>1. /\ (shell[s] = "unborn")' <=> shell[s] = "unborn"
        /\ Over(s)' <=> Over(s)
    BY DEF Over
  <2>2. CASE phase[s] = "serving" /\ chatOf[s] \in chats
    <3>1. registry[chatOf[s]] = s /\ ~Placing(s)
      BY <2>2, ServingIsCurrent
    <3>2. shell[s] # "unborn" /\ ~Over(s)
      BY <2>2, PhaseNow DEF PhaseIs, phase
    <3>3. Doomed(s)'
      BY <2>2, <3>1, <3>2
    <3> QED
      BY <2>1, <2>2, <3>1, <3>2, <3>3, PhaseNext DEF PhaseIs
  <2>3. CASE phase[s] = "serving" /\ chatOf[s] \notin chats
    <3>1. ~\E c \in chats : registry[c] = s
      BY <2>3, NoneAssumption DEF FreshInv, IInv, TypeOK
    <3>2. ~Over(s)
      BY <2>3, PhaseNow DEF PhaseIs, phase
    <3>3. Same(s)
      BY <2>1, <3>1, <3>2 DEF Same
    <3> QED
      BY <2>3, <3>3, SamePhase DEF phase
  <2>4. CASE phase[s] # "serving"
    <3>1. CASE ~Over(s) /\ ~Placing(s) /\ shell[s] # "unborn"
      <4>1. Doomed(s) /\ Doomed(s)'
        BY <2>4, <3>1, PhaseNow DEF PhaseIs, phase
      <4> QED
        BY <2>1, <2>4, <3>1, <4>1, PhaseNow, PhaseNext DEF PhaseIs, phase
    <3>2. CASE ~(~Over(s) /\ ~Placing(s) /\ shell[s] # "unborn")
      BY <2>1, <2>4, <3>2, PhaseNow, PhaseNext DEF PhaseIs, phase
    <3> QED
      BY <3>1, <3>2
  <2> QED
    BY <2>2, <2>3, <2>4
<1>2. phase' = [s \in Sids |-> IF phase[s] = "serving" /\ chatOf[s] \in chats
                                 THEN "retired" ELSE phase[s]]
  BY <1>1 DEF phase
<1> QED
  BY <1>2 DEF Registry!Withdraw

\* Every step is a step of the abstract registry, or none.
LEMMA MapStep ==
  ASSUME IInv, FreshInv, [Next]_vars
  PROVE  [Registry!Next]_(Registry!registry)
<1> USE NoneAssumption
    DEF IInv, TypeOK, CallInv, SessionInv, ListInv, FreshInv, Goto, Stop, Refresh,
          Deregister, Return,
           registryVars, sessionVars, callVars, gcVars, closeVars
<1>1. ASSUME NEW p \in Callers, Call(p)
      PROVE  [Registry!Next]_(Registry!registry)
  <2>1. \A t \in Sids : Same(t)
    BY <1>1 DEF Call, Same, Over, Placing, Doomed
  <2>2. UNCHANGED <<closed, registry, chatOf>>
    BY <1>1 DEF Call
  <2> QED
    BY <2>1, <2>2, Stutters
<1>2. ASSUME NEW p \in Callers, LookupClosed(p)
      PROVE  [Registry!Next]_(Registry!registry)
  <2>1. \A t \in Sids : Same(t)
    BY <1>2 DEF LookupClosed, Same, Over, Placing, Doomed
  <2>2. UNCHANGED <<closed, registry, chatOf>>
    BY <1>2 DEF LookupClosed
  <2> QED
    BY <2>1, <2>2, Stutters
<1>3. ASSUME NEW p \in Callers, LookupHit(p)
      PROVE  [Registry!Next]_(Registry!registry)
  <2>1. \A t \in Sids : Same(t)
    BY <1>3 DEF LookupHit, Same, Over, Placing, Doomed
  <2>2. UNCHANGED <<closed, registry, chatOf>>
    BY <1>3 DEF LookupHit
  <2> QED
    BY <2>1, <2>2, Stutters
<1>4. ASSUME NEW p \in Callers, LookupMiss(p)
      PROVE  [Registry!Next]_(Registry!registry)
  <2>1. \A t \in Sids : Same(t)
    BY <1>4 DEF LookupMiss, Same, Over, Placing, Doomed
  <2>2. UNCHANGED <<closed, registry, chatOf>>
    BY <1>4 DEF LookupMiss
  <2> QED
    BY <2>1, <2>2, Stutters
<1>5. ASSUME NEW p \in Callers, SpawnFails(p)
      PROVE  [Registry!Next]_(Registry!registry)
  <2>1. \A t \in Sids : Same(t)
    BY <1>5 DEF SpawnFails, Same, Over, Placing, Doomed
  <2>2. UNCHANGED <<closed, registry, chatOf>>
    BY <1>5 DEF SpawnFails
  <2> QED
    BY <2>1, <2>2, Stutters
<1>6. ASSUME NEW p \in Callers, NEW s \in Sids, Spawn(p, s)
      PROVE  [Registry!Next]_(Registry!registry)
  <2>1. \A t \in Sids \ {s} : Same(t)
    BY <1>6 DEF Spawn, Same, Over, Placing, Doomed
  <2>2. shell'[s] # "unborn" /\ ~Over(s)' /\ Placing(s)'
    BY <1>6 DEF Spawn, Over, Placing
  <2>3. phase[s] = "unborn" /\ Phase(s)' = "starting"
    BY <1>6, <2>2, PhaseNow, PhaseNext DEF Spawn, PhaseIs, phase
  <2>4. phase' = [phase EXCEPT ![s] = "starting"]
    BY <2>1, <2>3, SamePhase, ZenonT(40) DEF phase
  <2>5. chat[p] \in Chats /\ chatOf' = [chatOf EXCEPT ![s] = chat[p]] /\ UNCHANGED <<closed, registry>>
    BY <1>6 DEF Spawn
  <2> QED
    BY <2>3, <2>4, <2>5 DEF Registry!Start, Registry!Next
<1>7. ASSUME NEW p \in Callers, RegisterClosed(p)
      PROVE  [Registry!Next]_(Registry!registry)
  <2> PICK s \in Sids : s = fresh[p]
    BY <1>7 DEF RegisterClosed
  <2>1. \A t \in Sids \ {s} : Same(t)
    BY <1>7 DEF RegisterClosed, Same, Over, Placing, Doomed
  <2>2. /\ Placing(s) /\ ~Placing(s)' /\ (Over(s)' <=> Over(s))
        /\ shell[s] # "unborn" /\ shell'[s] # "unborn" /\ Doomed(s)'
    BY <1>7 DEF RegisterClosed, Same, Over, Placing, Doomed
  <2>3. /\ phase[s] = IF Over(s) THEN "stillborn" ELSE "starting"
        /\ Phase(s)' = IF Over(s) THEN "ended" ELSE "retired"
    BY <2>2, Places
  <2>4. phase' = [phase EXCEPT ![s] = IF phase[s] = "starting" THEN "retired" ELSE "ended"]
    <3>1. Phase(s)' = IF phase[s] = "starting" THEN "retired" ELSE "ended"
      BY <2>3
    <3>2. \A t \in Sids \ {s} : Phase(t)' = Phase(t)
      BY <2>1, SamePhase
    <3> QED
      BY <3>1, <3>2, ZenonT(40) DEF phase
  <2>5. closed /\ UNCHANGED <<closed, registry, chatOf>>
    BY <1>7 DEF RegisterClosed
  <2> QED
    BY <2>1, <2>3, <2>4, <2>5 DEF Registry!Reject, Registry!Next
<1>8. ASSUME NEW p \in Callers, RegisterLoses(p)
      PROVE  [Registry!Next]_(Registry!registry)
  <2> PICK s \in Sids : s = fresh[p]
    BY <1>8 DEF RegisterLoses
  <2>1. \A t \in Sids \ {s} : Same(t)
    BY <1>8 DEF RegisterLoses, Same, Over, Placing, Doomed
  <2>2. /\ Placing(s) /\ ~Placing(s)' /\ (Over(s)' <=> Over(s))
        /\ shell[s] # "unborn" /\ shell'[s] # "unborn" /\ Doomed(s)'
    BY <1>8 DEF RegisterLoses, Same, Over, Placing, Doomed
  <2>3. /\ phase[s] = IF Over(s) THEN "stillborn" ELSE "starting"
        /\ Phase(s)' = IF Over(s) THEN "ended" ELSE "retired"
    BY <2>2, Places
  <2>4. phase' = [phase EXCEPT ![s] = IF phase[s] = "starting" THEN "retired" ELSE "ended"]
    <3>1. Phase(s)' = IF phase[s] = "starting" THEN "retired" ELSE "ended"
      BY <2>3
    <3>2. \A t \in Sids \ {s} : Phase(t)' = Phase(t)
      BY <2>1, SamePhase
    <3> QED
      BY <3>1, <3>2, ZenonT(40) DEF phase
  <2>5. registry[chatOf[s]] # None /\ UNCHANGED <<closed, registry, chatOf>>
    BY <1>8 DEF RegisterLoses
  <2> QED
    BY <2>1, <2>3, <2>4, <2>5 DEF Registry!Reject, Registry!Next
<1>9. ASSUME NEW p \in Callers, RegisterWins(p)
      PROVE  [Registry!Next]_(Registry!registry)
  <2> PICK s \in Sids : s = fresh[p]
    BY <1>9 DEF RegisterWins
  <2>1. \A t \in Sids \ {s} : Same(t)
    BY <1>9 DEF RegisterWins, Same, Over, Placing, Doomed
  <2>2. /\ Placing(s) /\ ~Placing(s)' /\ (Over(s)' <=> Over(s))
        /\ shell[s] # "unborn" /\ shell'[s] # "unborn" /\ ~Doomed(s)'
    BY <1>9 DEF RegisterWins, Same, Over, Placing, Doomed
  <2>3. /\ phase[s] = IF Over(s) THEN "stillborn" ELSE "starting"
        /\ Phase(s)' = IF Over(s) THEN "ended" ELSE "serving"
    BY <2>2, Places
  <2>4. phase' = [phase EXCEPT ![s] = IF phase[s] = "starting" THEN "serving" ELSE "ended"]
    <3>1. Phase(s)' = IF phase[s] = "starting" THEN "serving" ELSE "ended"
      BY <2>3
    <3>2. \A t \in Sids \ {s} : Phase(t)' = Phase(t)
      BY <2>1, SamePhase
    <3> QED
      BY <3>1, <3>2, ZenonT(40) DEF phase
  <2>5. /\ ~closed /\ registry[chatOf[s]] = None /\ UNCHANGED <<closed, chatOf>>
        /\ registry' = [registry EXCEPT ![chatOf[s]] = s]
    BY <1>9 DEF RegisterWins
  <2> QED
    BY <2>1, <2>3, <2>4, <2>5 DEF Registry!Adopt, Registry!Next
<1>10. ASSUME NEW p \in Callers, Discard(p)
      PROVE  [Registry!Next]_(Registry!registry)
  <2> PICK s \in Sids : s = fresh[p]
    BY <1>10 DEF Discard
  <2>1. \A t \in Sids \ {s} : Same(t)
    BY <1>10 DEF Discard, Same, Over, Placing, Doomed
  <2>2. /\ UNCHANGED <<closed, registry, chatOf>> /\ s \in Sids
        /\ shell[s] # "unborn" /\ shell'[s] # "unborn" /\ Over(s)'
        /\ Placing(s)' <=> Placing(s)
    BY <1>10 DEF Discard, Over, Placing
  <2> QED
    BY <2>1, <2>2, Ends
<1>11. ASSUME NEW p \in Callers, UnknownControl(p)
      PROVE  [Registry!Next]_(Registry!registry)
  <2>1. \A t \in Sids : Same(t)
    BY <1>11 DEF UnknownControl, Same, Over, Placing, Doomed
  <2>2. UNCHANGED <<closed, registry, chatOf>>
    BY <1>11 DEF UnknownControl
  <2> QED
    BY <2>1, <2>2, Stutters
<1>12. ASSUME NEW p \in Callers, Touch(p)
      PROVE  [Registry!Next]_(Registry!registry)
  <2>1. \A t \in Sids : Same(t)
    BY <1>12 DEF Touch, Same, Over, Placing, Doomed
  <2>2. UNCHANGED <<closed, registry, chatOf>>
    BY <1>12 DEF Touch
  <2> QED
    BY <2>1, <2>2, Stutters
<1>13. ASSUME NEW p \in Callers, ResizePty(p)
      PROVE  [Registry!Next]_(Registry!registry)
  <2>1. \A t \in Sids : Same(t)
    BY <1>13 DEF ResizePty, Same, Over, Placing, Doomed
  <2>2. UNCHANGED <<closed, registry, chatOf>>
    BY <1>13 DEF ResizePty
  <2> QED
    BY <2>1, <2>2, Stutters
<1>14. ASSUME NEW p \in Callers, LockPty(p)
      PROVE  [Registry!Next]_(Registry!registry)
  <2>1. \A t \in Sids : Same(t)
    BY <1>14 DEF LockPty, Same, Over, Placing, Doomed
  <2>2. UNCHANGED <<closed, registry, chatOf>>
    BY <1>14 DEF LockPty
  <2> QED
    BY <2>1, <2>2, Stutters
<1>15. ASSUME NEW p \in Callers, WriteTaken(p)
      PROVE  [Registry!Next]_(Registry!registry)
  <2>1. \A t \in Sids : Same(t)
    BY <1>15 DEF WriteTaken, Same, Over, Placing, Doomed
  <2>2. UNCHANGED <<closed, registry, chatOf>>
    BY <1>15 DEF WriteTaken
  <2> QED
    BY <2>1, <2>2, Stutters
<1>16. ASSUME NEW p \in Callers, WriteFails(p)
      PROVE  [Registry!Next]_(Registry!registry)
  <2>1. \A t \in Sids : Same(t)
    BY <1>16 DEF WriteFails, Same, Over, Placing, Doomed
  <2>2. UNCHANGED <<closed, registry, chatOf>>
    BY <1>16 DEF WriteFails
  <2> QED
    BY <2>1, <2>2, Stutters
<1>17. ASSUME NEW p \in Callers, Audit(p)
      PROVE  [Registry!Next]_(Registry!registry)
  <2>1. \A t \in Sids : Same(t)
    BY <1>17 DEF Audit, Same, Over, Placing, Doomed
  <2>2. UNCHANGED <<closed, registry, chatOf>>
    BY <1>17 DEF Audit
  <2> QED
    BY <2>1, <2>2, Stutters
<1>18. ASSUME NEW p \in Callers, NEW c \in Chats, Reset(p, c)
      PROVE  [Registry!Next]_(Registry!registry)
  <2> DEFINE gone == {c}
  <2>1. registry' = [c1 \in Chats |-> IF c1 \in gone THEN None ELSE registry[c1]]
    BY <1>18 DEF Reset
  <2>6. UNCHANGED <<chatOf, shell, stopped>> /\ closed' = closed
    BY <1>18 DEF Reset
  <2>2. \A t \in Sids : Placing(t)' <=> Placing(t)
    BY <1>18 DEF Reset, Placing
  <2>3. \A t \in Sids : Doomed(t)' <=> Doomed(t) \/ \E c1 \in gone : registry[c1] = t
    BY <1>18 DEF Reset, Doomed
  <2>4. gone \in SUBSET Chats
    OBVIOUS
  <2> HIDE DEF gone
  <2>5. Registry!Withdraw(gone)
    BY <2>1, <2>2, <2>3, <2>4, <2>6, Withdraws
  <2> QED
    BY <2>4, <2>5, <2>6 DEF Registry!Release, Registry!Next
<1>19. ASSUME NEW p \in Callers, ResetStop(p)
      PROVE  [Registry!Next]_(Registry!registry)
  <2>1. CASE held[p] \in Sids
    <3> PICK s \in Sids : s = held[p]
      BY <2>1
    <3>1. \A t \in Sids \ {s} : Same(t)
      BY <1>19 DEF ResetStop, Same, Over, Placing, Doomed
    <3>2. /\ UNCHANGED <<closed, registry, chatOf>> /\ s \in Sids
          /\ shell[s] # "unborn" /\ shell'[s] # "unborn" /\ Over(s)'
          /\ Placing(s)' <=> Placing(s)
      BY <1>19 DEF ResetStop, Over, Placing
    <3> QED
      BY <3>1, <3>2, Ends
  <2>2. CASE held[p] \notin Sids
    <3>1. \A t \in Sids : Same(t)
      BY <1>19, <2>2 DEF ResetStop, Same, Over, Placing, Doomed
    <3>2. UNCHANGED <<closed, registry, chatOf>>
      BY <1>19 DEF ResetStop
    <3> QED
      BY <3>1, <3>2, Stutters
  <2> QED
    BY <2>1, <2>2
<1>20. ASSUME NEW s \in Sids, ShellExits(s)
      PROVE  [Registry!Next]_(Registry!registry)
  <2>1. \A t \in Sids \ {s} : Same(t)
    BY <1>20 DEF ShellExits, Same, Over, Placing, Doomed
  <2>2. /\ UNCHANGED <<closed, registry, chatOf>> /\ s \in Sids
        /\ shell[s] # "unborn" /\ shell'[s] # "unborn" /\ Over(s)'
        /\ Placing(s)' <=> Placing(s)
    BY <1>20 DEF ShellExits, Over, Placing
  <2> QED
    BY <2>1, <2>2, Ends
<1>21. ASSUME NEW s \in Sids, WaitReturns(s)
      PROVE  [Registry!Next]_(Registry!registry)
  <2>1. \A t \in Sids \ {s} : Same(t)
    BY <1>21 DEF WaitReturns, Same, Over, Placing, Doomed
  <2>2. /\ UNCHANGED <<closed, registry, chatOf>> /\ s \in Sids
        /\ shell[s] # "unborn" /\ shell'[s] # "unborn" /\ Over(s)'
        /\ Placing(s)' <=> Placing(s)
    BY <1>21 DEF WaitReturns, Over, Placing
  <2> QED
    BY <2>1, <2>2, Ends
<1>22. ASSUME NEW s \in Sids, RemoveEntry(s)
      PROVE  [Registry!Next]_(Registry!registry)
  <2>1. UNCHANGED <<closed, chatOf, shell, stopped>>
    BY <1>22 DEF RemoveEntry
  <2>2. \A t \in Sids : Same(t)
    BY <1>22 DEF RemoveEntry, Same, Over, Placing, Doomed
  <2>3. CASE registry' = registry
    BY <2>1, <2>2, <2>3, Stutters
  <2>4. CASE registry[chatOf[s]] = s /\ Deregister(chatOf[s])
    <3> DEFINE gone == {chatOf[s]}
    <3>1. chatOf[s] \in Chats /\ shell[s] = "dead"
      BY <1>22 DEF RemoveEntry
    <3>2. registry' = [c \in Chats |-> IF c \in gone THEN None ELSE registry[c]]
      BY <2>4, <3>1
    <3>3. \A t \in Sids : Placing(t)' <=> Placing(t)
      BY <2>2 DEF Same
    <3>4. \A t \in Sids : ~Over(t) => (Doomed(t)' <=> Doomed(t) \/ \E c \in gone : registry[c] = t)
      BY <2>2, <2>4, <3>1 DEF Same, Over
    <3>5. Registry!Withdraw(gone)
      BY <2>1, <3>1, <3>2, <3>3, <3>4, Withdraws
    <3> QED
      BY <2>1, <3>1, <3>5 DEF Registry!Release, Registry!Next
  <2> QED
    BY <1>22, <2>3, <2>4 DEF RemoveEntry, CreatedReads
<1>23. ASSUME NEW s \in Sids, ReadChunk(s)
      PROVE  [Registry!Next]_(Registry!registry)
  <2>1. \A t \in Sids : Same(t)
    BY <1>23 DEF ReadChunk, Same, Over, Placing, Doomed
  <2>2. UNCHANGED <<closed, registry, chatOf>>
    BY <1>23 DEF ReadChunk
  <2> QED
    BY <2>1, <2>2, Stutters
<1>24. ASSUME NEW s \in Sids, DeliverChunk(s)
      PROVE  [Registry!Next]_(Registry!registry)
  <2>1. \A t \in Sids : Same(t)
    BY <1>24 DEF DeliverChunk, Same, Over, Placing, Doomed
  <2>2. UNCHANGED <<closed, registry, chatOf>>
    BY <1>24 DEF DeliverChunk
  <2> QED
    BY <2>1, <2>2, Stutters
<1>25. ASSUME NEW s \in Sids, ReaderEnds(s)
      PROVE  [Registry!Next]_(Registry!registry)
  <2>1. CASE stopped' = stopped
    <3>1. \A t \in Sids : Same(t)
      BY <1>25, <2>1 DEF ReaderEnds, Same, Over, Placing, Doomed
    <3>2. UNCHANGED <<closed, registry, chatOf>>
      BY <1>25 DEF ReaderEnds
    <3> QED
      BY <3>1, <3>2, Stutters
  <2>2. CASE Stop(s)
    <3>1. \A t \in Sids \ {s} : Same(t)
      BY <1>25, <2>2 DEF ReaderEnds, Same, Over, Placing, Doomed
    <3>2. /\ UNCHANGED <<closed, registry, chatOf>> /\ s \in Sids
          /\ shell[s] # "unborn" /\ shell'[s] # "unborn" /\ Over(s)'
          /\ Placing(s)' <=> Placing(s)
      BY <1>25, <2>2 DEF ReaderEnds, Over, Placing
    <3> QED
      BY <3>1, <3>2, Ends
  <2> QED
    BY <1>25, <2>1, <2>2 DEF ReaderEnds
<1>26. ASSUME NEW c \in Chats, BecomeStale(c)
      PROVE  [Registry!Next]_(Registry!registry)
  <2>1. \A t \in Sids : Same(t)
    BY <1>26 DEF BecomeStale, Same, Over, Placing, Doomed
  <2>2. UNCHANGED <<closed, registry, chatOf>>
    BY <1>26 DEF BecomeStale
  <2> QED
    BY <2>1, <2>2, Stutters
<1>27. CASE GcSweep
  <2> DEFINE gone == {c \in Chats : registry[c] # None /\ stale[c]}
  <2>1. registry' = [c1 \in Chats |-> IF c1 \in gone THEN None ELSE registry[c1]]
    BY <1>27 DEF GcSweep
  <2>6. UNCHANGED <<chatOf, shell, stopped>> /\ closed' = closed
    BY <1>27 DEF GcSweep
  <2>2. \A t \in Sids : Placing(t)' <=> Placing(t)
    BY <1>27 DEF GcSweep, Placing
  <2>3. \A t \in Sids : Doomed(t)' <=> Doomed(t) \/ \E c1 \in gone : registry[c1] = t
    BY <1>27 DEF GcSweep, Doomed
  <2>4. gone \in SUBSET Chats
    OBVIOUS
  <2> HIDE DEF gone
  <2>5. Registry!Withdraw(gone)
    BY <2>1, <2>2, <2>3, <2>4, <2>6, Withdraws
  <2> QED
    BY <2>4, <2>5, <2>6 DEF Registry!Release, Registry!Next
<1>28. ASSUME NEW s \in Sids, GcStop(s)
      PROVE  [Registry!Next]_(Registry!registry)
  <2>1. \A t \in Sids \ {s} : Same(t)
    BY <1>28 DEF GcStop, Same, Over, Placing, Doomed
  <2>2. /\ UNCHANGED <<closed, registry, chatOf>> /\ s \in Sids
        /\ shell[s] # "unborn" /\ shell'[s] # "unborn" /\ Over(s)'
        /\ Placing(s)' <=> Placing(s)
    BY <1>28 DEF GcStop, Over, Placing
  <2> QED
    BY <2>1, <2>2, Ends
<1>29. CASE GcExit
  <2>1. \A t \in Sids : Same(t)
    BY <1>29 DEF GcExit, Same, Over, Placing, Doomed
  <2>2. UNCHANGED <<closed, registry, chatOf>>
    BY <1>29 DEF GcExit
  <2> QED
    BY <2>1, <2>2, Stutters
<1>30. CASE CloseBegin
  <2> DEFINE gone == Chats
  <2>1. registry' = [c1 \in Chats |-> IF c1 \in gone THEN None ELSE registry[c1]]
    BY <1>30 DEF CloseBegin
  <2>6. UNCHANGED <<chatOf, shell, stopped>> /\ ~closed /\ closed' = TRUE
    BY <1>30 DEF CloseBegin
  <2>2. \A t \in Sids : Placing(t)' <=> Placing(t)
    BY <1>30 DEF CloseBegin, Placing
  <2>3. \A t \in Sids : Doomed(t)' <=> Doomed(t) \/ \E c1 \in gone : registry[c1] = t
    BY <1>30 DEF CloseBegin, Doomed
  <2>4. gone \in SUBSET Chats
    OBVIOUS
  <2> HIDE DEF gone
  <2>5. Registry!Withdraw(gone)
    BY <2>1, <2>2, <2>3, <2>4, <2>6, Withdraws
  <2> QED
    BY <2>4, <2>5, <2>6 DEF Registry!Close, Registry!Next, gone
<1>31. ASSUME NEW s \in Sids, CloseStop(s)
      PROVE  [Registry!Next]_(Registry!registry)
  <2>1. \A t \in Sids \ {s} : Same(t)
    BY <1>31 DEF CloseStop, Same, Over, Placing, Doomed
  <2>2. /\ UNCHANGED <<closed, registry, chatOf>> /\ s \in Sids
        /\ shell[s] # "unborn" /\ shell'[s] # "unborn" /\ Over(s)'
        /\ Placing(s)' <=> Placing(s)
    BY <1>31 DEF CloseStop, Over, Placing
  <2> QED
    BY <2>1, <2>2, Ends
<1>32. CASE CloseLog
  <2>1. \A t \in Sids : Same(t)
    BY <1>32 DEF CloseLog, Same, Over, Placing, Doomed
  <2>2. UNCHANGED <<closed, registry, chatOf>>
    BY <1>32 DEF CloseLog
  <2> QED
    BY <2>1, <2>2, Stutters
<1>33. CASE UNCHANGED vars
  <2>1. \A t \in Sids : Same(t)
    BY <1>33 DEF vars, Same, Over, Placing, Doomed
  <2>2. UNCHANGED <<closed, registry, chatOf>>
    BY <1>33 DEF vars
  <2> QED
    BY <2>1, <2>2, Stutters
<1> QED
  BY <1>1, <1>2, <1>3, <1>4, <1>5, <1>6, <1>7, <1>8, <1>9, <1>10, <1>11,
     <1>12, <1>13, <1>14, <1>15, <1>16, <1>17, <1>18, <1>19, <1>20, <1>21, <1>22,
     <1>23, <1>24, <1>25, <1>26, <1>27, <1>28, <1>29, <1>30, <1>31, <1>32, <1>33
  DEF Next, CallStep, WaitLoop, ReadLoop, GcLoop, Close

\* The manager implements the abstract registry (its safety part): a session
\* is placed once, is its chat's only current one until it is withdrawn, and
\* never comes back, whatever callers, loops, callbacks and Close interleave.
THEOREM ManagerImplementsRegistry == Spec => ImplementsRegistry
<1>1. Init => Registry!Init
  <2> SUFFICES ASSUME Init PROVE Registry!Init
    OBVIOUS
  <2>1. \A s \in Sids : Phase(s) = "unborn"
    BY PhaseNow DEF Init, PhaseIs
  <2> QED
    BY <2>1 DEF Init, Registry!Init, phase
<1>2. IInv /\ FreshInv /\ [Next]_vars => [Registry!Next]_(Registry!registry)
  BY MapStep
<1> QED
  BY <1>1, <1>2, Inductive, FreshInvariant, PTL DEF Spec, ImplementsRegistry, Registry!Spec
=============================================================================
