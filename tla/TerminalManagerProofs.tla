----------------------- MODULE TerminalManagerProofs -----------------------
(***************************************************************************)
(* Proofs about TerminalManager, for any sets of callers, chats and        *)
(* sessions: types are kept, no shell is leaked, a chat has one shell in   *)
(* the open, and a closed manager registers nothing.  All four follow from *)
(* the inductive invariant IInv.                                           *)
(***************************************************************************)
EXTENDS TerminalManager, TLAPS

\* The parts of IInv that say where the goroutines are, and that of Close.
Bookkeeping == TypeOK /\ CallInv /\ SessionInv /\ ListInv /\ ClosedRegistryStaysEmpty


\* Every step keeps the types, what each caller and waitLoop knows, the lists
\* that are empty, and the registry of a closed manager empty.
LEMMA BookkeepingStep ==
  ASSUME Bookkeeping, [Next]_vars
  PROVE  Bookkeeping'
<1> USE NoneAssumption
    DEF Bookkeeping, TypeOK, CallInv, SessionInv, ListInv,
           ClosedRegistryStaysEmpty, Goto, Stop, Refresh, Deregister, Return,
           registryVars, sessionVars, callVars, gcVars, closeVars
<1>1. ASSUME NEW p \in Callers, Call(p)
      PROVE  Bookkeeping'
  BY <1>1 DEF Call
<1>2. ASSUME NEW p \in Callers, LookupClosed(p)
      PROVE  Bookkeeping'
  BY <1>2 DEF LookupClosed
<1>3. ASSUME NEW p \in Callers, LookupHit(p)
      PROVE  Bookkeeping'
  BY <1>3 DEF LookupHit
<1>4. ASSUME NEW p \in Callers, LookupMiss(p)
      PROVE  Bookkeeping'
  BY <1>4 DEF LookupMiss
<1>5. ASSUME NEW p \in Callers, SpawnFails(p)
      PROVE  Bookkeeping'
  BY <1>5 DEF SpawnFails
<1>6. ASSUME NEW p \in Callers, NEW s \in Sids, Spawn(p, s)
      PROVE  Bookkeeping'
  BY <1>6 DEF Spawn
<1>7. ASSUME NEW p \in Callers, RegisterClosed(p)
      PROVE  Bookkeeping'
  BY <1>7 DEF RegisterClosed
<1>8. ASSUME NEW p \in Callers, RegisterLoses(p)
      PROVE  Bookkeeping'
  BY <1>8 DEF RegisterLoses
<1>9. ASSUME NEW p \in Callers, RegisterWins(p)
      PROVE  Bookkeeping'
  BY <1>9 DEF RegisterWins
<1>10. ASSUME NEW p \in Callers, Discard(p)
      PROVE  Bookkeeping'
  BY <1>10 DEF Discard
<1>11. ASSUME NEW p \in Callers, UnknownControl(p)
      PROVE  Bookkeeping'
  BY <1>11 DEF UnknownControl
<1>12. ASSUME NEW p \in Callers, Touch(p)
      PROVE  Bookkeeping'
  BY <1>12 DEF Touch
<1>13. ASSUME NEW p \in Callers, ResizePty(p)
      PROVE  Bookkeeping'
  BY <1>13 DEF ResizePty
<1>14. ASSUME NEW p \in Callers, LockPty(p)
      PROVE  Bookkeeping'
  BY <1>14 DEF LockPty
<1>15. ASSUME NEW p \in Callers, WriteTaken(p)
      PROVE  Bookkeeping'
  BY <1>15 DEF WriteTaken
<1>16. ASSUME NEW p \in Callers, WriteFails(p)
      PROVE  Bookkeeping'
  BY <1>16 DEF WriteFails
<1>17. ASSUME NEW p \in Callers, Audit(p)
      PROVE  Bookkeeping'
  BY <1>17 DEF Audit
<1>18. ASSUME NEW p \in Callers, NEW c \in Chats, Reset(p, c)
      PROVE  Bookkeeping'
  BY <1>18 DEF Reset
<1>19. ASSUME NEW p \in Callers, ResetStop(p)
      PROVE  Bookkeeping'
  BY <1>19, ZenonT(40) DEF ResetStop
<1>20. ASSUME NEW s \in Sids, ShellExits(s)
      PROVE  Bookkeeping'
  BY <1>20 DEF ShellExits
<1>21. ASSUME NEW s \in Sids, WaitReturns(s)
      PROVE  Bookkeeping'
  BY <1>21 DEF WaitReturns
<1>22. ASSUME NEW s \in Sids, RemoveEntry(s)
      PROVE  Bookkeeping'
  BY <1>22, ZenonT(40) DEF RemoveEntry
<1>23. ASSUME NEW s \in Sids, ReadChunk(s)
      PROVE  Bookkeeping'
  BY <1>23 DEF ReadChunk
<1>24. ASSUME NEW s \in Sids, DeliverChunk(s)
      PROVE  Bookkeeping'
  BY <1>24 DEF DeliverChunk
<1>25. ASSUME NEW s \in Sids, ReaderEnds(s)
      PROVE  Bookkeeping'
  BY <1>25 DEF ReaderEnds
<1>26. ASSUME NEW c \in Chats, BecomeStale(c)
      PROVE  Bookkeeping'
  BY <1>26 DEF BecomeStale
<1>27. CASE GcSweep
  BY <1>27 DEF GcSweep
<1>28. ASSUME NEW s \in Sids, GcStop(s)
      PROVE  Bookkeeping'
  BY <1>28 DEF GcStop
<1>29. CASE GcExit
  BY <1>29 DEF GcExit
<1>30. CASE CloseBegin
  BY <1>30 DEF CloseBegin
<1>31. ASSUME NEW s \in Sids, CloseStop(s)
      PROVE  Bookkeeping'
  BY <1>31 DEF CloseStop
<1>32. CASE CloseLog
  BY <1>32 DEF CloseLog
<1>33. CASE UNCHANGED vars
  BY <1>33 DEF vars, callVars, gcVars, closeVars
<1> QED
  BY <1>1, <1>2, <1>3, <1>4, <1>5, <1>6, <1>7, <1>8, <1>9, <1>10, <1>11,
     <1>12, <1>13, <1>14, <1>15, <1>16, <1>17, <1>18, <1>19, <1>20, <1>21, <1>22,
     <1>23, <1>24, <1>25, <1>26, <1>27, <1>28, <1>29, <1>30, <1>31, <1>32, <1>33
  DEF Next, CallStep, WaitLoop, ReadLoop, GcLoop, Close

\* Every step keeps a running, unstopped shell registered or in the hands of
\* somebody who will register or stop it: an action that takes a session out
\* of the registry, or out of getOrCreate's hands, puts it on a list.
LEMMA NoOrphanStep ==
  ASSUME IInv, [Next]_vars
  PROVE  NoOrphanShell'
<1> USE NoneAssumption
    DEF IInv, TypeOK, CallInv, SessionInv, ListInv, NoOrphanShell, Doomed,
           Goto, Stop, Refresh, Deregister, Return,
           registryVars, sessionVars, callVars, gcVars, closeVars
<1>1. ASSUME NEW p \in Callers, Call(p)
      PROVE  NoOrphanShell'
  BY <1>1 DEF Call
<1>2. ASSUME NEW p \in Callers, LookupClosed(p)
      PROVE  NoOrphanShell'
  BY <1>2 DEF LookupClosed
<1>3. ASSUME NEW p \in Callers, LookupHit(p)
      PROVE  NoOrphanShell'
  BY <1>3 DEF LookupHit
<1>4. ASSUME NEW p \in Callers, LookupMiss(p)
      PROVE  NoOrphanShell'
  BY <1>4 DEF LookupMiss
<1>5. ASSUME NEW p \in Callers, SpawnFails(p)
      PROVE  NoOrphanShell'
  BY <1>5 DEF SpawnFails
<1>6. ASSUME NEW p \in Callers, NEW s \in Sids, Spawn(p, s)
      PROVE  NoOrphanShell'
  BY <1>6 DEF Spawn
<1>7. ASSUME NEW p \in Callers, RegisterClosed(p)
      PROVE  NoOrphanShell'
  BY <1>7 DEF RegisterClosed
<1>8. ASSUME NEW p \in Callers, RegisterLoses(p)
      PROVE  NoOrphanShell'
  BY <1>8 DEF RegisterLoses
<1>9. ASSUME NEW p \in Callers, RegisterWins(p)
      PROVE  NoOrphanShell'
  BY <1>9 DEF RegisterWins
<1>10. ASSUME NEW p \in Callers, Discard(p)
      PROVE  NoOrphanShell'
  BY <1>10 DEF Discard
<1>11. ASSUME NEW p \in Callers, UnknownControl(p)
      PROVE  NoOrphanShell'
  BY <1>11 DEF UnknownControl
<1>12. ASSUME NEW p \in Callers, Touch(p)
      PROVE  NoOrphanShell'
  BY <1>12 DEF Touch
<1>13. ASSUME NEW p \in Callers, ResizePty(p)
      PROVE  NoOrphanShell'
  BY <1>13 DEF ResizePty
<1>14. ASSUME NEW p \in Callers, LockPty(p)
      PROVE  NoOrphanShell'
  BY <1>14 DEF LockPty
<1>15. ASSUME NEW p \in Callers, WriteTaken(p)
      PROVE  NoOrphanShell'
  BY <1>15 DEF WriteTaken
<1>16. ASSUME NEW p \in Callers, WriteFails(p)
      PROVE  NoOrphanShell'
  BY <1>16 DEF WriteFails
<1>17. ASSUME NEW p \in Callers, Audit(p)
      PROVE  NoOrphanShell'
  BY <1>17 DEF Audit
<1>18. ASSUME NEW p \in Callers, NEW c \in Chats, Reset(p, c)
      PROVE  NoOrphanShell'
  BY <1>18 DEF Reset
<1>19. ASSUME NEW p \in Callers, ResetStop(p)
      PROVE  NoOrphanShell'
  BY <1>19 DEF ResetStop
<1>20. ASSUME NEW s \in Sids, ShellExits(s)
      PROVE  NoOrphanShell'
  BY <1>20 DEF ShellExits
<1>21. ASSUME NEW s \in Sids, WaitReturns(s)
      PROVE  NoOrphanShell'
  BY <1>21 DEF WaitReturns
<1>22. ASSUME NEW s \in Sids, RemoveEntry(s)
      PROVE  NoOrphanShell'
  <2> SUFFICES ASSUME NEW t \in Sids, (shell[t] = "running" /\ ~stopped[t])'
               PROVE  (\/ registry[chatOf[t]] = t
                       \/ \E p \in Callers : pc[p] = "register" /\ fresh[p] = t
                       \/ Doomed(t))'
    OBVIOUS
  <2>1. shell[s] = "dead" /\ shell[t] = "running" /\ ~stopped[t]
    BY <1>22 DEF RemoveEntry
  <2>2. registry'[chatOf[t]] = registry[chatOf[t]] \/ registry[chatOf[t]] = s
    BY <1>22 DEF RemoveEntry, CreatedReads
  <2>3. UNCHANGED <<pc, held, fresh, chatOf, gcList, closeList>>
    BY <1>22 DEF RemoveEntry
  <2> QED
    BY <2>1, <2>2, <2>3
<1>23. ASSUME NEW s \in Sids, ReadChunk(s)
      PROVE  NoOrphanShell'
  BY <1>23 DEF ReadChunk
<1>24. ASSUME NEW s \in Sids, DeliverChunk(s)
      PROVE  NoOrphanShell'
  BY <1>24 DEF DeliverChunk
<1>25. ASSUME NEW s \in Sids, ReaderEnds(s)
      PROVE  NoOrphanShell'
  BY <1>25 DEF ReaderEnds
<1>26. ASSUME NEW c \in Chats, BecomeStale(c)
      PROVE  NoOrphanShell'
  BY <1>26 DEF BecomeStale
<1>27. CASE GcSweep
  <2> SUFFICES ASSUME NEW t \in Sids, (shell[t] = "running" /\ ~stopped[t])'
               PROVE  (\/ registry[chatOf[t]] = t
                       \/ \E p \in Callers : pc[p] = "register" /\ fresh[p] = t
                       \/ Doomed(t))'
    OBVIOUS
  <2>1. shell[t] = "running" /\ ~stopped[t] /\ gcList = {}
    BY <1>27 DEF GcSweep
  <2>2. registry[chatOf[t]] = t => registry'[chatOf'[t]] = t \/ t \in gcList'
    BY <1>27 DEF GcSweep
  <2>3. UNCHANGED <<pc, held, fresh, closeList>>
    BY <1>27 DEF GcSweep
  <2> QED
    BY <2>1, <2>2, <2>3
<1>28. ASSUME NEW s \in Sids, GcStop(s)
      PROVE  NoOrphanShell'
  BY <1>28 DEF GcStop
<1>29. CASE GcExit
  BY <1>29 DEF GcExit
<1>30. CASE CloseBegin
  <2> SUFFICES ASSUME NEW t \in Sids, (shell[t] = "running" /\ ~stopped[t])'
               PROVE  (\/ registry[chatOf[t]] = t
                       \/ \E p \in Callers : pc[p] = "register" /\ fresh[p] = t
                       \/ Doomed(t))'
    OBVIOUS
  <2>1. shell[t] = "running" /\ ~stopped[t] /\ closeList = {}
    BY <1>30 DEF CloseBegin
  <2>2. registry[chatOf[t]] = t => t \in closeList'
    BY <1>30 DEF CloseBegin
  <2>3. UNCHANGED <<pc, held, fresh, gcList>>
    BY <1>30 DEF CloseBegin
  <2> QED
    BY <2>1, <2>2, <2>3
<1>31. ASSUME NEW s \in Sids, CloseStop(s)
      PROVE  NoOrphanShell'
  BY <1>31 DEF CloseStop
<1>32. CASE CloseLog
  BY <1>32 DEF CloseLog
<1>33. CASE UNCHANGED vars
  BY <1>33 DEF vars, callVars, gcVars, closeVars
<1> QED
  BY <1>1, <1>2, <1>3, <1>4, <1>5, <1>6, <1>7, <1>8, <1>9, <1>10, <1>11,
     <1>12, <1>13, <1>14, <1>15, <1>16, <1>17, <1>18, <1>19, <1>20, <1>21, <1>22,
     <1>23, <1>24, <1>25, <1>26, <1>27, <1>28, <1>29, <1>30, <1>31, <1>32, <1>33
  DEF Next, CallStep, WaitLoop, ReadLoop, GcLoop, Close


\* The inductive invariant holds in every reachable state.
THEOREM Inductive == Spec => []IInv
<1>1. Init => IInv
  <2> SUFFICES ASSUME Init PROVE IInv
    OBVIOUS
  <2>1. TypeOK
    BY DEF Init, TypeOK
  <2>2. CallInv /\ SessionInv /\ ListInv /\ ClosedRegistryStaysEmpty
    BY DEF Init, CallInv, SessionInv, ListInv, ClosedRegistryStaysEmpty
  <2>3. NoOrphanShell
    BY DEF Init, NoOrphanShell
  <2> QED
    BY <2>1, <2>2, <2>3 DEF IInv
<1>2. IInv /\ [Next]_vars => IInv'
  BY BookkeepingStep, NoOrphanStep DEF IInv, Bookkeeping
<1> QED
  BY <1>1, <1>2, PTL DEF Spec

\* Types are kept.
THEOREM TypeCorrect == Spec => []TypeOK
<1>1. IInv => TypeOK
  BY DEF IInv
<1> QED
  BY <1>1, Inductive, PTL

\* No shell is leaked: one that runs and was not stopped is its chat's entry,
\* is being placed by its creator, or is on somebody's list to be stopped.
THEOREM NoShellIsLeaked == Spec => []NoOrphanShell
<1>1. IInv => NoOrphanShell
  BY DEF IInv
<1> QED
  BY <1>1, Inductive, PTL

\* Two sessions of one chat are never both in the open.  They would both be
\* the chat's entry.
THEOREM ChatHasOneShell == Spec => []OneShellPerChat
<1>1. NoOrphanShell => OneShellPerChat
  BY DEF NoOrphanShell, OneShellPerChat
<1> QED
  BY <1>1, NoShellIsLeaked, PTL

\* A closed manager registers nothing.
THEOREM ClosedStaysEmpty == Spec => []ClosedRegistryStaysEmpty
<1>1. IInv => ClosedRegistryStaysEmpty
  BY DEF IInv
<1> QED
  BY <1>1, Inductive, PTL
=============================================================================
