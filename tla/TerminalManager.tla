--------------------------- MODULE TerminalManager ---------------------------
(***************************************************************************)
(* The bridge's terminal sessions: terminal.Manager (the registry of one   *)
(* shell per chat, internal/terminal/manager.go) and terminal.Session (one *)
(* shell on a PTY with its two goroutines, internal/terminal/session.go).  *)
(*                                                                         *)
(* Callers are the goroutines that call the Manager: HTTP handlers and the *)
(* readers of web sockets.  Each lock region of m.mu is one action, and so *)
(* is each step between two lock regions, so that every interleaving of    *)
(* callers, wait loops, read loops, the idle collector and Close is a      *)
(* behaviour.                                                              *)
(***************************************************************************)
EXTENDS Naturals, FiniteSets

CONSTANTS
  Callers,  \* goroutines that call the Manager
  Chats,    \* chat identifiers
  Sids,     \* identities of the Sessions that can ever be created (a bound)
  None      \* nil

ASSUME NoneAssumption == None \notin Callers \cup Chats \cup Sids

VARIABLES
  closed,     \* m.closed
  registry,   \* m.sessions: chat -> session or None
  stale,      \* chat -> its entry's lastActive is before now - IdleTimeout
  chatOf,     \* session -> the chat its callbacks were created for
  shell,      \* session -> the shell process: "unborn", "running" or "dead"
  stopped,    \* session -> oneStop has run: PTY closed, process killed
  waiter,     \* session -> where waitLoop and its onExit callback are
  reader,     \* session -> where readLoop is
  pc,         \* caller -> where its call is
  chat,       \* caller -> the chatID argument
  held,       \* caller -> the *Session it goes on with (in Reset: the entry)
  fresh,      \* caller -> newSession, between NewSession and registration
  gc,         \* where gcLoop is: "waiting", "stopping" or "exited"
  gcList,     \* gcLoop's toClose
  closer,     \* where Close is: "no", "stopping" or "done"
  closeList   \* Close's entries

registryVars == <<closed, registry, stale>>
sessionVars  == <<chatOf, shell, stopped, waiter, reader>>
callVars     == <<pc, chat, held, fresh>>
gcVars       == <<gc, gcList>>
closeVars    == <<closer, closeList>>
vars == <<registryVars, sessionVars, callVars, gcVars, closeVars>>

TypeOK ==
  /\ closed \in BOOLEAN
  /\ registry \in [Chats -> Sids \cup {None}]
  /\ stale \in [Chats -> BOOLEAN]
  /\ chatOf \in [Sids -> Chats \cup {None}]
  /\ shell \in [Sids -> {"unborn", "running", "dead"}]
  /\ stopped \in [Sids -> BOOLEAN]
  /\ waiter \in [Sids -> {"waiting", "removing", "done"}]
  /\ reader \in [Sids -> {"reading", "delivering", "done"}]
  /\ pc \in [Callers -> {"idle", "lookup", "spawn", "register", "discard", "touch",
                         "resize", "lockPty", "write", "auditOk", "auditErr", "resetStop"}]
  /\ chat \in [Callers -> Chats \cup {None}]
  /\ held \in [Callers -> Sids \cup {None}]
  /\ fresh \in [Callers -> Sids \cup {None}]
  /\ gc \in {"waiting", "stopping", "exited"}
  /\ gcList \in SUBSET Sids
  /\ closer \in {"no", "stopping", "done"}
  /\ closeList \in SUBSET Sids

Init ==
  /\ closed = FALSE
  /\ registry = [c \in Chats |-> None]
  /\ stale = [c \in Chats |-> FALSE]
  /\ chatOf = [s \in Sids |-> None]
  /\ shell = [s \in Sids |-> "unborn"]
  /\ stopped = [s \in Sids |-> FALSE]
  /\ waiter = [s \in Sids |-> "waiting"]
  /\ reader = [s \in Sids |-> "reading"]
  /\ pc = [p \in Callers |-> "idle"]
  /\ chat = [p \in Callers |-> None]
  /\ held = [p \in Callers |-> None]
  /\ fresh = [p \in Callers |-> None]
  /\ gc = "waiting"
  /\ gcList = {}
  /\ closer = "no"
  /\ closeList = {}

-----------------------------------------------------------------------------
(* Helpers.                                                                *)

\* Caller p moves on; nothing else of its frame changes.
Goto(p, label) == pc' = [pc EXCEPT ![p] = label]

\* Some caller is inside WriteRaw or WriteBytes of s, holding its writeMu.
WriteMuHeld(s) == \E p \in Callers : pc[p] = "write" /\ held[p] = s

\* Mutant of Stop: the PTY is closed under writeMu, like every other use of it.
StopUnderWriteMu(s) ==
  ~WriteMuHeld(s) /\ stopped' = [stopped EXCEPT ![s] = TRUE]

\* Session.Stop: the body of oneStop, a no-op the second time.
Stop(s) == stopped' = [stopped EXCEPT ![s] = TRUE]

\* m.touch and the assignment to lastActive: only an entry has a lastActive.
Refresh(c) == stale' = [stale EXCEPT ![c] = FALSE]

\* delete(m.sessions, c): the entry goes, and its lastActive with it.
Deregister(c) ==
  /\ registry' = [registry EXCEPT ![c] = None]
  /\ stale' = [stale EXCEPT ![c] = FALSE]

\* A returning call forgets its frame.
Return(p) ==
  /\ Goto(p, "idle")
  /\ chat' = [chat EXCEPT ![p] = None]
  /\ held' = [held EXCEPT ![p] = None]
  /\ fresh' = [fresh EXCEPT ![p] = None]

-----------------------------------------------------------------------------
(* Calls: ExecuteWithMeta, SendInteractiveInput, SendControl and Resize.   *)
(* Events they publish on the bus are left out: Publish does not block and *)
(* nothing here reads the bus.                                             *)

\* A call starts.  ExecuteWithMeta checks the command first: an empty or a
\* blocked one is refused and audited before any session is looked up.
Call(p) ==
  /\ pc[p] = "idle"
  /\ \E c \in Chats : chat' = [chat EXCEPT ![p] = c]
  /\ Goto(p, "lookup") \/ Goto(p, "auditErr")
  /\ UNCHANGED <<registryVars, sessionVars, held, fresh, gcVars, closeVars>>

\* getOrCreate, first lock region: the manager is closed, ...
LookupClosed(p) ==
  /\ pc[p] = "lookup" /\ closed
  /\ Goto(p, "auditErr")
  /\ UNCHANGED <<registryVars, sessionVars, chat, held, fresh, gcVars, closeVars>>

\* ... or the chat has an entry, which is refreshed under the same lock, ...
LookupHit(p) ==
  /\ pc[p] = "lookup" /\ ~closed /\ registry[chat[p]] # None
  /\ Refresh(chat[p])
  /\ held' = [held EXCEPT ![p] = registry[chat[p]]]
  /\ Goto(p, "touch")
  /\ UNCHANGED <<closed, registry, sessionVars, chat, fresh, gcVars, closeVars>>

\* ... or it has none, and the lock is released to create one.
LookupMiss(p) ==
  /\ pc[p] = "lookup" /\ ~closed /\ registry[chat[p]] = None
  /\ Goto(p, "spawn")
  /\ UNCHANGED <<registryVars, sessionVars, chat, held, fresh, gcVars, closeVars>>

\* NewSession: pty.Start fails, ...
SpawnFails(p) ==
  /\ pc[p] = "spawn"
  /\ Goto(p, "auditErr")
  /\ UNCHANGED <<registryVars, sessionVars, chat, held, fresh, gcVars, closeVars>>

\* ... or a shell runs, and its readLoop and waitLoop with it, before the
\* session is registered.
Spawn(p, s) ==
  /\ pc[p] = "spawn" /\ shell[s] = "unborn"
  /\ shell' = [shell EXCEPT ![s] = "running"]
  /\ chatOf' = [chatOf EXCEPT ![s] = chat[p]]
  /\ fresh' = [fresh EXCEPT ![p] = s]
  /\ Goto(p, "register")
  /\ UNCHANGED <<registryVars, stopped, waiter, reader, chat, held, gcVars, closeVars>>

\* Mutant of RegisterClosed: the session that comes too late is not stopped.
RegisterClosedLeaks(p) ==
  /\ pc[p] = "register" /\ closed
  /\ Goto(p, "auditErr")
  /\ UNCHANGED <<registryVars, sessionVars, chat, held, fresh, gcVars, closeVars>>

\* getOrCreate, second lock region: the manager was closed meanwhile, ...
RegisterClosed(p) ==
  /\ pc[p] = "register" /\ closed
  /\ Goto(p, "discard")
  /\ UNCHANGED <<registryVars, sessionVars, chat, held, fresh, gcVars, closeVars>>

\* Mutant of RegisterLoses: the newer session takes the entry, and the older
\* one is stopped in its place.
RegisterReplaces(p) ==
  /\ pc[p] = "register" /\ ~closed /\ registry[chat[p]] # None
  /\ registry' = [registry EXCEPT ![chat[p]] = fresh[p]]
  /\ held' = [held EXCEPT ![p] = fresh[p]]
  /\ fresh' = [fresh EXCEPT ![p] = registry[chat[p]]]
  /\ Goto(p, "discard")
  /\ UNCHANGED <<closed, stale, sessionVars, chat, gcVars, closeVars>>

\* ... or another caller registered first and its session is used, ...
RegisterLoses(p) ==
  /\ pc[p] = "register" /\ ~closed /\ registry[chat[p]] # None
  /\ held' = [held EXCEPT ![p] = registry[chat[p]]]
  /\ Goto(p, "discard")
  /\ UNCHANGED <<registryVars, sessionVars, chat, fresh, gcVars, closeVars>>

\* Mutants of RegisterWins: what the first lock region found is not looked at
\* again, be it the chat's entry or m.closed.
RegisterUnchecked(p) ==
  /\ pc[p] = "register" /\ ~closed
  /\ registry' = [registry EXCEPT ![chat[p]] = fresh[p]]
  /\ Refresh(chat[p])
  /\ held' = [held EXCEPT ![p] = fresh[p]]
  /\ fresh' = [fresh EXCEPT ![p] = None]
  /\ Goto(p, "touch")
  /\ UNCHANGED <<closed, sessionVars, chat, gcVars, closeVars>>

RegisterAfterClose(p) ==
  /\ pc[p] = "register" /\ registry[chat[p]] = None
  /\ registry' = [registry EXCEPT ![chat[p]] = fresh[p]]
  /\ Refresh(chat[p])
  /\ held' = [held EXCEPT ![p] = fresh[p]]
  /\ fresh' = [fresh EXCEPT ![p] = None]
  /\ Goto(p, "touch")
  /\ UNCHANGED <<closed, sessionVars, chat, gcVars, closeVars>>

\* ... or the new session becomes the chat's entry (and its creation is
\* published after the lock is released).
RegisterWins(p) ==
  /\ pc[p] = "register" /\ ~closed /\ registry[chat[p]] = None
  /\ registry' = [registry EXCEPT ![chat[p]] = fresh[p]]
  /\ Refresh(chat[p])
  /\ held' = [held EXCEPT ![p] = fresh[p]]
  /\ fresh' = [fresh EXCEPT ![p] = None]
  /\ Goto(p, "touch")
  /\ UNCHANGED <<closed, sessionVars, chat, gcVars, closeVars>>

\* newSession.Stop() of a session that was not registered.
Discard(p) ==
  /\ pc[p] = "discard"
  /\ Stop(fresh[p])
  /\ fresh' = [fresh EXCEPT ![p] = None]
  /\ Goto(p, IF held[p] = None THEN "auditErr" ELSE "touch")
  /\ UNCHANGED <<registryVars, chatOf, shell, waiter, reader, chat, held,
                 gcVars, closeVars>>

\* SendControl refuses an unknown key only now: the session exists already.
UnknownControl(p) ==
  /\ pc[p] = "touch"
  /\ Goto(p, "auditErr")
  /\ UNCHANGED <<registryVars, sessionVars, chat, held, fresh, gcVars, closeVars>>

\* m.touch(chatID) refreshes the chat's entry, whichever session it holds.
\* Then Resize resizes, and every other operation writes.
Touch(p) ==
  /\ pc[p] = "touch"
  /\ Refresh(chat[p])
  /\ Goto(p, "resize") \/ Goto(p, "lockPty")
  /\ UNCHANGED <<closed, registry, sessionVars, chat, held, fresh, gcVars, closeVars>>

\* Session.Resize takes no lock; bad sizes and a closed PTY are errors.
ResizePty(p) ==
  /\ pc[p] = "resize"
  /\ \/ ~stopped[held[p]] /\ Goto(p, "auditOk")
     \/ Goto(p, "auditErr")
  /\ UNCHANGED <<registryVars, sessionVars, chat, held, fresh, gcVars, closeVars>>

\* WriteRaw and WriteBytes take writeMu ...
LockPty(p) ==
  /\ pc[p] = "lockPty"
  /\ ~WriteMuHeld(held[p])
  /\ Goto(p, "write")
  /\ UNCHANGED <<registryVars, sessionVars, chat, held, fresh, gcVars, closeVars>>

\* ... and block until the terminal takes the bytes, which a shell that does
\* not read may never do ...
WriteTaken(p) ==
  /\ pc[p] = "write" /\ ~stopped[held[p]]
  /\ Goto(p, "auditOk")
  /\ UNCHANGED <<registryVars, sessionVars, chat, held, fresh, gcVars, closeVars>>

\* ... or until the PTY is closed or its other end is gone.
WriteFails(p) ==
  /\ pc[p] = "write" /\ (stopped[held[p]] \/ shell[held[p]] = "dead")
  /\ Goto(p, "auditErr")
  /\ UNCHANGED <<registryVars, sessionVars, chat, held, fresh, gcVars, closeVars>>

\* m.audit and the return.  A record written once Close has closed the log
\* is lost with a warning; the caller is not told.
Audit(p) ==
  /\ pc[p] \in {"auditOk", "auditErr"}
  /\ Return(p)
  /\ UNCHANGED <<registryVars, sessionVars, gcVars, closeVars>>

\* Reset: the entry is removed under the lock ...
Reset(p, c) ==
  /\ pc[p] = "idle" /\ registry[c] # None
  /\ Deregister(c)
  /\ held' = [held EXCEPT ![p] = registry[c]]
  /\ Goto(p, "resetStop")
  /\ UNCHANGED <<closed, sessionVars, chat, fresh, gcVars, closeVars>>

\* ... and its session stopped after it.
ResetStop(p) ==
  /\ pc[p] = "resetStop"
  /\ Stop(held[p])
  /\ Return(p)
  /\ UNCHANGED <<registryVars, chatOf, shell, waiter, reader, gcVars, closeVars>>

\* The steps a call takes by itself once it has started.
CallStep(p) ==
  \/ LookupClosed(p) \/ LookupHit(p) \/ LookupMiss(p)
  \/ SpawnFails(p) \/ \E s \in Sids : Spawn(p, s)
  \/ RegisterClosed(p) \/ RegisterLoses(p) \/ RegisterWins(p)
  \/ Discard(p)
  \/ UnknownControl(p) \/ Touch(p)
  \/ ResizePty(p) \/ LockPty(p) \/ WriteFails(p)
  \/ Audit(p) \/ ResetStop(p)

-----------------------------------------------------------------------------
(* A session's shell and its two goroutines.                               *)

\* The shell exits: by itself at any time, or because Stop killed it.
ShellExits(s) ==
  /\ shell[s] = "running"
  /\ shell' = [shell EXCEPT ![s] = "dead"]
  /\ UNCHANGED <<registryVars, chatOf, stopped, waiter, reader, callVars, gcVars, closeVars>>

\* waitLoop: cmd.Wait returns, then Stop, then onExit publishes
\* "[session closed]" and goes for the lock.  The parts of this step other
\* than Stop concern nobody else.
WaitReturns(s) ==
  /\ waiter[s] = "waiting" /\ shell[s] = "dead"
  /\ Stop(s)
  /\ waiter' = [waiter EXCEPT ![s] = "removing"]
  /\ UNCHANGED <<registryVars, chatOf, shell, reader, callVars, gcVars, closeVars>>

\* The captured variable `created` as the callback reads it.  Until the
\* creator has taken the lock a second time nothing orders its assignment
\* before this read (a data race): nil and the session are both possible.
CreatedReads(s) ==
  IF \E p \in Callers : pc[p] = "register" /\ fresh[p] = s THEN {None, s} ELSE {s}

\* Mutant of RemoveEntry: the chat's entry goes, whichever session it holds.
RemoveAnyEntry(s) ==
  /\ waiter[s] = "removing"
  /\ waiter' = [waiter EXCEPT ![s] = "done"]
  /\ Deregister(chatOf[s])
  /\ UNCHANGED <<closed, chatOf, shell, stopped, reader, callVars, gcVars, closeVars>>

\* onExit's lock region: the entry is removed if it holds this very session.
RemoveEntry(s) ==
  /\ waiter[s] = "removing"
  /\ waiter' = [waiter EXCEPT ![s] = "done"]
  /\ \E created \in CreatedReads(s) :
       LET entry == registry[chatOf[s]]
       IN IF entry # None /\ entry = created
            THEN Deregister(chatOf[s])
            ELSE UNCHANGED <<registry, stale>>
  /\ UNCHANGED <<closed, chatOf, shell, stopped, reader, callVars, gcVars, closeVars>>

\* readLoop: Read returns a chunk, ...
ReadChunk(s) ==
  /\ reader[s] = "reading" /\ shell[s] # "unborn" /\ ~stopped[s]
  /\ reader' = [reader EXCEPT ![s] = "delivering"]
  /\ UNCHANGED <<registryVars, chatOf, shell, stopped, waiter, callVars, gcVars, closeVars>>

\* ... onOutput touches the chat's entry and publishes the chunk, ...
DeliverChunk(s) ==
  /\ reader[s] = "delivering"
  /\ Refresh(chatOf[s])
  /\ reader' = [reader EXCEPT ![s] = "reading"]
  /\ UNCHANGED <<closed, registry, chatOf, shell, stopped, waiter, callVars, gcVars, closeVars>>

\* ... and when Read fails the loop ends: an error stops the session, while
\* end of file (only once the shell is gone) leaves that to waitLoop.
ReaderEnds(s) ==
  /\ reader[s] = "reading" /\ shell[s] # "unborn"
  /\ reader' = [reader EXCEPT ![s] = "done"]
  /\ \/ Stop(s)
     \/ shell[s] = "dead" /\ UNCHANGED stopped
  /\ UNCHANGED <<registryVars, chatOf, shell, waiter, callVars, gcVars, closeVars>>

-----------------------------------------------------------------------------
(* gcLoop and Close.                                                       *)

\* IdleTimeout passes without a touch of the chat's entry.
BecomeStale(c) ==
  /\ registry[c] # None /\ ~stale[c]
  /\ stale' = [stale EXCEPT ![c] = TRUE]
  /\ UNCHANGED <<closed, registry, sessionVars, callVars, gcVars, closeVars>>

\* Mutant of GcSweep: idle entries are forgotten, and not stopped.
GcForgets ==
  LET idle == {c \in Chats : registry[c] # None /\ stale[c]}
  IN /\ gc = "waiting" /\ idle # {}
     /\ registry' = [c \in Chats |-> IF c \in idle THEN None ELSE registry[c]]
     /\ stale' = [c \in Chats |-> stale[c] /\ c \notin idle]
     /\ UNCHANGED <<closed, sessionVars, callVars, gcVars, closeVars>>

\* A tick: every idle entry leaves the registry under one lock, ...
GcSweep ==
  LET idle == {c \in Chats : registry[c] # None /\ stale[c]}
  IN /\ gc = "waiting" /\ idle # {}
     /\ gc' = "stopping"
     /\ gcList' = {registry[c] : c \in idle}
     /\ registry' = [c \in Chats |-> IF c \in idle THEN None ELSE registry[c]]
     /\ stale' = [c \in Chats |-> stale[c] /\ c \notin idle]
     /\ UNCHANGED <<closed, sessionVars, callVars, closeVars>>

\* ... and the sessions are stopped one by one after it.
GcStop(s) ==
  /\ gc = "stopping" /\ s \in gcList
  /\ Stop(s)
  /\ gcList' = gcList \ {s}
  /\ gc' = IF gcList = {s} THEN "waiting" ELSE "stopping"
  /\ UNCHANGED <<registryVars, chatOf, shell, waiter, reader, callVars, closeVars>>

GcExit ==
  /\ gc = "waiting" /\ closed
  /\ gc' = "exited"
  /\ UNCHANGED <<registryVars, sessionVars, callVars, gcList, closeVars>>

\* Mutant of CloseBegin: chats without a session have an entry to stop too.
CloseEveryChat ==
  /\ ~closed
  /\ closed' = TRUE
  /\ closeList' = {registry[c] : c \in Chats}
  /\ registry' = [c \in Chats |-> None]
  /\ stale' = [c \in Chats |-> FALSE]
  /\ closer' = "stopping"
  /\ UNCHANGED <<sessionVars, callVars, gcVars>>

\* Close: the registry is emptied under the lock (a second call returns), ...
CloseBegin ==
  /\ ~closed
  /\ closed' = TRUE
  /\ closeList' = {registry[c] : c \in Chats} \ {None}
  /\ registry' = [c \in Chats |-> None]
  /\ stale' = [c \in Chats |-> FALSE]
  /\ closer' = "stopping"
  /\ UNCHANGED <<sessionVars, callVars, gcVars>>

\* ... its sessions are stopped one by one, ...
CloseStop(s) ==
  /\ closer = "stopping" /\ s \in closeList
  /\ Stop(s)
  /\ closeList' = closeList \ {s}
  /\ UNCHANGED <<registryVars, chatOf, shell, waiter, reader, callVars, gcVars, closer>>

\* ... and the audit log is closed, whatever calls are still under way.
CloseLog ==
  /\ closer = "stopping" /\ closeList = {}
  /\ closer' = "done"
  /\ UNCHANGED <<registryVars, sessionVars, callVars, gcVars, closeList>>

-----------------------------------------------------------------------------

WaitLoop(s) == WaitReturns(s) \/ RemoveEntry(s)

ReadLoop(s) == ReadChunk(s) \/ DeliverChunk(s) \/ ReaderEnds(s)

GcLoop == GcSweep \/ (\E s \in Sids : GcStop(s)) \/ GcExit

Close == CloseBegin \/ (\E s \in Sids : CloseStop(s)) \/ CloseLog

Next ==
  \/ \E p \in Callers : Call(p) \/ CallStep(p) \/ WriteTaken(p) \/ \E c \in Chats : Reset(p, c)
  \/ \E s \in Sids : ShellExits(s) \/ WaitLoop(s) \/ ReadLoop(s)
  \/ \E c \in Chats : BecomeStale(c)
  \/ GcLoop
  \/ Close

Spec == Init /\ [][Next]_vars

\* Nobody is in a call for the chat and none of its sessions is delivering.
Quiet(c) ==
  /\ \A p \in Callers : chat[p] # c
  /\ \A s \in Sids : chatOf[s] = c => reader[s] # "delivering"

(***************************************************************************)
(* What the Go scheduler, the clock and the kernel guarantee: a goroutine  *)
(* that can run runs, a killed process dies, the ticker ticks.  Nobody     *)
(* promises that a shell reads its input, exits by itself or writes, that  *)
(* a caller calls, or that Close is called.                                *)
(***************************************************************************)
Fairness ==
  /\ \A p \in Callers : WF_vars(CallStep(p))
  /\ \A s \in Sids : /\ WF_vars(stopped[s] /\ ShellExits(s))
                     /\ WF_vars(WaitLoop(s))
                     /\ WF_vars(DeliverChunk(s))
  /\ \A c \in Chats : WF_vars(Quiet(c) /\ BecomeStale(c))
  /\ WF_vars(GcLoop)
  /\ WF_vars(closed /\ Close)

FairSpec == Spec /\ Fairness

-----------------------------------------------------------------------------
(* Properties.                                                             *)

\* Somebody is bound to stop session s: the goroutine that created it and
\* has not placed it yet, a Reset that removed it, gcLoop or Close.
Doomed(s) ==
  \/ \E p \in Callers : pc[p] = "discard" /\ fresh[p] = s
  \/ \E p \in Callers : pc[p] = "resetStop" /\ held[p] = s
  \/ s \in gcList
  \/ s \in closeList

\* No shell is ever leaked: one that runs and has not been stopped is the
\* entry of its chat, is still in the hands of getOrCreate, or is on the
\* list of somebody who will stop it (getOrCreate, onExit, Reset, gcLoop and
\* Close each take sessions out of sight, in lock regions of their own).
NoOrphanShell ==
  \A s \in Sids :
    shell[s] = "running" /\ ~stopped[s] =>
      \/ registry[chatOf[s]] = s
      \/ \E p \in Callers : pc[p] = "register" /\ fresh[p] = s
      \/ Doomed(s)

\* A chat's input goes to one shell at a time: two unstopped sessions of one
\* chat are never both in the open, all but one of them are Doomed or not
\* yet placed by getOrCreate.
OneShellPerChat ==
  \A s, t \in Sids :
    /\ s # t
    /\ \A x \in {s, t} : /\ shell[x] = "running" /\ ~stopped[x]
                         /\ ~Doomed(x)
                         /\ \A p \in Callers : ~(pc[p] = "register" /\ fresh[p] = x)
    => chatOf[s] # chatOf[t]

\* Once Close has taken the lock nothing is registered any more, even by a
\* getOrCreate that looked before Close and registers after it.
ClosedRegistryStaysEmpty == closed => \A c \in Chats : registry[c] = None

\* After Close every shell dies: those in the registry, those being created,
\* those another goroutine had taken out to stop.
CloseEndsEveryShell ==
  \A s \in Sids : closed ~> shell[s] # "running"

\* After Close every call returns, even one blocked on a terminal whose
\* shell does not read and one waiting behind it for writeMu.
CloseReleasesCallers ==
  \A p \in Callers : closed /\ pc[p] # "idle" ~> pc[p] = "idle"

\* The idle collection README.md promises: a chat left alone for ever, whose
\* shell is silent, ends up without an entry and without a running shell.
IdleChatIsReclaimed ==
  \A c \in Chats :
    <>[]Quiet(c) =>
      <>[](/\ registry[c] = None
           /\ \A s \in Sids : chatOf[s] = c => shell[s] # "running")

\* What makes the safety properties inductive: a call that looks a session
\* up or places one knows its chat and, when it places one, its own session;
\* a created session has a chat, and its waitLoop goes on only after the
\* shell's death; gcLoop's and Close's lists are empty before they are filled.
CallInv ==
  \A p \in Callers :
    /\ pc[p] \in {"lookup", "spawn", "register", "discard", "touch"} => chat[p] \in Chats
    /\ pc[p] \in {"register", "discard"} =>
         fresh[p] \in Sids /\ shell[fresh[p]] # "unborn" /\ chatOf[fresh[p]] = chat[p]

SessionInv ==
  \A s \in Sids :
    /\ shell[s] # "unborn" => chatOf[s] \in Chats
    /\ waiter[s] # "waiting" => shell[s] = "dead"

ListInv == (gc = "waiting" => gcList = {}) /\ (~closed => closeList = {})

IInv ==
  TypeOK /\ CallInv /\ SessionInv /\ ListInv /\ NoOrphanShell /\ ClosedRegistryStaysEmpty

\* And what the refinement needs besides: sessions are new when they are
\* created, a call that places one is alone to do so and nobody else has it,
\* and an entry is a session of its chat.
FreshInv ==
  /\ \A s \in Sids : shell[s] = "unborn" =>
       /\ ~stopped[s] /\ s \notin gcList \cup closeList
       /\ \A c \in Chats : registry[c] # s
       /\ \A p \in Callers : fresh[p] # s /\ held[p] # s
  /\ \A p \in Callers : pc[p] = "register" =>
       /\ fresh[p] \notin gcList \cup closeList
       /\ \A c \in Chats : registry[c] # fresh[p]
       /\ \A q \in Callers : held[q] # fresh[p] /\ (q # p => fresh[q] # fresh[p])
  /\ \A c \in Chats : registry[c] # None => chatOf[registry[c]] = c

\* The refinement mapping: where a session stands in the registry's life, from
\* its process, the callers' frames and the lists of gcLoop and Close.
Over(s) == stopped[s] \/ shell[s] = "dead"
Placing(s) == \E p \in Callers : pc[p] = "register" /\ fresh[p] = s

Phase(s) ==
  CASE shell[s] = "unborn" -> "unborn"
    [] shell[s] # "unborn" /\ Over(s) -> IF Placing(s) THEN "stillborn" ELSE "ended"
    [] shell[s] # "unborn" /\ ~Over(s) /\ Placing(s) -> "starting"
    [] shell[s] # "unborn" /\ ~Over(s) /\ ~Placing(s) -> IF Doomed(s) THEN "retired" ELSE "serving"

phase == [s \in Sids |-> Phase(s)]

Registry == INSTANCE SessionRegistry WITH current <- registry, owner <- chatOf

\* Whatever the interleaving of callers, loops, callbacks and Close, the
\* manager does to each session what SessionRegistry allows, in its order:
\* placed once, current until it is withdrawn, never current again after.
ImplementsRegistry == Registry!Spec

\* And, with the goroutines' fairness, what it demands: getOrCreate places
\* every session it starts, and whoever withdraws one sees to its end.
KeepsRegistryGoing == Registry!FairSpec

\* What onExit is for: once it has announced the end of a session and gone
\* through its lock region, the session is not the chat's entry.
EndedSessionHasNoEntry ==
  \A s \in Sids : waiter[s] = "done" => registry[chatOf[s]] # s
=============================================================================
