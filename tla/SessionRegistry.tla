---------------------------- MODULE SessionRegistry ----------------------------
(***************************************************************************)
(* What terminal.Manager promises about its sessions, without its callers, *)
(* locks and goroutines: every session belongs to one chat, a chat has at  *)
(* most one current session, a session leaves service once and for ever,   *)
(* and one that has left is ended.  TerminalManager implements it.         *)
(***************************************************************************)

CONSTANTS
  Chats,  \* chat identifiers
  Sids,   \* identities of sessions
  None    \* no session, no chat

VARIABLES
  closed,   \* the manager has been closed
  current,  \* chat -> the session calls for the chat use, or None
  owner,    \* session -> its chat
  phase     \* session -> "unborn", "starting", "stillborn" (ended before it was
            \* placed), "serving", "retired" or "ended"

registry == <<closed, current, owner, phase>>

Init ==
  /\ closed = FALSE
  /\ current = [c \in Chats |-> None]
  /\ owner = [s \in Sids |-> None]
  /\ phase = [s \in Sids |-> "unborn"]

-----------------------------------------------------------------------------

\* A shell is started for a chat: nobody uses it yet.
Start(s, c) ==
  /\ phase[s] = "unborn"
  /\ phase' = [phase EXCEPT ![s] = "starting"]
  /\ owner' = [owner EXCEPT ![s] = c]
  /\ UNCHANGED <<closed, current>>

\* It becomes its chat's current session if there is none, even when its
\* shell has ended by then.
Adopt(s) ==
  /\ phase[s] \in {"starting", "stillborn"} /\ ~closed /\ current[owner[s]] = None
  /\ current' = [current EXCEPT ![owner[s]] = s]
  /\ phase' = [phase EXCEPT ![s] = IF @ = "starting" THEN "serving" ELSE "ended"]
  /\ UNCHANGED <<closed, owner>>

\* It came second, or too late: it is never used.
Reject(s) ==
  /\ phase[s] \in {"starting", "stillborn"} /\ (closed \/ current[owner[s]] # None)
  /\ phase' = [phase EXCEPT ![s] = IF @ = "starting" THEN "retired" ELSE "ended"]
  /\ UNCHANGED <<closed, current, owner>>

\* The sessions of these chats leave service together.
Withdraw(chats) ==
  /\ current' = [c \in Chats |-> IF c \in chats THEN None ELSE current[c]]
  /\ phase' = [s \in Sids |-> IF phase[s] = "serving" /\ owner[s] \in chats
                                THEN "retired" ELSE phase[s]]
  /\ UNCHANGED owner

\* Reset, idle collection, or the end of a shell that was current.
Release(chats) == Withdraw(chats) /\ UNCHANGED closed

Close ==
  /\ ~closed /\ closed' = TRUE
  /\ Withdraw(Chats)

\* A session's shell is killed, or dies: there is no way back.
End(s) ==
  /\ phase[s] \in {"starting", "serving", "retired"}
  /\ phase' = [phase EXCEPT ![s] = IF @ = "starting" THEN "stillborn" ELSE "ended"]
  /\ UNCHANGED <<closed, current, owner>>

Next ==
  \/ \E s \in Sids : Adopt(s) \/ Reject(s) \/ End(s) \/ \E c \in Chats : Start(s, c)
  \/ \E chats \in SUBSET Chats : Release(chats)
  \/ Close

Spec == Init /\ [][Next]_registry

\* Every session is placed, and a retired one is ended.
FairSpec ==
  /\ Spec
  /\ \A s \in Sids : /\ WF_registry(Adopt(s) \/ Reject(s))
                     /\ WF_registry(phase[s] = "retired" /\ End(s))
=============================================================================
