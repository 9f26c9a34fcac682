SPECIFICATION FairSpec
CONSTANTS
  Callers = {p1, p2}
  Chats = {c1}
  Sids = {s1}
  None = None
PROPERTIES
  CloseEndsEveryShell
  CloseReleasesCallers
  IdleChatIsReclaimed
  KeepsRegistryGoing
