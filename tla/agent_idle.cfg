SPECIFICATION FairSpec
CONSTANTS
  Viewers = {v1}
  Conns = {k1}
  Shells = {s1}
  MaxWire = 2
  None = None
CHECK_DEADLOCK FALSE
PROPERTY IdleAgentShellIsReclaimed
