SPECIFICATION Spec
CONSTANTS
  Callers = {p1, p2}
  Chats = {c1, c2}
  Sids = {s1, s2}
  None = None
SYMMETRY Symmetry
INVARIANTS
  TypeOK
  NoOrphanShell
  OneShellPerChat
  ClosedRegistryStaysEmpty
PROPERTY ImplementsRegistry
