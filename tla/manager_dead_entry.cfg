SPECIFICATION Spec
CONSTANTS
  Callers = {p1}
  Chats = {c1}
  Sids = {s1, s2}
  None = None
INVARIANT EndedSessionHasNoEntry
