SPECIFICATION FairSpec
CONSTANTS
  Tokens = {t1,t2}
  Conns = {c1,c2}
  Deletes = {d1}
  Nil = Nil
CHECK_DEADLOCK FALSE
INVARIANTS
  TypeOK
  OneLinkIsServed
PROPERTIES
  DeletedSettles
  InstalledComesOnline
