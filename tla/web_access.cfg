SPECIFICATION FairSpec
CONSTANTS
  Requests = {r1,r2}
  PageTokens = {pt}
  WsTokens = {w1,w2}
  SessionIds = {sid}
  TTL = 1
  SessionTTL = 1
  MaxTime = 2
  None = None
INVARIANTS
  TypeOK
  OneTerminalPerPage
  LinkWorksWhilePageDoes
PROPERTIES
  RefusalIsFinal
  ExpiredIsForgotten
