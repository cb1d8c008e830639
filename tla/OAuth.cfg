SPECIFICATION FairSpec
CONSTANTS
  s1 = s1
  s2 = s2
  k1 = k1
  k2 = k2
  c1 = c1
  c2 = c2
  u1 = u1
  u2 = u2
  r1 = r1
  r2 = r2
  States <- TwoStates
  Codes <- TwoCodes
  Calls <- TwoCalls
  Users <- TwoUsers
  Redirects <- TwoRedirects
  Hints <- OneHint
  NoRedirect = NoRedirect
  DefaultRedirect = r1
  Nothing = Nothing
  Invented = Invented
  ByHand = ByHand
  TTL = 0
  Faults = {"crash", "raise", "github"}
  MaxTime = 1
INVARIANTS
  TypeOK
  OneTokenPerState
  CodeIsGood
  TokensBelongToOwner
PROPERTIES
  Connects
CHECK_DEADLOCK FALSE
