SPECIFICATION Spec
CONSTANTS
  p1 = p1
  p2 = p2
  u1 = u1
  u2 = u2
  q1 = q1
  q2 = q2
  Requests = {q1, q2}
  Calls <- AnyBesideMeeting
  Modes = {TRUE, FALSE}
  Pulls = {p1, p2}
  Logins = {u1, u2}
  Seed <- MCSeed
  Limit = 2
  MaxKills = 1
INVARIANTS TypeOK EffectsAuthorised RefusedMeansUnchanged AuditMatchesEffects MergedIsNotOffered
CHECK_DEADLOCK FALSE
