SPECIFICATION FairSpec
CONSTANTS
  alerts1 = alerts1
  alerts2 = alerts2
  overdue = overdue
  summary = summary
  admin = admin
  iworkAdmin = iworkAdmin
  Workers = {alerts1, alerts2}
  Rules = {overdue}
  Roles = {admin, iworkAdmin}
  MaxFlips = 2
  MaxFaults = 1
INVARIANTS UnannouncedIsUnsent
PROPERTIES LastRevisionIsAnnounced OpenIsAnnounced EventFollowsObligations
