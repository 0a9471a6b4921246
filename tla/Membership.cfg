SPECIFICATION LiveSpec
CONSTANTS
  Nodes = {1, 2, 3}
  Founder = 1
  Tokens = {t1}
  Uses = {2}
  Ids = {o1, o2}
  MaxTerm = 3
  MaxCalls = 2
  Requests = {"remove", "promote", "revoke", "group"}
  MaxRequests = 2
  Events = {"crash", "fault", "expire", "mixed"}
  MaxEvents = 1
  None = None
INVARIANTS
  TokenSpentOnce
  CertIsTheMembers
  AdmittedIsConfigured
  VoterHoldsKey
  GroupIsAdmitted
PROPERTIES
  RevokedStays
  Converges
CHECK_DEADLOCK FALSE
