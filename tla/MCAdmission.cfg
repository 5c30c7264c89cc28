SPECIFICATION PartSpec
CONSTANTS
  s1 = s1
  s2 = s2
  Streams = {s1, s2}
  ExecutionOf <- MCExecutionOf
  MaxInflight = 2
  MaxBuffered = 1
  RequireLease = TRUE
  RequireSl1 = FALSE
  Seqs = {1}
  Sizes = {0, 1}
  Drains = {1}
  Offsets = {1}
  OffsetModulus = 16
  Binds <- MCBinds
  MaxAuthSeq = 3
  MaxProduced = 1
  MaxGeneration = 3
  Models = {"m1", "m2"}
  Slots = {1, 2}
  Authorizes <- MCAuthorizes
  e1 = e1
  e2 = e2
  g1 = g1
  g2 = g2
  Endpoints = {e1, e2}
  Roles = {"worker"}
  LastGroupEpoch = 3
  Sends <- MCSends
  GroupWindow = 2
  MaxMessages = 2
  MaxRatchet = 2
  Requests <- MCRequests
  SubjectPolicies <- MCSubjects
  RolePolicies <- MCRoles
  Advertised <- MCAdvertised
  Threads = {g1, g2}
  Domains = {1, 2}
  MaxRevision = 2
  MaxRecords = 2
SYMMETRY StreamSymmetry
CHECK_DEADLOCK FALSE
INVARIANTS
  RegTypeOK
  AdvertisedIsPermitted
  StreamsHaveWorker
  Sl1FollowsBinding
  MembersAreHeard
  NoRoleLoosens
  AuditTrail
PROPERTIES
  AdmissionFollowsWorker
  BindingChangesAreVisible
