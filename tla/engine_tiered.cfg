CONSTANTS
  alice = alice
  bob = bob
  cora = cora
  Users <- MCUsers
  Roles = {"MGR"}
  Rosters <- SingleRosters
  NumSteps = 7
  Step <- TieredSteps
  StartedBy = cora
  RequestedBy = {cora}
SPECIFICATION FairSpec
INVARIANTS PassedIsSignedOff EffectsOnce
PROPERTIES Answered ImplementsContract
