\* One contact (a Join), the Witch as target, four plans of which three overlap.
CONSTANTS
  Join = Join
  give = give
  take = take
  witch = witch
  ROOT = ROOT
  LOCK = LOCK
  Brake = Brake
  Deployer = Deployer
  Contract = {Join}
  Account = {Deployer, Brake, witch}
  Role = {ROOT, LOCK, give, take}
  Plans <- MCPlans
  Batches <- MCBatches
  Grantees = {Brake, witch}
  Admins = {ROOT}
SPECIFICATION Spec
INVARIANTS TypeOK NoNewPermissions ExecutedPlanIsolates ExecutedPlansAreDisjoint
PROPERTIES BrakeLeavesRoot LockIsForever
