SPECIFICATION Spec
CONSTANTS
  alice = alice
  bob = bob
  left = left
  right = right
  ruleset = ruleset
  supervisor = supervisor
  Default = Default
  None = None
  Supervisor <- MCSupervisor
  Loaders <- MCLoaders
  Users <- MCUsers
  Pages <- MCPages
  Author <- MCAuthor
  Rules <- MCRules
  MaxWrites = 2
INVARIANTS
  ManagerFollowsRow
  TrainingKeepsRules
PROPERTIES
  WritesAreTheOwners
  LoadedAtLast
CHECK_DEADLOCK FALSE
