SPECIFICATION Spec
CONSTANTS
  Slugs <- MCSlugs
  Versions <- MCVersions
  ProposalNames <- Proposals
  Private = {}
  Expressions = {}
  OPEN_VOCABULARY = {}
  Contributions <- RaceContributions
  Start <- MCStart
  ModuleOf <- MCModuleOf
  Slots = {s1, s2}
  Releases <- MCReleases
  MaxPrs = 3
  MaxUpdates = 1
INVARIANTS RegisterAgrees
CHECK_DEADLOCK FALSE
