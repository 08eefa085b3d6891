SPECIFICATION Spec
CONSTANTS
  Slugs <- MCSlugs
  Versions <- MCVersions
  ProposalNames <- Proposals
  Private = {}
  Expressions = {}
  OPEN_VOCABULARY = {}
  Contributions <- MCContributions
  Start <- MCStart
  ModuleOf <- MCModuleOf
  Slots = {s1, s2}
  Releases <- MCReleases
  MaxPrs = 3
  MaxUpdates = 1
SYMMETRY Perms
INVARIANTS TypeOK BreaksAreRecorded RoutedOnce FilesFetched NotesPublishable
CHECK_DEADLOCK FALSE
