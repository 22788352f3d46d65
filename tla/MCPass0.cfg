CONSTANTS
  Capitalised = {"Owner", "OwnerRepo", "Pet", "Base", "Kind", "Size", "Util", "Mark"}
  Worlds <- MCWorlds
  Listings <- MCListings
SPECIFICATION Spec
INVARIANTS OwnedTempReclaimed ModulesKeepTheirFiles CallsTraced OrderIndependent DegradationIsLocal GraphPassesItsChecks
PROPERTY Pass0Ends
