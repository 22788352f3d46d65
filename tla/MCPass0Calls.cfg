CONSTANTS
  Capitalised = {"Owner", "OwnerRepo", "Pet", "Base", "Kind", "Size", "Util", "Mark"}
  Worlds <- MCWorlds
  Listings <- MCListings
SPECIFICATION Spec
INVARIANT NoCallVanishes
