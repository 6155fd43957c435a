SPECIFICATION BuildSpec
CONSTANTS
  Dirs = {1, 2, 3, 4}
  Listings <- MCListings
  Depth = 3
  Roots <- MCRoots
INVARIANTS
  BuildTypeOK
  FindsTheFirst
PROPERTIES
  SearchInOrder
  LinksIfThere
CHECK_DEADLOCK FALSE
