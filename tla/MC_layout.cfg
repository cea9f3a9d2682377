SPECIFICATION Spec
CONSTANTS
  alice = alice
  bob = bob
  tokens = tokens
  events = events
  Admins <- TwoAdmins
  Nobody = Nobody
  machines = machines
  WidgetTypes <- TwoTypes
  OtherTypes <- GoneTypes
  Ids <- SomeIds
  Rights <- SomeRights
  Dirs <- SomeDirs
  MinSize <- AllNarrow
  MaxSize <- SomeWide
  DefaultSize <- AllNarrow
  DefaultPlaces <- SideBySide
  Kept <- SomeKept
  Columns = 2
  MaxRow = 1
  MaxEdit = 2
  MaxVisit = 2
  MaxPost = 1
INVARIANTS PlacedIsKept
