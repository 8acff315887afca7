CONSTANTS
  Nodes = {n1, n2, n3, n4}
  Null = Null
  Scalars = {"1", "text"}
  Texts = {"text"}
  Names = {"a", "A"}
  NoName = NoName
  MaxNamedItems = 3
  Lower <- MCLower
SPECIFICATION PairSpec
SYMMETRY Symmetry
INVARIANTS TypeOK ListsLinked MemoryAccounted CompareTellsValues
PROPERTY ImplementsItemLists
CHECK_DEADLOCK FALSE
