SPECIFICATION Spec
CONSTANTS
  Child = {c1, c2}
  NFd = 8
  NPipes = 8
  MaxDeaths = 2
  MaxDescendants = 1
SYMMETRY Symmetry
INVARIANTS
  TypeOK
  NoUseAfterFree
  StreamsOwned
  OutputKept
