SPECIFICATION FairSpec
CONSTANTS
  Child = {c1, c2}
  NFd = 8
  NPipes = 8
  MaxDeaths = 1
  MaxDescendants = 0
PROPERTIES
  StreamsSettle
