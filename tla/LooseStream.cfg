SPECIFICATION FairSpec
CONSTANTS
  MaxSize = 18
  Sizes <- MCSizes
  HeaderLen <- MCHeaderLen
  BufLen = 3
  Capacity = 5
INVARIANTS TypeOK HashedFile ReadInOrder SmallReadsBack
PROPERTY ReadEnds
