SPECIFICATION FairSpec
CONSTANTS
  MaxSize = 18
  Sizes <- MCSizes
  HeaderLen <- MCHeaderLen
  BufLen = 3
  Capacity = 5
INVARIANT ReadsBack
