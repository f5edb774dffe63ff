SPECIFICATION Spec
CONSTANTS
  BlockLen = 8
  WordBits = 8
  Lengths = {0, 1, 3, 8, 13, 37, 254}
  MaxTotal = 300
INVARIANTS TypeOK NothingLost DigestStandard OverrunOnlyByWrap
PROPERTIES DigestFinal
