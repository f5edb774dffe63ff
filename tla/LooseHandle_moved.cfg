SPECIFICATION Spec
CONSTANTS
  None = None
  Paths = {p1, p2}
  Streams = {s1, s2, s3}
INVARIANT DeserializesOne
