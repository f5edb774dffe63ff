CONSTANTS
  NoName = NoName
  DefaultEncoding = DefaultEncoding
  None = None
  Ann = Ann
  Bob = Bob
  Mail = Mail
  Part = Part
  Latin1 = Latin1
  Title = Title
  Body = Body
  Subjects <- MCSubjects
  NullKey <- MCNullKey
  Strings <- MCStrings
  ModeBits = 24
  MaxParents = 7
  MaxUses = 1
SPECIFICATION MultiFairSpec
PROPERTIES ParseEnds
