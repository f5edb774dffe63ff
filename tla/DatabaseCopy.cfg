CONSTANTS
  Story = Story
  Nothing = Nothing
  Note = Note
  End = End
  Objects = {Story, Nothing, Note}
  Long <- MCLong
  Empty <- MCEmpty
  Hash <- MCHash
SPECIFICATION FairSpec
INVARIANTS TypeOK NamesItsObject
PROPERTIES StoresSpec CopyComplete DumpEnds
