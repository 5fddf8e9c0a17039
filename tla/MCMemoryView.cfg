SPECIFICATION FairSpec
CONSTANTS
  note = note
  index = index
  twin = twin
  memory = memory
  None = None
  Resource = {note, index, twin, memory}
  PathOf <- MCPathOf
  Hidden = {9}
  Document <- MCDocument
  Written <- MCWritten
  Initial <- MCInitial
  Query <- MCQuery
  PageBytes = 5
  MaxCommits = 1
INVARIANTS TypeOK SearchFindsMinimalWindows WalkIsOneSnapshot
PROPERTIES WalkEnds
