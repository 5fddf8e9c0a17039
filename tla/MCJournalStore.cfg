SPECIFICATION Spec
CONSTANTS
  i1 = i1
  i2 = i2
  i3 = i3
  o1 = o1
  n1 = n1
  a = a
  b = b
  x = x
  NoContent = NoContent
  NoIntent = NoIntent
  NoRecord = NoRecord
  Id = {i1, i2, i3}
  Object = {o1}
  Note = {n1}
  Content = {a, b}
  Operation = {"memory.note.create", "memory.retention", "migration.import_v1"}
  Intent = {x}
  MaxRevision = 2
  Requests <- MCRequests
  MaxRecords = 3
  MaxImports = 1
  AllowPowerLoss = FALSE
INVARIANTS TypeOK MemoryMatchesJournal NeverInconsistent NoLostUpdate ImportIsExact
PROPERTIES TornLineIsLast ImplementsReceiptStore
