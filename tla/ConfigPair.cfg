SPECIFICATION Spec
CONSTANTS
  aflow = aflow
  workflows = workflows
  Docs <- MCDocs
  Payloads <- MCPayloads
  Original <- MCOriginal
  Edited = "edited"
  Missing = "missing"
  MaxFaults = 3
  MaxEdits = 1
  NoRecord = NoRecord
  NoPair = NoPair
  Conflict = Conflict
INVARIANTS
  TypeOK
  ReadsSettled
  CommitsDurable
  RestorationTrue
PROPERTIES
  CompareAndSwap
  EditsSurvive
  PairIsOne
