CONSTANTS
  r1 = r1
  r2 = r2
  r3 = r3
  login = login
  page = page
  imported = imported
  a1 = a1
  a2 = a2
  snapshot = snapshot
  restore = restore
  NoOp = NoOp
  Request <- MCRequest
  Exempt <- MCExempt
  Operation <- MCOperation
  GatedDoc <- MCGatedDoc
  ImportDoc <- MCImportDoc
  Admin <- MCAdmin
SPECIFICATION Parts
INVARIANTS FrozenMeansQuiet BackupIsCut MixIsGuarded NoLostUpload
PROPERTIES FreezeReturns ImplementsWindow RestoreEnds TriggerIsTaken
