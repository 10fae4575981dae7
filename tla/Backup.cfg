SPECIFICATION BSpec
CONSTANTS
  Blobs = {b1}
  Tasks = {t1}
  Owners = {o1, o2}
  Expiring = {}
  None = None
  MinAge = 1
  Droppable = {}
  MaxTime = 1
  MaxPauses = 1
  Backups = {s, c}
  CliBackups = {c}
  MaxBackups = 2
INVARIANTS LoneSnapshotsComplete UnracedCopyReadable
