SPECIFICATION BFairSpec
CONSTANTS
  Blobs = {b1}
  Tasks = {t1, t2}
  Owners = {o1}
  Expiring = {}
  None = None
  MinAge = 1
  Droppable = {}
  MaxTime = 1
  MaxPauses = 1
  Backups = {s}
  CliBackups = {}
  MaxBackups = 2
PROPERTIES CollectorNotKept
