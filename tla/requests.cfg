\* Two requests and one backup over two snapshots.
CONSTANTS
  core1 = core1
  edge1 = edge1
  unix = unix
  dos = dos
  r1 = r1
  r2 = r2
  Requests = {r1, r2}
  Devices = {core1, edge1}
  FirstDevices = {core1}
  Texts = {unix, dos}
  Normal <- NormalText
  MaxSnapshots = 2
  MaxAnalyses = 3
  MaxComparisons = 2
  MaxBackups = 1
SPECIFICATION Spec
INVARIANTS
  TypeOK
  DuplicatesOverlap
  PairsRepeatByOverlap
  UnanalysedIsAccounted
  ReadsGoForward
  FileIsWhole
  BackupHoldsItsStart
SYMMETRY Symmetric
CONSTRAINTS
  OneBeside
  OneReader
  OneDiff
