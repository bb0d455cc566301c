\* Two importers over two directories that begin with the same bytes.
SPECIFICATION Spec
CONSTANTS
  d1 = d1
  d2 = d2
  Importers = {i1, i2}
  Dirs = {d1, d2}
  Owners = {alice, bob}
  Synthetic = {0}
  Reviewed <- ReviewedFirst
  MaxEdits = 2
  MaxImports = 2
  MaxReads = 1
SYMMETRY Symmetric
INVARIANTS
  EvidenceIsOneInstant
  OneImportPerEvidence
  ReportIsTruthful
CHECK_DEADLOCK FALSE
