\* Two clients race with two keys; alice pages through her runs meanwhile.
SPECIFICATION Spec
CONSTANTS
  Clients = {c1, c2}
  Owners = {alice, bob}
  Readers = {alice}
  Keys = {k1, k2}
  Fingerprints = {f1, f2}
  PageSize = 1
  MaxRows = 3
SYMMETRY Symmetric
INVARIANTS
  OneRunPerKey
  RepeatGetsItsRun
  ConflictIsReal
  PagingIsComplete
