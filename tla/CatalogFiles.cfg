SPECIFICATION Spec
CONSTANTS
  Paths = {snakefile, data}
  Snakefile = snakefile
  Contents = {v1, v2}
  None = None
  Keep = Keep
  Writers = {w}
  Readers = {e}
  Failing = {e}
  MaxRequests = 3
SYMMETRY ContentSymmetry
INVARIANTS CatalogTypeOK PathIsOneKind BlobsHaveBytes FreshIsExported
CHECK_DEADLOCK FALSE
