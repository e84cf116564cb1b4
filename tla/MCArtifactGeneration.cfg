SPECIFICATION Spec
CONSTANTS
  Request = {r1, r2}
  Ask <- MCAsk
  MaxId = 2
  NoOne = NoOne
  Generation = {g1, g2}
  Download = {d1}
  Pdf = {"merged_pdf"}
SYMMETRY Symmetry
INVARIANTS
  TemplateRowHasItsFile
  SessionKeepsTemplate
  NoFileMissing
  MadeFromChosen
  QuietGenerationIsWhole
  DownloadFailsByOverlap
PROPERTIES
  OverridesKept
CHECK_DEADLOCK FALSE
