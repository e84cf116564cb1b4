SPECIFICATION Spec
CONSTANTS
  Request = {}
  Ask <- MCAsk
  MaxId = 2
  NoOne = NoOne
  Generation = {g1, g2}
  Download = {}
  Pdf = {"merged_pdf"}
INVARIANTS
  OneRowPerKind
CHECK_DEADLOCK FALSE
