CONSTANTS
  Sender = {s}
  Asset = {A, B}
  NoAsset = noasset
  NoLabel = nolabel
  Fee = {0, 1}
  levels = 3
  FIELD_SIZE = 13
  MAX_AMOUNT = 3
  Listable = {A, B}
  Unset = unset
  ASSOC_ROOT_HISTORY = 1
  MaxPublished = 2
SPECIFICATION Spec
INVARIANTS FullyBacked ApprovedCanExit
PROPERTIES ImplementsLabelLedger ApprovedOnlyShrinks SpendsAreScreened
CONSTRAINT FewUnits
SYMMETRY Sym
CHECK_DEADLOCK FALSE
