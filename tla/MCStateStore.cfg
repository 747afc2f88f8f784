SPECIFICATION Spec
CONSTANTS
  NoText = "empty"
  Games = {"SLPS00548"}
  Files = {"SCEVMC0.VMP"}
  Stamps = {a, b}
  Uploads = {0, 7}
  MaxEntries = 2
SYMMETRY StampSymmetry
INVARIANTS
  TypeOK
  StoreKeysUnique
  StoreUnknownSlotFirst
  LoadedIsGenuine
PROPERTIES
  ReadYourWrites
  LedgerSpec
