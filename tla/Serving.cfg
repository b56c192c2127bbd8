SPECIFICATION ServingSpec
CONSTANTS
  Customers = {"k1", "k2"}
  Roots = {"r1", "r2"}
  Disks = {"d1", "d2"}
  NoDisk = "nodisk"
  Paths = {"p", "q"}
  Day <- MCDay
  MaxDays = 1
  Readers = {x, y}
  Mounted <- MCMounted
  Serials <- MCSerials
  Indexed <- MCIndexed
  Forms <- MCForms
  MaxRow = 2
  MaxEvents = 2
SYMMETRY ReaderSymmetry
INVARIANTS RightDisk OpensWhatWasAsked HandlesAreAudited
