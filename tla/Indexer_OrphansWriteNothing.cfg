SPECIFICATION Spec
CONSTANTS
  Ids = {1}
  Start = {1}
  Roots = {r1}
  Disks = {d1}
  NoDisk = NoDisk
  f1 = f1
  f2 = f2
  a = a
  b = b
  Files = {f1, f2}
  Folders = {a, b}
  FolderOf <- TwoFolders
  Known = {f1}
  Workers = {thread, mcp}
  Thread = thread
  Batch = 1
  MaxVer = 1
  MaxEvents = 2
PROPERTY OrphansWriteNothing
