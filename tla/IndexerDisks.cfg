SPECIFICATION FairSpec
CONSTANTS
  Ids = {1, 2}
  Start = {1, 2}
  Roots = {r1, r2}
  Disks = {d1, d2}
  NoDisk = NoDisk
  f1 = f1
  f2 = f2
  a = a
  b = b
  Files = {f1, f2}
  Folders = {a, b}
  FolderOf <- TwoFolders
  Known = {f1}
  Workers = {thread}
  Thread = thread
  Batch = 1
  MaxVer = 2
  MaxEvents = 2
INVARIANT RunInv
PROPERTIES ForgetsOnlyTheGone ImplementsCatalogue Converges
