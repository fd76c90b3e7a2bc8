CONSTANTS
  p1 = p1
  p2 = p2
  h1 = h1
  h2 = h2
  i1 = i1
  i2 = i2
  i3 = i3
  NoInode = NoInode
  NoHost = NoHost
  Procs = {p1, p2}
  Inodes = {i1, i2, i3}
  Hosts = {h1, h2}
  Tries = 1
  MaxPasswords = 3
SPECIFICATION FairSpec
CONSTRAINT ThreePasswords
INVARIANTS BodiesExclude PasswordsAreKept
PROPERTIES WholeFilesAreRead EveryCallEnds
CHECK_DEADLOCK FALSE
