SPECIFICATION Spec
SYMMETRY MCSymmetry
CONSTANTS
  root = root  d = d  iroot = iroot  idir = idir  n = n  d2 = d2
  FsType = fst  Super = sb
  Dentry = {root, d, d2}
  Inode = {iroot, idir, n}
  File = {f}
  Dir = {iroot, idir}
  Root <- MCRoot
  Pipe = {n}
  Creating = {"create", "mkdir", "link"}
  MaxRefused = 1
  NULL = NULL
INVARIANTS NeededPresent WatchedAlive NothingUnforgotten ObjectsWatched
