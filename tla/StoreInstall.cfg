CONSTANTS
  Procs = {p1, p2}
  first = first
  second = second
  main = main
  extra = extra
  None = None
  Tarballs <- TwoTarballs
  Files <- TwoFiles
  FilesOf <- OneFileLess
  Inodes = {i1, i2}
  MaxFaults = 1
  FollowTorn = FALSE
SPECIFICATION FairSpec
INVARIANTS DiskSound ResolvesToPin FailureKeepsInstall
PROPERTIES InstallsReturn
