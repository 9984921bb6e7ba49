\* Two browsers upload a file of two chunks or one of one chunk, and one
\* downloads, beside deletions and creations.
CONSTANTS
  u1 = u1
  u2 = u2
  d1 = d1
  l1 = l1
  i1 = i1
  i2 = i2
  i3 = i3
  i4 = i4
  i5 = i5
  long = long
  short = short
  Uploads = {u1, u2}
  Downloads = {d1}
  Contents = {long, short}
  Size <- SizeOf
  Inodes = {i1, i2, i3, i4, i5}
  Links = {l1}
  Expiry = 1
  Interval = 1
  MaxRequests = 3
  MaxTrouble = 2
SPECIFICATION Spec
INVARIANTS
  TypeOK
  UploadKept
  DownloadExact
  LinkWindow
SYMMETRY Symmetry
CHECK_DEADLOCK FALSE
