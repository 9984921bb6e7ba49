\* One operation watched through a WebSocket beside one download.
CONSTANTS
  install = install
  download = download
  Ops = {install, download}
  Downloads = {download}
  Ongoing = 1
  Capacity = 2
  Prefetch = 2
SPECIFICATION FairSpec
INVARIANTS
  TypeOK
  NothingMissing
  ClosedAfterTerminal
  DownloadWhole
PROPERTIES
  EveryStreamEnds
  TerminalDelivered
CHECK_DEADLOCK FALSE
