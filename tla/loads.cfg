\* One coordinated load and one resumption of a host and a guest, with up to two lost
\* sockets, broken links, failing machines and unanswered requests.
SPECIFICATION LoadSpec
CONSTANTS
  Nil = Nil
  Host = h
  Guest = {g}
  Replaced = {g}
  MaxLoad = 1
  MaxResume = 1
  MaxFault = 2
INVARIANTS
  StartedTogether
  CopyKept
PROPERTIES
  FailedLoadIsUndone
  LoadEnds
CHECK_DEADLOCK FALSE
