\* Three overlays deep, five history entries, two traversals at once, one waiting click.
SPECIFICATION FairSpec
CONSTANTS
  Legacy = TRUE
  MaxDepth = 3
  MaxEntries = 5
  MaxGoing = 2
  MaxClicks = 1
CONSTRAINT InStep
INVARIANTS TypeOK HistoryInStep BackStaysInside SuppressMatches InviteNotForgotten
PROPERTIES ClaimSettles
CHECK_DEADLOCK FALSE
