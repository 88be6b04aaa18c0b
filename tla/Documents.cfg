SPECIFICATION DocumentsSpec
CONSTANTS
  Which <- Sets
  PIPELINES <- One1
  PERCENTILES <- P99
  ASSIGNED <- Coloured
  MOST = 8
  Outputs <- Three
  Profiles <- MCProfiles
  Compats <- Both
  Said = "corrected"
  Silent = Silent
  BUSY = 10
  PARANOID = 2
  Hosts <- MCHosts
  Boxes <- MCBoxes
  Reports <- MCReports
  MaxBegun = 4
  MaxClock = 2
INVARIANTS
  LinksAreThere
  EveryChartIsIndexed
  CheckedIsCurrent
  FirstRunIsFirst
  CountersAreThere
CHECK_DEADLOCK FALSE
