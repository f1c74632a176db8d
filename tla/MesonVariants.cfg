CONSTANTS
  debug = debug
  release = release
  Runs <- Variants
  Bcc64x <- Variants
  Mesa = TRUE
  Schedulers = {TRUE, FALSE}
  Workspaces <- Trees
  MaxKills = 2
  MaxExtracts = 1
SPECIFICATION FairSpec
CHECK_DEADLOCK FALSE
INVARIANTS TypeOK MesonSeesPatches MesonSeesFiles
PROPERTIES ForeignKept RefusedForCause Completes
