SPECIFICATION FairSpec
CONSTANTS
  kUSBModems <- MCModems
  Hosts <- MCHosts
  Models <- MCModels
  MaxDials = 2
INVARIANTS
  TypeOK
  InstalledIsOpen
  
  

  
  
CHECK_DEADLOCK FALSE
