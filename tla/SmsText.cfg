SPECIFICATION FairSpec
CONSTANTS
  Phones <- MCPhones
  Texts <- MCTexts
  Table <- MCTable
  Size = 6
INVARIANTS
  TypeOK
  SearchAgrees
  

  
CHECK_DEADLOCK FALSE
