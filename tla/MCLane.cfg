SPECIFICATION FairSpec
CONSTANTS
  Accept = TRUE
  MaxSid = 2
  MaxBid = 2
  MaxPages = 3
  MaxFault = 2
INVARIANTS TypeOK WholeInOrder NoOrphanBook
PROPERTIES BooksArrive
CHECK_DEADLOCK FALSE
