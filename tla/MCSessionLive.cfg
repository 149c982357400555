\* Allow transactions that cross, reordered but not lost: they end, with a session.
CONSTANTS
  Half = 8
  m1 = m1
  m2 = m2
  Msgs <- OneMsg
  From <- Sender
  FirstSid = 15
  Quick = TRUE
  MaxTid = 2
  MaxKey = 6
  MaxSids = 4
  MaxNet = 20
SPECIFICATION FairSpec
PROPERTY AllowSucceeds
CHECK_DEADLOCK FALSE
