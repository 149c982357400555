\* Overlapping allow transactions, timeouts, losses, repetitions and restarts.
CONSTANTS
  Half = 8
  m1 = m1
  m2 = m2
  Msgs <- OneMsg
  From <- Sender
  FirstSid = 15
  Quick = FALSE
  MaxTid = 3
  MaxKey = 3
  MaxSids = 3
  MaxNet = 2
SPECIFICATION Spec
INVARIANTS TypeOK OneAllow OncePerSession CurrentIsFresh KeysAgree
CHECK_DEADLOCK FALSE
