SPECIFICATION FairSpec
CONSTANTS
  Threads = {t1, t2}
  Length = 2
  MaxSends = 2
  MaxFrames = 3
  Rules = {{"alone", "asked", "quiet"}, {"alone", "asked"}, {"asked", "quiet"}, {}}
INVARIANTS SentIsSent NoMoreThanSent InOrder NotTouched
PROPERTIES SendEnds
CHECK_DEADLOCK FALSE
