SPECIFICATION NetworkSpec
CONSTANTS
  RING = 10
  PAD = 6
  GAP = 2
  FALLBACK = 4
  TRIES = 2
  POLLS = 2
  TX_DESC_COUNT = 2
  XID <- MCXID
  BROADCAST = BROADCAST
  UNSET = UNSET
  Frames <- MCFrames
  Junk <- MCJunk
  MaxFrames = 3
PROPERTIES FramesInOrder BuffersKept Returns
