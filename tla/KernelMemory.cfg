SPECIFICATION MCSpec
CONSTANTS
  FRAME_SIZE = 4
  WORD = 4
  BITMAP_WORDS = 3
  LOW_END = 4
  RESERVED_END = 8
  DEFAULT_TOP = 20
  MemoryMaps <- MCMaps
  CACHES = 2
  SLOTS = 1
  Limit <- MCLimit
  SLAB_BASE = 4
  SPAN = 2
  STRIDE = 2
  BLOCKS = 3
  BUDDY_BASE = 8
  BLOCK = 3
  Requests = {0, 1, 2, 3, 6, 7}
  ENTRIES = 8
  ALIAS = 4
  BOOT_GIGS = 4
  KERNEL_GIGS = 6
  WRAP = 4
  Infos = {5, 9}
  Magics = {1, 2}
  VMM_MAX_MAPPINGS = 4
  Pages = {p1, p2, p3}
  Frames = {1, 2}
INVARIANT SmallApartFromFrames
PROPERTIES FramesImplementAllocator HeapImplementsAllocator IdentityKept CallsTranslate
