SPECIFICATION BootSpec
CONSTANTS
  ENTRIES = 8
  ALIAS = 4
  BOOT_GIGS = 4
  KERNEL_GIGS = 6
  WRAP = 4
  Infos = {5, 9}
  Magics = {1, 2}
  VMM_MAX_MAPPINGS = 4
  Pages = {p1}
  Frames = {1}
INVARIANT ParametersPassed
