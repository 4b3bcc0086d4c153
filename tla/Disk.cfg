SPECIFICATION Spec
CONSTANTS
  AHCI_MAX_PORTS = 2
  Machines <- MCMachines
  ZEROS <- Zeros
  FAT32_MAX_FILES = 2
  SECTOR_SIZE = 1
  BUFFER_SECTORS = 2
  FAT32_EOC <- EOC
  BASE = 2
  EXT = 1
  Names <- MCNames
  Sizes = {0, 1, 2, 5}
  MaxNames = 4
  Rests <- MCRests
INVARIANTS MountsRight OpensNamed ListsRoot ReadsContent
PROPERTY CallsReturn
