CONSTANTS
  Drives = {0, 128}
  BootDrive = 128
  Names = {"a", "b", "dev"}
  Lengths = {0, 1, 434, 40000}
  MaxFiles = 2
  KernelSizes = {20000, 32768, 32769, 192512}
  BssSizes = {4096}
SPECIFICATION FairSpec
INVARIANTS ImagesInPlace ReadsTheFile
PROPERTIES LsIsComplete LoadEnds
