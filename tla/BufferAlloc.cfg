SPECIFICATION Spec
CONSTANTS
  Package = "alloc"
  WriteSizes = {0, 1, 3, 5}
  ReadSizes = {0, 1, 3}
  FirstCap = 2
  SlabBytes = 24
  MaxBytes = 14
INVARIANT ContentKept
