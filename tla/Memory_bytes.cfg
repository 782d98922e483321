SPECIFICATION Spec
CONSTANTS
  b0 = b0
  b1 = b1
  Size = 6
  Byte <- MCByte
  Addresses <- MCAddresses
  Written <- MCWritten
  Blocks = {1, 3}
INVARIANT NoOverrun
PROPERTY ByteAddressing
