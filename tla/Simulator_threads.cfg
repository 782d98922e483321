SPECIFICATION Spec
CONSTANTS
  s1 = s1
  s2 = s2
  Addresses <- MCAddresses
  Mapped <- MCMapped
  Requests <- Packets
  Senders <- MCSenders
SYMMETRY MCSymmetry
INVARIANTS TypeOK Exclusion PeekedIsExecuted DebuggerUsesLive NoByteLost
