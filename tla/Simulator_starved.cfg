SPECIFICATION FairSpec
CONSTANTS
  s1 = s1
  s2 = s2
  Addresses <- FewAddresses
  Mapped <- FewMapped
  Requests <- FewRequests
  Senders <- OneSender
PROPERTY InterruptsReachGuest
