\* Three packets through buffers of four cells: one packet and a bit.
SPECIFICATION FairSpec
CONSTANTS
  Packets <- AllPackets
  Valid = 3
  MaxSent = 3
  Capacity = 4
INVARIANTS
  InSync
PROPERTIES
  
  ReceiveReturns
  ImplementsChannel
