\* Every packet of the small radix, between hosts of both byte orders.
SPECIFICATION Spec
CONSTANTS
  Radix = 2
  MAGIC = 13
  VERSION = 1
  SequenceIds <- MCSequenceIds
  Payloads <- MCPayloads
  MaxChanges = 2
INVARIANTS
  RoundTrip
  AcceptedIsEncoding
  
