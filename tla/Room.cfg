SPECIFICATION Spec
CONSTANTS
  ann = ann
  bob = bob
  cid = cid
  Names = {ann, bob, cid}
  Bots = 2
  AllowObserve = TRUE
  MaxConns = 3
SYMMETRY Interchangeable
INVARIANT TypeOK
INVARIANT SeatsAreRead
 
CHECK_DEADLOCK FALSE
