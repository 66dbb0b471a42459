CONSTANTS
  c1 = c1 c2 = c2 c3 = c3 v1 = v1 v2 = v2
  Consumers <- ThreeConsumers
  Values <- TwoValues
  Operations <- AllOperations
  MaxLength = 3
SPECIFICATION FairSpec
INVARIANTS NoLostWakeup
PROPERTIES EmptyHandedOnlyIfEmpty ImplementsBlockingQueue SomebodyIsServed
