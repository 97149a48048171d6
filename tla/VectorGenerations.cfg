CONSTANTS
  b1 = b1
  b2 = b2
  b3 = b3
  r1 = r1
  e1 = e1
  None = None
  Encodings = {e1}
  Files = {1}
  MaxVersion = 2
  Textless <- FirstScanned
  Builders = {b1, b2}
  Retrying = {b1}
  Reconcilers = {r1}
SPECIFICATION FairSpec
INVARIANTS StaleNeverCurrent PublishedComplete
PROPERTIES ForwardOnly ImplementsIndex FinalizedImmutable EventuallyServed
