CONSTANTS
  BundleRefs = {r1, r2, r3}
  OtherItems = {x1}
  NoRef = NoRef
  NumLocators = 2
  Workers = {w1, w2}
  TargetQueueSize = 2
SPECIFICATION Spec
INVARIANTS TypeOK QueueBounded ExactlyOnePlace NothingLeftBehind ResultAddsUp ProcessedIsAcknowledged
PROPERTIES ImplementsFetchRun Termination QueuedIsServed
