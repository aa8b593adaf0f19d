CONSTANTS
  s1 = s1
  s2 = s2
  Subscription = {s1, s2}
  Source = {1}
  MaxVersion = 2
  MaxHandlers <- OneReplaced
  MaxQueue = 1
SPECIFICATION Spec
INVARIANTS
  HandlerStaysLookedUp
