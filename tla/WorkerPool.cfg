SPECIFICATION FairSpec
CONSTANTS
  root = root  left = left  right = right  leaf1 = leaf1  leaf2 = leaf2
  Workers = {w1, w2, w3}
  Node <- MCNode
  Root = root
  Below <- MCBelow
  MayPanic = TRUE
  MayRefuse = TRUE
INVARIANTS IdleIsWaiting NoLostWakeup QuietTermination HandedBack
PROPERTIES EventuallyOver
