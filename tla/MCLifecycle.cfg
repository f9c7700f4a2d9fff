\* Two programs, a watchdog of three rounds.
SPECIFICATION Spec
CONSTANTS
  summer1 = summer1
  summer2 = summer2
  Child = {summer1, summer2}
  Launch <- MCLaunch
  Nobody = nobody
  Patience = 3
  Grace = 3
INVARIANTS TypeOK LeaderServed HeldBackIsKnown LaunchWaitsForMain
PROPERTIES NobodyStarves
