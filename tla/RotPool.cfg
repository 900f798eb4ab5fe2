CONSTANTS
  w1 = w1
  w2 = w2
  Parties = {alice, bob}
  Main = main
  Workers <- MCWorkers
  Programs <- MCPrograms
SPECIFICATION PoolSpec
INVARIANTS
  TypeOK
  NoReuse
  Disjoint
  Mirrored
  Accounted
