CONSTANTS
  MAX = 4
  Programs = {"PP2C", "PP_NEW", "BenchPP", "NoAtomic", "Equal", "PPWA",
              "ThreeFriends", "ThreeFriendsOld", "PP_NEW2", "Fork1", "Fork4", "Vfork1", "Vfork2"}
SPECIFICATION FairSpec
INVARIANTS
  NoLostIncrement
  Alternates
  InStep
  FinalCount
PROPERTIES
  Completes
CHECK_DEADLOCK FALSE
