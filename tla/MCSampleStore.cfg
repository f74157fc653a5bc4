CONSTANTS
  CORES = 2
  UNIQUE = 2
  THREAD_MAX = 2
  M = 5
  FD_MAX = 1
  MAX_SAMPLES = 3
  Tids = {1, 2, 3}
  PidOf <- MCPidOf
  Addrs <- MCAddrs
  PhysAddrs <- MCPhysAddrs
  Frame <- MCFrame
  Offset <- MCOffset
  FAILURE = 1
  Hash <- MCHash
  PolyHash <- MCPolyHash
  LowHalf <- MCLow
  HighHalf <- MCHigh
  NoAddr = none
SPECIFICATION Spec
INVARIANTS
  TypeOK
  OneRecordPerThread
  FiltersExact
  CountsExact
  SharingReported
  
CHECK_DEADLOCK FALSE
