SPECIFICATION ProgramsSpec
CONSTANTS
  Loaded = {"fib", "led", "crc_32", "nettle-aes", "heap"}
  MemWords = 5
  Values = {0, 1}
  WarmupHeats = {0, 1}
  NoResult = NoResult
  crc_32_tab <- RealTable
  AesCalls <- MCCalls
  Heaps <- MCHeaps
  Sizes = {0, 1, 2, 3}
  Chars = {0, 1}
  TopAddress = 5
  MaxCalls = 3
  Loops = {0, 1, 2, 3}
  ULONG_MAX = 7
  LedMax = 3
  MaxSeconds = 2
INVARIANTS
  BssZeroAtMain
  OverrunIsOneWord
  FibIsF10
  CrcIsShiftRegister
  BenchmarkVerifies
  RoundTrip
  KeysInBounds
  CheckExact
  BlocksDisjoint
  ContentsKept
  ReadsInHeap
  TurnsAsAsked
PROPERTIES
  MainReached
  CipherRefinement
  CountsUnlessRaced
  SecondEnds
CHECK_DEADLOCK FALSE
