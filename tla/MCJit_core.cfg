SPECIFICATION JitSpec
CONSTANTS
  f = f  g = g  gRaw = gRaw  g2 = g2  x = x  u = u  d = d  none = none
  Spec <- MCSpec
  NameOf <- MCName
  Arity <- MCArity
  Calls <- MCCalls
  Optimized <- MCOptimized
  CallsAs <- MCCallsAs
  Helpers <- MCHelpers
  SignatureOf <- MCSignature
  Startup <- MCStartup
  Bad = {x}
  Linker <- MCLinker
  Unit <- MCUnit
  MaxHandle = 4
  MaxCount = 2
  NoSpec = none
INVARIANTS TypeOK CallSafe NamesForgotten MissesAreRecords FailuresExplained UnitLinks
PROPERTY HandlesStay
