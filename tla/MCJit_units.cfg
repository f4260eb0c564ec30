SPECIFICATION JitSpec
CONSTANTS
  f = f  g = g  gRaw = gRaw  g2 = g2  x = x  u = u  d = d  none = none
  Spec <- SameNames
  NameOf <- MCName
  Arity <- MCArity
  Calls <- MCCalls
  Optimized <- MCOptimized
  CallsAs <- MCCallsAs
  Helpers <- MCHelpers
  SignatureOf <- MCSignature
  Startup <- MCStartup
  Bad = {}
  Linker <- MCLinker
  Unit <- SameUnits
  MaxHandle = 5
  MaxCount = 1
  NoSpec = none
INVARIANT UnitLinks
