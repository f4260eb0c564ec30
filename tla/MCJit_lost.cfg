SPECIFICATION JitSpec
CONSTANTS
  f = f  g = g  gRaw = gRaw  g2 = g2  x = x  u = u  d = d  none = none
  Spec <- FewSpecs
  NameOf <- MCName
  Arity <- MCArity
  Calls <- MCCalls
  Optimized <- MCOptimized
  CallsAs <- MCCallsAs
  Helpers <- MCHelpers
  SignatureOf <- MCSignature
  Startup <- MCStartup
  Bad = {x}
  Linker <- MCLinker
  Unit <- FewUnits
  MaxHandle = 5
  MaxCount = 1
  NoSpec = none
INVARIANT CallsRun
