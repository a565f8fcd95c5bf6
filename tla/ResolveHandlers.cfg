SPECIFICATION FairSpec
CONSTANTS
  Threads = {t1, t2}
  Setters = {t1}
  Functions = {fMissing}
  Modules = {m1}
  Handlers = {supply, refuse, stubborn}
  Type <- MCType
  ModuleOf <- MCModuleOf
  Addresses <- MCAddresses
  Kerncall <- MCKerncall
  UserSymbol <- MCUserSymbol
  KernelSymbol <- MCKernelSymbol
  Calls <- MCLegalCalls
  ResolveCalls = {}
  HandlersFor <- MCHandlersFor
  HandlerReturn <- MCHandlerReturn
  HandlerAddress <- MCHandlerAddress
  MayFail = {"lsm", "load"}
  NULL = NULL
  fUser = fUser
  fKernel = fKernel
  fBoth = fBoth
  fSyscall = fSyscall
  fPlain = fPlain
  fMissing = fMissing
  m1 = m1
  supply = supply
  refuse = refuse
  stubborn = stubborn
INVARIANTS
  Inv
PROPERTY
  CallCompletes
CHECK_DEADLOCK
  FALSE
