SPECIFICATION Spec
CONSTANTS
  Threads = {t1, t2}
  Setters = {}
  Functions = {fUser, fKernel, fBoth, fSyscall, fPlain}
  Modules = {m1}
  Handlers = {supply, refuse, stubborn}
  Type <- MCType
  ModuleOf <- MCModuleOf
  Addresses <- MCAddresses
  Kerncall <- MCKerncall
  UserSymbol <- MCUserSymbol
  KernelSymbol <- MCKernelSymbol
  Calls <- MCLegalCalls
  ResolveCalls = {}
  HandlersFor <- MCNoHandlers
  HandlerReturn <- MCHandlerReturn
  HandlerAddress <- MCHandlerAddress
  MayFail = {"lsm", "load"}
  NULL = NULL
  fUser = fUser
  fKernel = fKernel
  fBoth = fBoth
  fSyscall = fSyscall
  fPlain = fPlain
  fMissing = fMissing
  m1 = m1
  supply = supply
  refuse = refuse
  stubborn = stubborn
INVARIANT
  NoBadAccess
