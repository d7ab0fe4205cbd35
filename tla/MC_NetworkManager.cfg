CONSTANTS
  RequestIds = {r1, r2}
  Urls = {u1, u2}
  InterceptIds = {i1, i2}
  BeforeRequestSent = BeforeRequestSent
  ResponseStarted = ResponseStarted
  AuthRequired = AuthRequired
  Wildcard = Wildcard
  None = None
  Targets = {t1, t2}
  r1 = r1
  t1 = t1
  t2 = t2
  u1 = u1
  u2 = u2
  Owner <- MCOwner
  SubEvents = {responseReceived, loadingFailed}
  MaxHops = 3
  InterceptInputs <- MCInterceptInputs
SPECIFICATION Spec
INVARIANT RedirectChain
PROPERTY InterceptRegistryRefined
INVARIANT FetchCoversIntercepts
