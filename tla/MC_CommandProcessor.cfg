CONSTANTS
  Pages = {p1, p2}
  InitialPages = {p1}
  Frames = {f1}
  p1 = p1
  p2 = p2
  f1 = f1
  FrameParent <- MCFrameParent
  SelfTarget = self
  Cmds = {c1, c2}
  None = None
  CommandInputs <- MCCommandInputs
SPECIFICATION Spec
CHECK_DEADLOCK FALSE
INVARIANT TypeOK
INVARIANT ClosedContextGone
INVARIANT MapperInSync
PROPERTY CreatedContextLoaded
PROPERTY AnsweredUnlessLifecycleWait
