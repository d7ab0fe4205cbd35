CONSTANTS
  Pages = {p1, p2}
  InitialPages = {p1}
  Frames = {f1}
  p1 = p1
  p2 = p2
  f1 = f1
  FrameParent <- MCFrameParent
  SelfTarget = self
  Cmds = {c1, c2}
  None = None
  CommandInputs <- MCAnsweredInputs
SPECIFICATION Spec
CHECK_DEADLOCK FALSE
PROPERTY EveryCommandAnswered
