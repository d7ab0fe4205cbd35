CONSTANTS
  EventNames = {log}
  BufferedEvents = {log}
  BufferLength = 2
  Contexts = {ctxA, ctxB}
  NoContext = NoContext
  Channels = {ch1, ch2}
  MaxEvents = 3
SYMMETRY MCSymmetry
SPECIFICATION Spec
INVARIANT SubscribedSeesBuffered
PROPERTY EventBrokerRefined
