CONSTANTS
  EventNames = {log, net}
  BufferedEvents = {log}
  BufferLength = 2
  Contexts = {ctxA, ctxB}
  NoContext = NoContext
  Channels = {ch1}
  MaxEvents = 3
SYMMETRY MCSymmetry
SPECIFICATION Spec
INVARIANT TypeOK
INVARIANT InOrderOnce
INVARIANT SubscribedSeesBuffered
PROPERTY EventBrokerRefined
PROPERTY NoEventOfDisposedContext
