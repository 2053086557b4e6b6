\* Two actors racing on the word, two threads shutting them down, three handles.
CONSTANTS
  Task = {t1, t2}
  Closer = {x1, x2}
  Handler = {h1, h2, h3}
  NoHandler = NoHandler
SPECIFICATION Spec
SYMMETRY Symmetry
INVARIANTS NoEarlyRefusal EscapesBounded
PROPERTY ImplementsActiveCount
\* The actors and the shutdown end, and nothing is left to do.
CHECK_DEADLOCK FALSE
