\* Two events, each of which may be emitted by a listener of the other or by
\* its own; three listeners, each for one or for all emits.
CONSTANTS
  Event = {e1, e2}
  Func = {f1, f2}
  Context = {c}
  Entry = {x1, x2, x3}
  MaxTimes = 1
  MaxDepth = 2
  Null = Null
SPECIFICATION EmitterSpec
SYMMETRY Symmetry
INVARIANTS ListIsAsExpected CalledAtMostItsTimes
PROPERTY OnlyEmitsForgetListeners
