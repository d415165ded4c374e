\* Two requests that arrive at the same time; a short register stands for the
\* one of 607 words.
CONSTANTS
  Request = {r1, r2}
  Size = 7
  Tap = 3
  PerWord = 7
  TraceBytes = 16
  SpanBytes = 8
SPECIFICATION Spec
INVARIANTS TraceIDUnique
CHECK_DEADLOCK FALSE
