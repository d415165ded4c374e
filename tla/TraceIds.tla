------------------------------ MODULE TraceIds ------------------------------
(***************************************************************************)
(* The random source of tracing.go: one rand.Rand for the process, which    *)
(* every request reads without a lock and which rand.New does not make safe *)
(* for that.  Its state is the source's register, changed in place with     *)
(* every word, the two places in it a word is made from, and what Read has  *)
(* left of the last word.  A goroutine loads what it makes a word from,     *)
(* and stores the word and the places it has come to, later: the accesses   *)
(* of several goroutines interleave as they like.                           *)
(*                                                                          *)
(* A byte is known by its word and its place in it.                         *)
(***************************************************************************)
EXTENDS Integers, Sequences, FiniteSetsExt

CONSTANTS
  Request,     \* the requests without a Traceparent
  Size,        \* length of the source's register (607)
  Tap,         \* how far apart its two places start (273)
  PerWord,     \* bytes Read takes of a word (7)
  TraceBytes,  \* newID(16)
  SpanBytes    \* newID(8)

VARIABLES
  source,  \* of the rand.Rand: the register and the two places
  left,    \* its readVal and readPos: the last word, how many bytes are left
  pc,      \* where each goroutine is
  word,    \* Read's own copy of left
  loaded,  \* what it has loaded to make the next word
  bytes    \* the bytes it has drawn: of the trace's ID, then of the span's

vars == <<source, left, pc, word, loaded, bytes>>

\* What one draw makes of a source: both places move down, the words there are
\* added, and the sum replaces one of them.
Drawn(s) ==
  LET back(place) == (place + Size - 1) % Size
  IN  [tap |-> back(s.tap), feed |-> back(s.feed),
       sum |-> s.vec[back(s.feed)] + s.vec[back(s.tap)]]

Nothing == [val |-> 0, pos |-> 0]

\* A seed under which the words drawn one after the other differ.
Init ==
  /\ source = [tap |-> 0, feed |-> Size - Tap, vec |-> [i \in 0 .. Size - 1 |-> 2^i]]
  /\ left = Nothing
  /\ pc = [r \in Request |-> "newID"]
  /\ word = [r \in Request |-> Nothing]
  /\ loaded = [r \in Request |-> Drawn(source)]
  /\ bytes = [r \in Request |-> <<>>]

\* How many bytes the identifier r is drawing still lacks.
Wanted(r) ==
  IF Len(bytes[r]) < TraceBytes THEN TraceBytes - Len(bytes[r])
                                ELSE TraceBytes + SpanBytes - Len(bytes[r])

\* r takes from w what it wants and w has, and needs another word or is done.
Takes(r, w) ==
  LET n == Min({Wanted(r), w.pos})
  IN  /\ bytes' = [bytes EXCEPT ![r] = @ \o [k \in 1 .. n |-> <<w.val, w.pos - k>>]]
      /\ word' = [word EXCEPT ![r] = [w EXCEPT !.pos = @ - n]]
      /\ pc' = [pc EXCEPT ![r] = IF n < Wanted(r) THEN "load" ELSE "return"]

\* newID calls rng.Read, which looks at what the last call has left.
NewID(r) ==
  /\ pc[r] = "newID"
  /\ Takes(r, left)
  /\ UNCHANGED <<source, left, loaded>>

\* It needs a word and loads the places and the words there.
Load(r) ==
  /\ pc[r] = "load"
  /\ loaded' = [loaded EXCEPT ![r] = Drawn(source)]
  /\ pc' = [pc EXCEPT ![r] = "store"]
  /\ UNCHANGED <<source, left, word, bytes>>

\* It stores the places it has come to, and their sum at one of them.
Store(r) ==
  /\ pc[r] = "store"
  /\ LET l == loaded[r]
     IN  /\ source' = [tap |-> l.tap, feed |-> l.feed,
                       vec |-> [source.vec EXCEPT ![l.feed] = l.sum]]
         /\ Takes(r, [val |-> l.sum, pos |-> PerWord])
  /\ UNCHANGED <<left, loaded>>

\* Read keeps what it has left; the span's ID follows the trace's.
Return(r) ==
  /\ pc[r] = "return"
  /\ left' = word[r]
  /\ pc' = [pc EXCEPT ![r] = IF Len(bytes[r]) = TraceBytes THEN "newID" ELSE "done"]
  /\ UNCHANGED <<source, word, loaded, bytes>>

Next == \E r \in Request : NewID(r) \/ Load(r) \/ Store(r) \/ Return(r)

Spec == Init /\ [][Next]_vars
-----------------------------------------------------------------------------
TraceID(r) == SubSeq(bytes[r], 1, TraceBytes)

\* docs/middleware-tracing.md:44 calls the trace ID "Unique identifier for the
\* trace", and tracing_integration_test.go:39 "each request receives a distinct
\* trace": no two new traces have the same (tracing.go:38, 68-74).
TraceIDUnique ==
  \A r, s \in {q \in Request : Len(bytes[q]) >= TraceBytes} :
     r # s => TraceID(r) # TraceID(s)
=============================================================================
