--------------------------- MODULE TaintGenerator ----------------------------
(****************************************************************************)
(* TaintGenerator of taint_generator.h: a counter with a start to wrap to.  *)
(* When the configuration asks for one mark the tool uses                   *)
(* ConstantTaintGenerator, which always returns the same one: that is this  *)
(* generator with NUMBER_OF_TAINT_MARKS = 1, up to the name of the mark.    *)
(****************************************************************************)
EXTENDS Integers

CONSTANT NUMBER_OF_TAINT_MARKS   \* _max

ASSUME MarksAssumption == NUMBER_OF_TAINT_MARKS \in Nat \ {0}

Mark == 0 .. (NUMBER_OF_TAINT_MARKS - 1)

\* Mutants: no wrap around, and a wrap around one mark early.
nextTaintMarkUnbounded(g) == [start |-> g.start, current |-> g.current + 1]

nextTaintMarkEarly(g) ==
    [start |-> g.start,
     current |-> IF (g.current + 2) % NUMBER_OF_TAINT_MARKS = 0 THEN g.start ELSE g.current + 1]

\* The generator g after nextTaintMark has returned g.current.
nextTaintMark(g) ==
    [start |-> g.start,
     current |-> IF (g.current + 1) % NUMBER_OF_TAINT_MARKS = 0 THEN g.start ELSE g.current + 1]
==============================================================================
