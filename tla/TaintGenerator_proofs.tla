----------------------- MODULE TaintGenerator_proofs -------------------------
(****************************************************************************)
(* Facts about the generator of taint marks.                                *)
(****************************************************************************)
EXTENDS TaintGenerator, NumberTheorems

\* The test for the last mark, (current + 1) % max == 0, is a test for max - 1.
LEMMA LastMark ==
    ASSUME NEW m \in Mark
    PROVE  (m + 1) % NUMBER_OF_TAINT_MARKS = 0 <=> m + 1 = NUMBER_OF_TAINT_MARKS
  BY MarksAssumption, Z3 DEF Mark

\* A generator that hands out a mark counts on, and is at its start again after the
\* last one.
LEMMA NextMark ==
    ASSUME NEW g \in [start : Mark, current : Mark]
    PROVE  /\ nextTaintMark(g) \in [start : Mark, current : Mark]
           /\ nextTaintMark(g).start = g.start
           /\ nextTaintMark(g).current =
                 IF g.current + 1 = NUMBER_OF_TAINT_MARKS THEN g.start ELSE g.current + 1
  <1>1. g.current \in Mark /\ g.start \in Mark
    OBVIOUS
  <1>2. (g.current + 1) % NUMBER_OF_TAINT_MARKS = 0 <=> g.current + 1 = NUMBER_OF_TAINT_MARKS
    BY <1>1, LastMark
  <1>3. g.current + 1 = NUMBER_OF_TAINT_MARKS \/ g.current + 1 \in Mark
    BY <1>1, MarksAssumption DEF Mark
  <1> QED  BY <1>1, <1>2, <1>3 DEF nextTaintMark
==============================================================================
