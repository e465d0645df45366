-------------------------- MODULE MCChapterReview --------------------------
(* Instances of ChapterReview for TLC. *)
EXTENDS ChapterReview

CONSTANTS w1, a1

\* Chapter 1 is written once, or once more.
One == [c \in 1..Book |-> 1]
TwoThenOne == [c \in 1..Book |-> IF c = 1 THEN 2 ELSE 1]
=============================================================================
