------------------------------- MODULE MCHub -------------------------------
(* Instances of HubPublishing for TLC. *)
EXTENDS HubPublishing, TLC

CONSTANTS a, a2, b, book

ChapterOfRow == (a :> 1) @@ (a2 :> 1) @@ (b :> 2)

\* Two candidates of a chapter; two chapters; a chapter whose book is missing.
EachStart == {<<{a, a2}, TRUE>>, <<{a, b}, TRUE>>, <<{a}, FALSE>>}
=============================================================================
