----------------------------- MODULE CanonLedger -----------------------------
(***************************************************************************)
(* What the chapters of a book are promised, whichever workers, restarts   *)
(* and tasks write them: a chapter enters canon once, with one candidate,  *)
(* after every chapter before it, and nothing takes it out again.          *)
(***************************************************************************)
EXTENDS Naturals

CONSTANTS Chapters, Candidates

VARIABLE canon   \* canon[c]: the candidate admitted as chapter c, 0 for none

Init == canon = [c \in Chapters |-> 0]

Admit(c) ==
    /\ canon[c] = 0
    /\ \A d \in Chapters : d < c => canon[d] # 0
    /\ \E k \in Candidates : canon' = [canon EXCEPT ![c] = k]

Next == \E c \in Chapters : Admit(c)

Spec == Init /\ [][Next]_canon
=============================================================================
