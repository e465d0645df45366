--------------------------- MODULE ChapterCadence ---------------------------
(***************************************************************************)
(* The cadence the book keeps whoever runs its maintenance: a chapter      *)
(* enters canon, its maintenance steps are done one after the other, then  *)
(* its order controls, each of them once, and only then may the next       *)
(* chapter enter canon.                                                    *)
(***************************************************************************)
EXTENDS Naturals

CONSTANTS Chapters, Steps   \* Steps: the numbers of the stages of a chapter

VARIABLE done   \* done[c]: the stages of chapter c that are done

Init == done = [c \in Chapters |-> {}]

Do(c, s) ==
    /\ s \notin done[c]
    /\ \A r \in Steps : r < s => r \in done[c]
    /\ \A d \in Chapters : d < c => done[d] = Steps
    /\ done' = [done EXCEPT ![c] = @ \cup {s}]

Next == \E c \in Chapters, s \in Steps : Do(c, s)

Spec == Init /\ [][Next]_done
=============================================================================
