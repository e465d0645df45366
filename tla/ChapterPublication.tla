------------------------- MODULE ChapterPublication -------------------------
(***************************************************************************)
(* What the publish hub promises a reader of ForWin's upload rows: a       *)
(* chapter is out once, and a row says so only when it is; a row that said *)
(* it stays with it, and at most one row of a chapter claims to have       *)
(* published it.                                                           *)
(***************************************************************************)
CONSTANTS Rows,       \* upload rows
          Chapter     \* the chapter of a row

VARIABLES out,        \* the rows whose text is on the platform
          told        \* what the rows say: "open", "succeeded" or "superseded"

vars == <<out, told>>

Init == out = {} /\ told = [r \in Rows |-> "open"]

Publish(r) == /\ \A q \in out : Chapter[q] # Chapter[r]
              /\ out' = out \cup {r}
              /\ UNCHANGED told

\* One transaction may write several rows.
Tell(says) ==
    /\ \A r \in Rows : says[r] # told[r] => told[r] = "open" /\ \E q \in out : Chapter[q] = Chapter[r]
    /\ \A q, r \in Rows :
          says[q] = "succeeded" /\ says[r] = "succeeded" /\ Chapter[q] = Chapter[r] => q = r
    /\ told' = says
    /\ UNCHANGED out

Next == \/ \E r \in Rows : Publish(r)
        \/ \E says \in [Rows -> {"open", "succeeded", "superseded"}] : Tell(says)

Spec == Init /\ [][Next]_vars
=============================================================================
