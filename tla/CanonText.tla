------------------------------ MODULE CanonText ------------------------------
(***************************************************************************)
(* What review and admission promise a reader of the book: each chapter's  *)
(* canon text is one version of it; it enters after the chapter before it, *)
(* is replaced once for each request to rewrite it, is there until then,   *)
(* and what was replaced never comes back.  One chapter is rewritten at a  *)
(* time: none is replaced while a later one waits to be.                   *)
(***************************************************************************)
EXTENDS Naturals

CONSTANTS Chapters,   \* chapter numbers
          Versions    \* numbers of a chapter's versions

VARIABLES text,       \* the versions of a chapter in canon: none or one
          past,       \* the versions that were replaced
          asked       \* whether a rewrite of the chapter is pending

vars == <<text, past, asked>>

Init == /\ text = [c \in Chapters |-> {}]
        /\ past = [c \in Chapters |-> {}]
        /\ asked = [c \in Chapters |-> FALSE]

Enter(c, v) ==
    /\ v \notin text[c] \cup past[c]
    /\ c - 1 \in Chapters => text[c - 1] # {}
    /\ text[c] # {} => asked[c] /\ \A d \in Chapters : d > c => ~asked[d]
    /\ text' = [text EXCEPT ![c] = {v}]
    /\ past' = [past EXCEPT ![c] = @ \cup text[c]]
    /\ asked' = [asked EXCEPT ![c] = FALSE]

Ask(c) == /\ text[c] # {} /\ ~asked[c]
          /\ asked' = [asked EXCEPT ![c] = TRUE]
          /\ UNCHANGED <<text, past>>

Next == \E c \in Chapters : Ask(c) \/ \E v \in Versions : Enter(c, v)

Spec == Init /\ [][Next]_vars
=============================================================================
