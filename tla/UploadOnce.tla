----------------------------- MODULE UploadOnce -----------------------------
(***************************************************************************)
(* What the publisher promises of one upload job: the content is sent to   *)
(* the platform once at most; a job is reported uploaded only when it is   *)
(* there, and withdrawn only when it was not sent and never will be.       *)
(***************************************************************************)
EXTENDS Naturals

CONSTANT Jobs

VARIABLES sent,    \* how often a job's content was sent
          there,   \* how often it arrived at the platform
          told     \* what the job reports: "open", "uploaded" or "withdrawn"

vars == <<sent, there, told>>

Init == /\ sent = [j \in Jobs |-> 0]
        /\ there = [j \in Jobs |-> 0]
        /\ told = [j \in Jobs |-> "open"]

Send(j) == /\ sent[j] = 0 /\ told[j] = "open"
           /\ sent' = [sent EXCEPT ![j] = 1]
           /\ UNCHANGED <<there, told>>

Arrive(j) == /\ there[j] < sent[j]
             /\ there' = [there EXCEPT ![j] = @ + 1]
             /\ UNCHANGED <<sent, told>>

Confirm(j) == /\ there[j] = 1 /\ told[j] = "open"
              /\ told' = [told EXCEPT ![j] = "uploaded"]
              /\ UNCHANGED <<sent, there>>

\* One sweep over lapsed attempts may withdraw several jobs.
Withdraw(js) == /\ \A j \in js : sent[j] = 0 /\ told[j] = "open"
                /\ told' = [j \in Jobs |-> IF j \in js THEN "withdrawn" ELSE told[j]]
                /\ UNCHANGED <<sent, there>>

Next == \/ \E j \in Jobs : Send(j) \/ Arrive(j) \/ Confirm(j)
        \/ \E js \in SUBSET Jobs : Withdraw(js)

Spec == Init /\ [][Next]_vars
=============================================================================
