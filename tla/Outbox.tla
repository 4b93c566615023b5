-------------------------------- MODULE Outbox --------------------------------
(***************************************************************************)
(* What a transactional outbox promises: a row appears open, its message   *)
(* is handed over any number of times, and the row gets a verdict, which   *)
(* is SUCCESS only after its message was handed over.  Another verdict may *)
(* replace the first, but the row is not open again.                       *)
(***************************************************************************)
CONSTANT Rows

VARIABLES
    phase,   \* ABSENT, PENDING or a verdict
    handed   \* rows whose message was handed over

Verdicts == {"SUCCESS", "FAILED"}

Init ==
    /\ phase = [r \in Rows |-> "ABSENT"]
    /\ handed = {}

Create(r) ==
    /\ phase[r] = "ABSENT"
    /\ phase' = [phase EXCEPT ![r] = "PENDING"]
    /\ UNCHANGED handed

HandOver(r) ==
    /\ phase[r] # "ABSENT"
    /\ handed' = handed \cup {r}
    /\ UNCHANGED phase

Decide(r, verdict) ==
    /\ phase[r] # "ABSENT"
    /\ verdict = "SUCCESS" => r \in handed
    /\ phase' = [phase EXCEPT ![r] = verdict]
    /\ UNCHANGED handed

Next == \E r \in Rows :
    \/ Create(r)
    \/ HandOver(r)
    \/ \E verdict \in Verdicts : Decide(r, verdict)

Spec == Init /\ [][Next]_<<phase, handed>>
=============================================================================
