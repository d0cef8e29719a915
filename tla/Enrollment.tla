----------------------------- MODULE Enrollment -----------------------------
(***************************************************************************)
(* What an invite promises, independently of how the daemon keeps it: a    *)
(* token enrolls at most one node, for good, and a token whose revocation  *)
(* was acknowledged enrolls nobody any more.  Grants implements it through *)
(* lost answers, failed saves and restarts.                                *)
(***************************************************************************)
CONSTANTS Tokens, Nodes, NoOne

VARIABLES
    holder,  \* the node that was told it is enrolled by each token, or NoOne
    closed   \* the tokens whose revocation the owner was told of

enrollVars == <<holder, closed>>

EnrollInit ==
    /\ holder = [t \in Tokens |-> NoOne]
    /\ closed = {}

Enroll(t, r) ==
    /\ holder[t] = NoOne
    /\ t \notin closed
    /\ holder' = [holder EXCEPT ![t] = r]
    /\ UNCHANGED closed

Close(S) ==
    /\ closed' = closed \cup S
    /\ UNCHANGED holder

EnrollNext ==
    \/ \E t \in Tokens, r \in Nodes : Enroll(t, r)
    \/ \E S \in SUBSET Tokens : Close(S)

EnrollSpec == EnrollInit /\ [][EnrollNext]_enrollVars
=============================================================================
