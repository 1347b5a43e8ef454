------------------------------ MODULE MCAccess ------------------------------
EXTENDS Access, TLC

CONSTANTS e1, e2, p1, p2, s1, s2

(* Two numbers of one person at the network manager.                       *)
MCDni(subscriber) == "dni"

MCCreateDtos ==
    {[kind |-> "client", email |-> e2, password |-> p1, subscriber |-> s] : s \in {s1, s2}}
    \cup {[kind |-> "admin", email |-> e2, password |-> p1]}

MCUpdateDtos ==
    {[email |-> e1, password |-> NULL], [email |-> e2, password |-> p2]}

Symmetric == Permutations(Requests) \cup Permutations(Tokens) \cup Permutations(Visits)
=============================================================================
