----------------------------- MODULE AuditTrail -----------------------------
(***************************************************************************)
(* What the audit pipeline promises of the entries it has taken in: one    *)
(* waits on disk until it is in the database, and is never forgotten.      *)
(***************************************************************************)
EXTENDS FiniteSets

CONSTANT Entries

VARIABLES waiting, stored

Init == waiting = {} /\ stored = {}

Accept(e) == waiting' = waiting \cup {e} /\ UNCHANGED stored

Store(S) ==
    /\ stored'  = stored \cup S
    /\ waiting' = waiting \ S

Next == \/ \E e \in Entries \ stored : Accept(e)
        \/ \E S \in SUBSET Entries : Store(S)

Spec == Init /\ [][Next]_<< waiting, stored >>
=============================================================================
