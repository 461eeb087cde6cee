--------------------------- MODULE Authorizations ---------------------------
(***************************************************************************)
(* What collection promises about one authorization, with no leases, no    *)
(* processes and no crashes: its code is posted to the provider at most    *)
(* once, a decision is never undone, and casa is told only about           *)
(* authorizations that are decided or whose record an erasure removed.     *)
(***************************************************************************)
EXTENDS Naturals

CONSTANT Attempts

VARIABLES spent,     \* how often each code has been posted
          decided,   \* authorizations with a settled outcome
          erased,    \* authorizations whose record an erasure removed
          told       \* authorizations acknowledged to casa

vars == <<spent, decided, erased, told>>

Init == spent = [a \in Attempts |-> 0] /\ decided = {} /\ erased = {} /\ told = {}

Spend(a) == /\ spent[a] = 0
            /\ spent' = [spent EXCEPT ![a] = 1]
            /\ UNCHANGED <<decided, erased, told>>

Decide(a) == /\ a \notin decided \cup erased
             /\ decided' = decided \cup {a}
             /\ UNCHANGED <<spent, erased, told>>

Erase == /\ \E S \in SUBSET (Attempts \ erased) :
              /\ S # {}
              /\ erased' = erased \cup S
              /\ decided' = decided \ S
         /\ UNCHANGED <<spent, told>>

Tell(a) == /\ a \in decided \cup erased
           /\ told' = told \cup {a}
           /\ UNCHANGED <<spent, decided, erased>>

Next == Erase \/ \E a \in Attempts : Spend(a) \/ Decide(a) \/ Tell(a)

Spec == Init /\ [][Next]_vars
=============================================================================
