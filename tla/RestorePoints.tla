--------------------------- MODULE RestorePoints ---------------------------
(***************************************************************************)
(* What the backup subsystem promises, with no index, no files and no      *)
(* crashes: a restore brings the ledger's rows back to what they were when *)
(* some copy was taken since the last erasure; an erasure takes every such *)
(* point with it; a workflow's write lands only if no restore happened     *)
(* since its pass read the restore generation.                             *)
(***************************************************************************)
EXTENDS Naturals

CONSTANT Workflows

VARIABLES rows,      \* the ledger's rows: the life they belong to, and which
                     \* workflows have written into them
          points,    \* the rows a restore may bring back
          restores,  \* the restore generation
          bound,     \* the generation each workflow's pass read
          erasures   \* total erasures so far

vars == <<rows, points, restores, bound, erasures>>

Init == /\ rows = [life |-> 0, wrote |-> {}]
        /\ points = {}
        /\ restores = 0
        /\ bound = [w \in Workflows |-> 0]
        /\ erasures = 0

\* A copy of the present rows becomes restorable; older ones may be gone.
TakePoint == /\ points' \subseteq points \cup {rows}
             /\ UNCHANGED <<rows, restores, bound, erasures>>

\* A pass reads the generation; points may be gone meanwhile.
ReadGeneration(w) == /\ bound' = [bound EXCEPT ![w] = restores]
                     /\ points' \subseteq points
                     /\ UNCHANGED <<rows, restores, erasures>>

Write(w) == /\ bound[w] = restores
            /\ rows' = [rows EXCEPT !.wrote = @ \cup {w}]
            /\ UNCHANGED <<points, restores, bound, erasures>>

\* Only over a point that holds exactly what is erased.
ScopedErase == /\ rows \in points
               /\ rows' = [rows EXCEPT !.wrote = {}]
               /\ UNCHANGED <<points, restores, bound, erasures>>

Restore == /\ rows' \in points
           /\ restores' = restores + 1
           /\ UNCHANGED <<points, bound, erasures>>

TotalErase == /\ erasures' = erasures + 1
              /\ rows' = [life |-> erasures', wrote |-> {}]
              /\ points' = {}
              /\ UNCHANGED <<restores, bound>>

Next == \/ TakePoint \/ ScopedErase \/ Restore \/ TotalErase
        \/ \E w \in Workflows : ReadGeneration(w) \/ Write(w)

Spec == Init /\ [][Next]_vars
=============================================================================
