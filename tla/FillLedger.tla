----------------------------- MODULE FillLedger -----------------------------
(***************************************************************************)
(* What settlement promises to the rest of the program, whatever callers,  *)
(* retries and restarts it takes: the units of a broker fill enter the     *)
(* books (lots opened, lots closed, short-exposure liability) at most once *)
(* each, never leave them again, and a fill is settled, for good, only     *)
(* when all of its units are in.                                           *)
(***************************************************************************)
EXTENDS Naturals

CONSTANTS
    Fills,  \* broker fills
    Qty     \* units of each fill, a positive number

VARIABLES
    allocated,   \* units of each fill in the books
    settled      \* fills whose settlement event is COMPLETED

vars == <<allocated, settled>>

Init ==
    /\ allocated = [f \in Fills |-> 0]
    /\ settled = {}

Project(f) ==
    /\ f \notin settled
    /\ \E units \in 1 .. (Qty[f] - allocated[f]) :
          allocated' = [allocated EXCEPT ![f] = @ + units]
    /\ UNCHANGED settled

Settle(f) ==
    /\ allocated[f] = Qty[f]
    /\ settled' = settled \cup {f}
    /\ UNCHANGED allocated

Next == \E f \in Fills : Project(f) \/ Settle(f)

Spec == Init /\ [][Next]_vars
=============================================================================
