------------------------------ MODULE MCFaults ------------------------------
(***************************************************************************)
(* Damaged inputs.  An input has a field faults, the set of the faults it  *)
(* was given; a fault is <<what, where>>.                                  *)
(***************************************************************************)

NoFault == <<"none", "-">>

\* Every way to apply at most two of the faults to an intact input.
Damaged(intact, faults, Edit(_, _)) ==
    {[Edit(g, Edit(f, i)) EXCEPT !.faults = {f, g} \ {NoFault}] :
        i \in intact, f \in faults \cup {NoFault}, g \in faults \cup {NoFault}}
=============================================================================
