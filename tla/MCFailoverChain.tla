------------------------- MODULE MCFailoverChain -------------------------
(* Small instances of FailoverChain. *)
EXTENDS FailoverChain, TLC

\* Background slots are interchangeable.
Interchangeable == Permutations(Background)

\* Bound of the runs with two background slots: at most two functions in
\* flight at a time, of the hook, the user's and the background ones.
TwoInFlight == Cardinality({t \in Task : memory.task[t] # NoFrame}) <= 2
=============================================================================
