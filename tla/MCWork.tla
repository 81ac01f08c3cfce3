------------------------------ MODULE MCWork ------------------------------
(* Small instances of Work. *)
EXTENDS Work, TLC

Path(names) == [kind |-> "path", key |-> names]
Exact(name) == [kind |-> "exact", key |-> <<name>>]

\* Nothing, a directory with a checkout, and a file in the directory.
MCResourceSets ==
    {{}, {Path(<<"auth">>), Exact("checkout")}, {Path(<<"auth", "session">>)}}

Bare == {{}}

Symmetry == Permutations(Keys) \cup Permutations(Consumers)
=============================================================================
