------------------------------ MODULE MCLease ------------------------------
(***************************************************************************)
(* Settings for Lease, in sweep intervals: the shortest lifetime, a longer *)
(* one, and the proportion of the default settings (900 and 300 seconds).  *)
(***************************************************************************)
EXTENDS Lease

ShortAndLong == {[life |-> 2, renewal |-> 1], [life |-> 4, renewal |-> 2]}
Long == [life |-> 4, renewal |-> 2]
Defaults == {[life |-> 3, renewal |-> 1]}
Default == [life |-> 3, renewal |-> 1]
=============================================================================
