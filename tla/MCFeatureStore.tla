--------------------------- MODULE MCFeatureStore ---------------------------
(***************************************************************************)
(* Two threads score two transactions of one user, paid from different     *)
(* devices, so that concurrent scores race and a transaction may be        *)
(* submitted again; nobody scores the second user, whose keys must stay    *)
(* empty.  Two entries fill the list, so the third push trims it.          *)
(***************************************************************************)
EXTENDS FeatureStore

CONSTANTS t1, t2, u1, d1, d2

MCUserOf == [t \in Tx |-> u1]
MCDeviceOf == [t \in Tx |-> IF t = t1 THEN d1 ELSE d2]
MCWindows == [short |-> 1, mid |-> 2, long |-> 2]
=============================================================================
