---------------------------- MODULE MC_KvdServer ----------------------------
(***************************************************************************)
(* Every --cluster argument of up to three characters over one address     *)
(* letter and the separator, and every --id from 0 to 3, so that the own   *)
(* id falls inside, at the end of and past the cluster list, and empty     *)
(* fields (",", "a,", "") occur.                                           *)
(***************************************************************************)
EXTENDS KvdServer

ServerChar == {"a", ","}
ServerClusters == UNION {[1 .. k -> ServerChar] : k \in 0 .. 3}
ServerIds == 0 .. 3
=============================================================================
