--------------------------- MODULE MCReplication ---------------------------
(* Instances of Replication for TLC. *)
EXTENDS Replication, TLC

\* total_users and the commands of the runs.
NoTotal == -1
AddingPurging == {"ADDUSER", "DELUSER", "PURGE"}

ReplicationSymmetry == Permutations(Threads) \cup Permutations(Names) \cup Permutations(Addrs)
=============================================================================
