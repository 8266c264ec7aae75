----------------------------- MODULE MCSession -----------------------------
(***************************************************************************)
(* Instances of Session for TLC: the sets of commands and the login limits *)
(* of the runs, and the symmetry of the client objects.                    *)
(***************************************************************************)
EXTENDS Session, TLC

OneLogin == [u \in Users |-> 1]

LoginOnly == {"USER", "PASS"}
BusyCommands == {"USER", "PASS", "KICK", "SHUTDOWN"}
LiveCommands == {"USER", "PASS", "QUIT", "XFER", "NOOP"}
UpdateCommands == {"USER", "PASS", "DELUSER", "READD"}

ClientSymmetry == Permutations(Clients)
=============================================================================
