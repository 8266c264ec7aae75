--------------------------- MODULE MCTransferPair ---------------------------
(* Two instances of Transfer in one run: the downloads of a user with      *)
(* credits for less than two files next to those of a user exempt from the *)
(* limits, and the uploads of one name by two clients of a user without    *)
(* credits. The variable plan says which instance a behaviour is of.       *)
EXTENDS Integers, FiniteSets, TLC

CONSTANTS
  First,     \* the client of the first user
  Others,    \* two clients of the second user
  NoEntry    \* no credits entry

VARIABLES plan,
  pc, kind, out, restart, open, bytes, size, aborted, fileOkay, inode, count, global,
  dir, len, credits, jobs, num, paid, recorded, ledger, kept

pairVars == <<plan, pc, kind, out, restart, open, bytes, size, aborted, fileOkay, inode,
  count, global, dir, len, credits, jobs, num, paid, recorded, ledger, kept>>

\* One transfer at a time for everybody but the exempt user, who has credits for
\* one kilobyte.
Downloads == INSTANCE Transfer WITH
  Clients <- {First} \cup Others, Users <- {1, 2},
  UserOf <- [c \in {First} \cup Others |-> IF c = First THEN 1 ELSE 2],
  Credits <- [u \in {1, 2} |-> 1], Allotted <- {}, MaxSim <- [u \in {1, 2} |-> -1],
  MaxGlobal <- 1, Exempt <- {2}, KB <- 2, Ratio <- 1, Overwrite <- FALSE,
  OpenFails <- FALSE, Garbage <- {}, Kinds <- {"RETR"}, Offsets <- {0, 1}, FileLen <- 3, MaxLen <- 3,
  MaxTransfers <- 2, MaxTotal <- 3, MaxInodes <- 3

\* No limits and no file at the start.
Uploads == INSTANCE Transfer WITH
  Clients <- Others, Users <- {2}, UserOf <- [c \in Others |-> 2],
  Credits <- [u \in {2} |-> NoEntry], Allotted <- {}, MaxSim <- [u \in {2} |-> -1],
  MaxGlobal <- -1, Exempt <- {}, KB <- 2, Ratio <- 1, Overwrite <- FALSE,
  OpenFails <- FALSE, Garbage <- {}, Kinds <- {"STOR"}, Offsets <- {0}, FileLen <- -1, MaxLen <- 2,
  MaxTransfers <- 2, MaxTotal <- 4, MaxInodes <- 3

Init ==
  \/ plan = "downloads" /\ Downloads!Init
  \/ plan = "uploads" /\ Uploads!Init

Next ==
  \/ plan = "downloads" /\ Downloads!Next /\ UNCHANGED plan
  \/ plan = "uploads" /\ Uploads!Next /\ UNCHANGED plan

Spec == Init /\ [][Next]_pairVars

\* A download is charged for the kilobytes it sent, whatever ends it (the
\* refund of RETR after an aborted transfer).
PaidForBytes == plan = "downloads" => Downloads!PaidForBytes

\* Downloads that run at the same time never spend more credits than there are.
NotOverdrawn == plan = "downloads" => Downloads!NotOverdrawn

\* An upload that was credited stays on disk, and when no transfer is running
\* no failed one has stayed behind.
UploadKept == plan = "uploads" => Uploads!UploadKept /\ Uploads!NoPartialFile

OtherSymmetry == Permutations(Others)
=============================================================================
