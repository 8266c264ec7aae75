------------------------------ MODULE Transfer ------------------------------
(***************************************************************************)
(* RETR and STOR (cmd/rfc/retr.cpp, cmd/rfc/stor.cpp) of several clients   *)
(* on one file: the transfer slots (ftp/transfercounter.cpp), the file and *)
(* its directory entry (fs/file.cpp), the data connection (ftp/data.cpp),  *)
(* the credits of the users, which increments reach asynchronously         *)
(* (db/user/user.cpp), and the scope guards that undo a transfer in the    *)
(* reverse order of their declaration.                                     *)
(*                                                                         *)
(* One action is one step on state that other threads see: a section of    *)
(* the counter, a system call on the path, a database command, a read or   *)
(* write of the data connection.                                           *)
(***************************************************************************)
EXTENDS Integers, FiniteSets, Functions

CONSTANTS
  Clients,        \* client threads
  Users,          \* user ids
  UserOf,         \* the user each client is logged in as
  NoEntry,        \* a user without a credits entry for the section
  Credits,        \* the credits at the start
  Allotted,       \* users with a weekly allotment: they pay no credits
  MaxSim,         \* User::MaxSimUp and MaxSimDown, -1 for unlimited
  MaxGlobal,      \* cfg sim_xfers, -1 for unlimited
  Exempt,         \* users with the Exempt flag
  KB,             \* bytes of a kilobyte: 1024 in the code
  Ratio,          \* stats::DownloadRatio and UploadRatio
  Overwrite,      \* whether acl::path::Overwrite allows a second upload
  OpenFails,      \* whether the 150 reply or the data connection may fail
  Garbage,        \* sizes RETR may go on with, uninitialised, when the file cannot be sought
  Kinds,          \* the commands of a run: subset of {"RETR", "STOR"}
  Offsets,        \* the arguments of REST
  FileLen,        \* length of the file at the start, -1 for no file
  MaxLen,         \* bound: bytes a client uploads, and length of a file
  MaxTransfers,   \* bound: transfers of a client
  MaxTotal,       \* bound: transfers of all clients
  MaxInodes       \* bound: files created

AllKinds == {"RETR", "STOR"}

ASSUME UserAssumption == UserOf \in [Clients -> Users] /\ Exempt \subseteq Users
ASSUME ClientAssumption == IsFiniteSet(Clients)
ASSUME CreditAssumption ==
  /\ Credits \in [Users -> Int \cup {NoEntry}] /\ NoEntry \notin Int
  /\ KB \in Nat \ {0} /\ Ratio \in Nat
ASSUME LimitAssumption == MaxSim \in [Users -> Nat \cup {-1}] /\ MaxGlobal \in Nat \cup {-1}
ASSUME TransferBounds ==
  /\ Kinds \subseteq AllKinds /\ Garbage \subseteq Nat /\ Offsets \subseteq Nat
  /\ FileLen \in Nat \cup {-1}
  /\ MaxLen \in Nat /\ MaxTransfers \in Nat /\ MaxTotal \in Nat
  /\ MaxInodes \in Nat \ {0}
  /\ Overwrite \in BOOLEAN /\ OpenFails \in BOOLEAN

VARIABLES
  pc,         \* where the handler of each client is; "idle": between commands
  kind,       \* the command it executes
  out,        \* what follows the handler: "idle", or "ended", the session's end
  restart,    \* Data::restartOffset
  open,       \* TransferState::type # None
  bytes,      \* TransferState::bytes
  size,       \* RETR's size
  aborted,    \* aborted of the handlers
  fileOkay,   \* STOR's fileOkay
  inode,      \* the file held open
  count,      \* TransferCounter::personal of both counters
  global,     \* TransferCounter::global of both counters
  dir,        \* the file the path leads to, 0 for none
  len,        \* length of each file
  credits,    \* the credits entries of the database
  jobs,       \* the increment each transfer started with std::async
  num,        \* transfers begun by each client
  paid,       \* history: kilobytes the current download has been charged
  recorded,   \* history: statistics records of the current transfer
  ledger,     \* history: the credits every user should have in the end
  kept        \* history: files of uploads that were credited

handlerVars == <<kind, size, aborted, fileOkay, inode>>
dataVars    == <<restart, open, bytes>>
slotVars    == <<count, global>>
fileVars    == <<dir, len>>
creditVars  == <<credits, jobs, paid, ledger>>
vars == <<pc, out, handlerVars, dataVars, slotVars, fileVars, creditVars, num, recorded,
          kept>>

Steps == {"none", "update", "insert", "retry", "done", "lost"}
Job(step, kb) == [step |-> step, kb |-> kb]
Inodes == 0 .. MaxInodes
Pcs == {"idle", "started", "opened", "charged", "created", "xfer", "closing", "check",
        "guardData", "guardFile", "guardCount", "ended"}

Init ==
  /\ pc = [c \in Clients |-> "idle"]
  /\ kind = [c \in Clients |-> "RETR"]
  /\ out = [c \in Clients |-> "idle"]
  /\ restart = [c \in Clients |-> 0]
  /\ open = [c \in Clients |-> FALSE]
  /\ bytes = [c \in Clients |-> 0]
  /\ size = [c \in Clients |-> 0]
  /\ aborted = [c \in Clients |-> FALSE]
  /\ fileOkay = [c \in Clients |-> FALSE]
  /\ inode = [c \in Clients |-> 0]
  /\ count = [k \in AllKinds |-> [u \in Users |-> 0]]
  /\ global = [k \in AllKinds |-> 0]
  /\ dir = IF FileLen = -1 THEN 0 ELSE 1
  /\ len = [i \in Inodes |-> IF i = 1 /\ FileLen # -1 THEN FileLen ELSE 0]
  /\ credits = Credits
  /\ jobs = [c \in Clients |-> [n \in 1 .. MaxTransfers |-> Job("none", 0)]]
  /\ num = [c \in Clients |-> 0]
  /\ paid = [c \in Clients |-> 0]
  /\ recorded = [c \in Clients |-> 0]
  /\ ledger = [u \in Users |-> IF Credits[u] = NoEntry THEN 0 ELSE Credits[u]]
  /\ kept = {}

-----------------------------------------------------------------------------
(* Helpers *)

Goto(c, l) == pc' = [pc EXCEPT ![c] = l]

\* The handler leaves its body for the guard at l.  What follows it is the
\* next command, or the end of the session when the last reply cannot be sent.
Leave(c, l) == Goto(c, l) /\ \E o \in {"idle", "ended"} : out' = [out EXCEPT ![c] = o]

\* An exception that no handler catches unwinds to Run.
Throw(c, l) == Goto(c, l) /\ out' = [out EXCEPT ![c] = "ended"]

\* Data::Close.
Close(c) ==
  /\ restart' = [restart EXCEPT ![c] = 0]
  /\ open' = [open EXCEPT ![c] = FALSE]

\* User::IncrCredits: the increment runs in a thread of its own.
IncrCredits(c, kb) ==
  /\ jobs' = [jobs EXCEPT ![c][num[c]] = Job("update", kb)]
  /\ ledger' = [ledger EXCEPT ![UserOf[c]] = @ + kb]

\* User::DecrCredits: one findandmodify.  Without force it needs an entry with
\* enough credits.
CanDecr(u, kb, force) ==
  kb = 0 \/ (credits[u] # NoEntry /\ (force \/ credits[u] >= kb))
DecrCredits(c, kb) ==
  /\ credits' = [credits EXCEPT ![UserOf[c]] = IF kb = 0 THEN @ ELSE @ - kb]
  /\ paid' = [paid EXCEPT ![c] = @ + kb]
  /\ ledger' = [ledger EXCEPT ![UserOf[c]] = @ - kb]

-----------------------------------------------------------------------------
(* Commands between transfers *)

\* The client is between two commands and the bounds allow a further transfer.
MayStart(c) ==
  /\ pc[c] = "idle" /\ num[c] < MaxTransfers
  /\ FoldFunction(+, 0, num) < MaxTotal

\* RESTCommand
Rest(c) ==
  /\ MayStart(c)
  /\ \E o \in Offsets : restart' = [restart EXCEPT ![c] = o]
  /\ UNCHANGED <<pc, out, handlerVars, open, bytes, slotVars, fileVars, creditVars, num,
                 recorded, kept>>

\* TransferCounter::Start
SlotFree(k, u) ==
  /\ MaxSim[u] = -1 \/ count[k][u] < MaxSim[u]
  /\ MaxGlobal = -1 \/ u \in Exempt \/ global[k] < MaxGlobal

\* The slot is taken and its scope guard set up, or the command is refused: for
\* want of a slot, for resuming in ASCII, by the name filter or the pre-script.
\* A refusal only replies.
Start(c, k) ==
  /\ MayStart(c) /\ k \in Kinds
  /\ num' = [num EXCEPT ![c] = @ + 1]
  /\ kind' = [kind EXCEPT ![c] = k]
  /\ recorded' = [recorded EXCEPT ![c] = 0]
  /\ paid' = [paid EXCEPT ![c] = 0]
  /\ \/ /\ SlotFree(k, UserOf[c])
        /\ count' = [count EXCEPT ![k][UserOf[c]] = @ + 1]
        /\ global' = [global EXCEPT ![k] = @ + 1]
        /\ Goto(c, "started")
     \/ \E o \in {"idle", "ended"} : Goto(c, o) /\ UNCHANGED slotVars
  /\ UNCHANGED <<out, size, aborted, fileOkay, inode, dataVars, fileVars, credits, jobs,
                 ledger, kept>>

RetrStart(c) == Start(c, "RETR")
StorStart(c) == Start(c, "STOR")

-----------------------------------------------------------------------------
(* RETR *)

\* fs::OpenFile, the size and the restart offset; the file may be missing or
\* its download forbidden.  When it cannot be sought the handler replies, and goes
\* on with a size that was never set (here without a restart offset, so that it
\* reads from where it would have).
RetrOpenFile(c) ==
  /\ pc[c] = "started" /\ kind[c] = "RETR"
  /\ \/ /\ Leave(c, "guardCount")
        /\ UNCHANGED <<size, inode>>
     \/ /\ dir # 0 /\ restart[c] <= len[dir]
        /\ inode' = [inode EXCEPT ![c] = dir]
        /\ size' = [size EXCEPT ![c] = len[dir]]
        /\ Goto(c, "opened")
        /\ UNCHANGED out
     \/ /\ dir # 0 /\ restart[c] = 0
        /\ inode' = [inode EXCEPT ![c] = dir]
        /\ \E s \in Garbage : size' = [size EXCEPT ![c] = s]
        /\ Goto(c, "opened")
        /\ UNCHANGED out
  /\ UNCHANGED <<kind, aborted, fileOkay, dataVars, slotVars, fileVars, creditVars, num,
                 recorded, kept>>

\* A faulty charge: the credits are not compared with the price.
RetrChargeBlind(c) ==
  /\ pc[c] = "opened"
  /\ \/ /\ UserOf[c] \in Allotted \/ credits[UserOf[c]] = NoEntry
        /\ Leave(c, "guardCount")
        /\ UNCHANGED <<credits, paid, ledger>>
     \/ /\ UserOf[c] \notin Allotted /\ credits[UserOf[c]] # NoEntry
        /\ DecrCredits(c, (size[c] \div KB) * Ratio)
        /\ Goto(c, "charged")
        /\ UNCHANGED out
  /\ UNCHANGED <<jobs, handlerVars, dataVars, slotVars, fileVars, num, recorded, kept>>

\* The weekly allotment, or the price of the whole file.
RetrCharge(c) ==
  /\ pc[c] = "opened"
  /\ LET kb == (size[c] \div KB) * Ratio
         free == UserOf[c] \in Allotted IN
     \/ /\ free \/ ~CanDecr(UserOf[c], kb, FALSE)
        /\ Leave(c, "guardCount")
        /\ UNCHANGED <<credits, paid, ledger>>
     \/ /\ free
        /\ Goto(c, "charged")
        /\ UNCHANGED <<out, credits, paid, ledger>>
     \/ /\ ~free /\ CanDecr(UserOf[c], kb, FALSE)
        /\ DecrCredits(c, kb)
        /\ Goto(c, "charged")
        /\ UNCHANGED out
  /\ UNCHANGED <<jobs, handlerVars, dataVars, slotVars, fileVars, num, recorded, kept>>

\* The 150 reply and Data::Open.  Until it has succeeded only the slot has a
\* guard; after it the data guard undoes a transfer without the TLS it needs.
RetrOpen(c) ==
  /\ pc[c] = "charged"
  /\ \/ /\ OpenFails
        /\ Leave(c, "guardCount")
        /\ UNCHANGED dataVars
     \/ /\ open' = [open EXCEPT ![c] = TRUE]
        /\ bytes' = [bytes EXCEPT ![c] = 0]
        /\ UNCHANGED restart
        /\ \/ Leave(c, "guardData")
           \/ Goto(c, "xfer") /\ UNCHANGED out
  /\ UNCHANGED <<handlerVars, slotVars, fileVars, creditVars, num, recorded, kept>>

\* One buffer is read from the file, counted and written.
RetrChunk(c) ==
  /\ pc[c] = "xfer" /\ kind[c] = "RETR"
  /\ restart[c] + bytes[c] < len[inode[c]]
  /\ bytes' = [bytes EXCEPT ![c] = @ + 1]
  /\ UNCHANGED <<pc, out, handlerVars, restart, open, slotVars, fileVars, creditVars, num,
                 recorded, kept>>

\* RETR after its loop: close, statistics, the last reply.
RetrClose(c) ==
  /\ pc[c] = "closing" /\ kind[c] = "RETR"
  /\ Close(c)
  /\ recorded' = [recorded EXCEPT ![c] = @ + 1]
  /\ Leave(c, "guardData")
  /\ UNCHANGED <<bytes, handlerVars, slotVars, fileVars, creditVars, num, kept>>

\* Faulty data guards: one records a finished transfer again, one gives no
\* credits back.
RetrGuardTwice(c) ==
  /\ pc[c] = "guardData" /\ kind[c] = "RETR"
  /\ Close(c)
  /\ recorded' = [recorded EXCEPT ![c] = @ + 1]
  /\ Goto(c, "guardCount")
  /\ UNCHANGED <<out, bytes, handlerVars, slotVars, fileVars, creditVars, num, kept>>

RetrGuardNoRefund(c) ==
  /\ pc[c] = "guardData" /\ kind[c] = "RETR"
  /\ Close(c)
  /\ recorded' = [recorded EXCEPT ![c] = IF open[c] THEN @ + 1 ELSE @]
  /\ Goto(c, "guardCount")
  /\ UNCHANGED <<out, bytes, handlerVars, slotVars, fileVars, creditVars, num, kept>>

\* The data guard: an open transfer is closed and recorded, the credits for
\* what was not sent go back, and what was sent beyond the size is charged.
RetrGuard(c) ==
  /\ pc[c] = "guardData" /\ kind[c] = "RETR"
  /\ Close(c)
  /\ recorded' = [recorded EXCEPT ![c] = IF open[c] THEN @ + 1 ELSE @]
  /\ LET rest == size[c] - bytes[c]
         back == (rest \div KB) * Ratio
         more == (0 - rest) * Ratio IN
     \/ /\ UserOf[c] \in Allotted \/ rest = 0
        /\ UNCHANGED creditVars
     \/ /\ UserOf[c] \notin Allotted /\ rest > 0
        /\ IncrCredits(c, back)
        /\ paid' = [paid EXCEPT ![c] = @ - back]
        /\ UNCHANGED credits
     \/ /\ UserOf[c] \notin Allotted /\ rest < 0
        /\ IF CanDecr(UserOf[c], more, TRUE) THEN DecrCredits(c, more)
                                             ELSE UNCHANGED <<credits, paid, ledger>>
        /\ UNCHANGED jobs
  /\ Goto(c, "guardCount")
  /\ UNCHANGED <<out, bytes, handlerVars, slotVars, fileVars, num, kept>>

-----------------------------------------------------------------------------
(* The transfer loop of both commands *)

\* The loop ends: at the end of the file or stream, by ABOR or a transfer that
\* is too slow, by an error of the disk or of the data connection.
XferEnd(c) ==
  /\ pc[c] = "xfer"
  /\ \/ /\ kind[c] = "RETR" => restart[c] + bytes[c] >= len[inode[c]]
        /\ aborted' = [aborted EXCEPT ![c] = FALSE]
        /\ Goto(c, "closing") /\ UNCHANGED out
     \/ /\ aborted' = [aborted EXCEPT ![c] = TRUE]
        /\ Goto(c, "closing") /\ UNCHANGED out
     \/ /\ Leave(c, "guardData")
        /\ UNCHANGED aborted
  /\ UNCHANGED <<kind, size, fileOkay, inode, dataVars, slotVars, fileVars, creditVars, num,
                 recorded, kept>>

\* Data::HandleControl: input on the control connection during the transfer.
\* Whatever it is, except ABOR, a ControlError ends the handler and the
\* session; STAT is answered first.
HandleControl(c) ==
  /\ pc[c] = "xfer"
  /\ Throw(c, "guardData")
  /\ UNCHANGED <<handlerVars, dataVars, slotVars, fileVars, creditVars, num, recorded, kept>>

-----------------------------------------------------------------------------
(* STOR *)

\* fs::CreateFile or fs::AppendFile; permissions, missing space or an existing
\* file that may not be overwritten refuse the upload.
StorCreate(c) ==
  /\ pc[c] = "started" /\ kind[c] = "STOR"
  /\ \/ /\ Leave(c, "guardCount")
        /\ UNCHANGED <<fileVars, inode, fileOkay>>
     \/ \E i \in Inodes \ {0} :
          /\ IF dir = 0
             THEN /\ restart[c] = 0                    \* O_CREAT | O_EXCL
                  /\ \A d \in Clients : inode[d] # i \/ pc[d] \in {"idle", "ended"}
                  /\ i \notin kept
             ELSE /\ i = dir
                  /\ restart[c] > 0 \/ Overwrite       \* O_APPEND or O_TRUNC
          /\ dir' = i
          /\ len' = [len EXCEPT ![i] = IF restart[c] > @ THEN @ ELSE restart[c]]
          /\ inode' = [inode EXCEPT ![c] = i]
          /\ fileOkay' = [fileOkay EXCEPT ![c] = restart[c] > 0]
          /\ Goto(c, "created")
          /\ UNCHANGED out
  /\ UNCHANGED <<kind, size, aborted, dataVars, slotVars, creditVars, num, recorded, kept>>

\* The 150 reply and Data::Open.  A failed Open deletes a new file, and the
\* file guard will delete what the path leads to once more.  A transfer
\* without the TLS it needs returns; one that starts is not okay any more.
StorOpen(c) ==
  /\ pc[c] = "created"
  /\ \/ /\ OpenFails
        /\ \/ Throw(c, "guardFile") /\ UNCHANGED dir
           \/ Leave(c, "guardFile") /\ dir' = IF restart[c] = 0 THEN 0 ELSE dir
        /\ UNCHANGED <<dataVars, fileOkay>>
     \/ /\ open' = [open EXCEPT ![c] = TRUE]
        /\ bytes' = [bytes EXCEPT ![c] = 0]
        /\ UNCHANGED <<restart, dir>>
        /\ \/ Leave(c, "guardData") /\ UNCHANGED fileOkay
           \/ Goto(c, "xfer") /\ UNCHANGED out
              /\ fileOkay' = [fileOkay EXCEPT ![c] = FALSE]
  /\ UNCHANGED <<kind, size, aborted, inode, slotVars, len, creditVars, num, recorded, kept>>

\* One buffer is read, counted and written to the file.
StorChunk(c) ==
  /\ pc[c] = "xfer" /\ kind[c] = "STOR"
  /\ bytes[c] < MaxLen /\ len[inode[c]] < MaxLen
  /\ bytes' = [bytes EXCEPT ![c] = @ + 1]
  /\ len' = [len EXCEPT ![inode[c]] = IF restart[c] > 0 \/ bytes[c] = @ THEN @ + 1 ELSE @]
  /\ UNCHANGED <<pc, out, handlerVars, restart, open, slotVars, dir, creditVars, num,
                 recorded, kept>>

\* STOR after its loop: close and chmod; an aborted upload is answered.
StorClose(c) ==
  /\ pc[c] = "closing" /\ kind[c] = "STOR"
  /\ Close(c)
  /\ \/ aborted[c] /\ Leave(c, "guardData")
     \/ ~aborted[c] /\ Goto(c, "check") /\ UNCHANGED out
     \/ dir = 0 /\ Throw(c, "guardData")               \* the reply about chmod
  /\ UNCHANGED <<bytes, handlerVars, slotVars, fileVars, creditVars, num, recorded, kept>>

\* A faulty StorCheck: the upload is credited before its file is okay.
StorCheckEarly(c) ==
  /\ pc[c] = "check"
  /\ recorded' = [recorded EXCEPT ![c] = @ + 1]
  /\ IncrCredits(c, (bytes[c] \div KB) * Ratio)
  /\ kept' = kept \cup {inode[c]}
  /\ \E ok \in BOOLEAN : fileOkay' = [fileOkay EXCEPT ![c] = ok]
  /\ Leave(c, "guardData")
  /\ UNCHANGED <<credits, paid, kind, size, aborted, inode, dataVars, slotVars, fileVars,
                 num>>

\* The post check script, statistics and credits, and the last reply.
StorCheck(c) ==
  /\ pc[c] = "check"
  /\ \/ /\ fileOkay' = [fileOkay EXCEPT ![c] = TRUE]
        /\ recorded' = [recorded EXCEPT ![c] = @ + 1]
        /\ IncrCredits(c, (bytes[c] \div KB) * Ratio)
        /\ kept' = kept \cup {inode[c]}
     \/ UNCHANGED <<fileOkay, recorded, jobs, ledger, kept>>
  /\ Leave(c, "guardData")
  /\ UNCHANGED <<credits, paid, kind, size, aborted, inode, dataVars, slotVars, fileVars,
                 num>>

\* The data guard.
StorGuard(c) ==
  /\ pc[c] = "guardData" /\ kind[c] = "STOR"
  /\ Close(c)
  /\ recorded' = [recorded EXCEPT ![c] = IF open[c] /\ bytes[c] > 0 THEN @ + 1 ELSE @]
  /\ Goto(c, "guardFile")
  /\ UNCHANGED <<out, bytes, handlerVars, slotVars, fileVars, creditVars, num, kept>>

\* A faulty file guard: a failed upload stays.
FileGuardKeeps(c) ==
  /\ pc[c] = "guardFile"
  /\ Goto(c, "guardCount")
  /\ UNCHANGED <<dir, out, handlerVars, dataVars, slotVars, len, creditVars, num, recorded,
                 kept>>

\* The file guard: an upload that is not okay is deleted by its path.
FileGuard(c) ==
  /\ pc[c] = "guardFile"
  /\ dir' = IF fileOkay[c] THEN dir ELSE 0
  /\ Goto(c, "guardCount")
  /\ UNCHANGED <<out, handlerVars, dataVars, slotVars, len, creditVars, num, recorded, kept>>

-----------------------------------------------------------------------------
(* The end of both commands, and the asynchronous increments *)

\* A faulty slot guard: a session that ends keeps its slot.
CountGuardIdle(c) ==
  /\ pc[c] = "guardCount"
  /\ IF out[c] = "idle"
     THEN /\ count' = [count EXCEPT ![kind[c]][UserOf[c]] = @ - 1]
          /\ global' = [global EXCEPT ![kind[c]] = @ - 1]
     ELSE UNCHANGED slotVars
  /\ Goto(c, out[c])
  /\ UNCHANGED <<out, handlerVars, dataVars, fileVars, creditVars, num, recorded, kept>>

\* The slot guard: TransferCounter::Stop.
CountGuard(c) ==
  /\ pc[c] = "guardCount"
  /\ count' = [count EXCEPT ![kind[c]][UserOf[c]] = @ - 1]
  /\ global' = [global EXCEPT ![kind[c]] = @ - 1]
  /\ Goto(c, out[c])
  /\ UNCHANGED <<out, handlerVars, dataVars, fileVars, creditVars, num, recorded, kept>>

\* A faulty increment: the insertion does not look for the entry of another.
DoIncrementBlind(c, n) ==
  LET j == jobs[c][n]
      u == UserOf[c]
      Go(s) == jobs' = [jobs EXCEPT ![c][n].step = s] IN
  /\ j.step \in {"update", "insert"}
  /\ IF j.step = "update" /\ credits[u] = NoEntry
     THEN Go("insert") /\ UNCHANGED credits
     ELSE /\ credits' = [credits EXCEPT ![u] = IF j.step = "update" THEN @ + j.kb ELSE j.kb]
          /\ Go("done")
  /\ UNCHANGED <<pc, out, handlerVars, dataVars, slotVars, fileVars, num, paid, recorded,
                 ledger, kept>>

\* One database command of doIncrement: updateExisting, doInsert, and
\* updateExisting again for an entry inserted meanwhile.
DoIncrement(c, n) ==
  LET j == jobs[c][n]
      u == UserOf[c]
      Go(s) == jobs' = [jobs EXCEPT ![c][n].step = s] IN
  /\ \/ /\ j.step \in {"update", "retry"} /\ credits[u] # NoEntry
        /\ credits' = [credits EXCEPT ![u] = @ + j.kb]
        /\ Go("done")
     \/ /\ j.step \in {"update", "retry"} /\ credits[u] = NoEntry
        /\ Go(IF j.step = "update" THEN "insert" ELSE "lost") /\ UNCHANGED credits
     \/ /\ j.step = "insert" /\ credits[u] = NoEntry
        /\ credits' = [credits EXCEPT ![u] = j.kb]
        /\ Go("done")
     \/ /\ j.step = "insert" /\ credits[u] # NoEntry
        /\ Go("retry") /\ UNCHANGED credits
  /\ UNCHANGED <<pc, out, handlerVars, dataVars, slotVars, fileVars, num, paid, recorded,
                 ledger, kept>>

Retr(c) == RetrOpenFile(c) \/ RetrCharge(c) \/ RetrOpen(c) \/ RetrChunk(c) \/ RetrClose(c)
           \/ RetrGuard(c)
Stor(c) == StorCreate(c) \/ StorOpen(c) \/ StorChunk(c) \/ StorClose(c) \/ StorCheck(c)
           \/ StorGuard(c) \/ FileGuard(c)

Next ==
  \E c \in Clients :
    \/ Rest(c)
    \/ RetrStart(c) \/ StorStart(c)
    \/ Retr(c) \/ Stor(c) \/ XferEnd(c) \/ HandleControl(c) \/ CountGuard(c)
    \/ \E n \in 1 .. MaxTransfers : DoIncrement(c, n)

Spec == Init /\ [][Next]_vars

-----------------------------------------------------------------------------
(* Properties *)

\* The values of the variables; in particular no slot counter is negative,
\* which TransferCounter::Stop asserts.
TypeOK ==
  /\ pc \in [Clients -> Pcs]
  /\ kind \in [Clients -> AllKinds]
  /\ out \in [Clients -> {"idle", "ended"}]
  /\ restart \in [Clients -> Nat] /\ bytes \in [Clients -> Nat]
  /\ size \in [Clients -> Nat]
  /\ open \in [Clients -> BOOLEAN] /\ aborted \in [Clients -> BOOLEAN]
  /\ fileOkay \in [Clients -> BOOLEAN]
  /\ inode \in [Clients -> Inodes] /\ dir \in Inodes /\ len \in [Inodes -> Nat]
  /\ count \in [AllKinds -> [Users -> Nat]] /\ global \in [AllKinds -> Nat]
  /\ credits \in [Users -> Int \cup {NoEntry}]
  /\ jobs \in [Clients -> [1 .. MaxTransfers -> [step : Steps, kb : Nat]]]
  /\ num \in [Clients -> 0 .. MaxTransfers]
  /\ paid \in [Clients -> Int] /\ recorded \in [Clients -> Nat]
  /\ ledger \in [Users -> Int] /\ kept \subseteq Inodes

Busy(c) == pc[c] \notin {"idle", "ended"}

\* The slots in use are those of the handlers that hold one, however a handler
\* ends: refusal, abort, error, lost control connection.
SlotsExact ==
  \A k \in AllKinds :
    /\ global[k] = Cardinality({c \in Clients : Busy(c) /\ kind[c] = k})
    /\ \A u \in Users :
         count[k][u] = Cardinality({c \in Clients : Busy(c) /\ kind[c] = k /\ UserOf[c] = u})

\* The simultaneous transfers of a user stay within its limit, and all of them
\* within the global limit, which exempt users alone may exceed.
SlotsLimited ==
  \A k \in AllKinds :
    /\ \A u \in Users : MaxSim[u] # -1 => count[k][u] <= MaxSim[u]
    /\ MaxGlobal # -1 =>
         Cardinality({c \in Clients : Busy(c) /\ kind[c] = k /\ UserOf[c] \notin Exempt})
           <= MaxGlobal

\* A transfer is recorded in the statistics at most once, by the handler or by
\* its guard, and a transfer that gave credits, as a reward or back, was
\* recorded.
RecordedOnce ==
  \A c \in Clients :
    /\ recorded[c] <= 1
    /\ num[c] > 0 /\ jobs[c][num[c]].step # "none" => recorded[c] = 1

\* A download costs the kilobytes that were sent, up to rounding, whenever and
\* however it ended.
PaidForBytes ==
  \A c \in Clients :
    LET sent == IF recorded[c] = 0 THEN 0 ELSE bytes[c] IN
    pc[c] \in {"guardCount", "idle", "ended"} /\ kind[c] = "RETR" /\ UserOf[c] \notin Allotted =>
      paid[c] \in (sent \div KB) * Ratio .. ((sent + KB - 1) \div KB) * Ratio

\* Increments still on their way to the database.
Pending(u) ==
  {j \in Clients \X (1 .. MaxTransfers) :
     UserOf[j[1]] = u /\ jobs[j[1]][j[2]].step \in {"update", "insert", "retry"}}

\* No increment and no decrement of credits is lost or applied twice, whatever
\* the order of the asynchronous increments and of the first entry's creation.
LedgerBalanced ==
  \A u \in Users :
    LET kb == [j \in Clients \X (1 .. MaxTransfers) |-> jobs[j[1]][j[2]].kb] IN
    (IF credits[u] = NoEntry THEN 0 ELSE credits[u]) + SumFunctionOnSet(kb, Pending(u))
      = ledger[u]

\* Downloads that run at the same time never spend more credits than there are.
NotOverdrawn == \A u \in Users : credits[u] # NoEntry => credits[u] >= 0

\* An upload that was credited stays on disk.
UploadKept == \A i \in kept : dir = i

\* When no transfer is running, the path leads to nothing or to a file that was
\* there before or was credited: no failed upload stays behind.
NoPartialFile ==
  (\A c \in Clients : ~Busy(c)) => dir \in {0} \cup kept \/ (dir = 1 /\ FileLen # -1)

\* Slots are counted exactly and within the limits of users and of the site.
SlotsSound == TypeOK /\ SlotsExact /\ SlotsLimited
=============================================================================
