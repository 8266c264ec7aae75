------------------------------ MODULE AsyncCRC ------------------------------
(***************************************************************************)
(* The checksum of an upload, computed by a second thread                    *)
(* (util/asynccrc32.hpp): a ring of buffers between the thread of the upload *)
(* (Update, HexString, destructor) and the thread that runs Main.  Data is    *)
(* modelled as numbered blocks, the checksum as the blocks it covers, in      *)
(* order.  A wait on a condition variable gives up the mutex and goes on only *)
(* when it is notified, or spuriously.                                       *)
(***************************************************************************)
EXTENDS Integers, Sequences

CONSTANTS QueueSize,   \* buffers of the ring
          MaxBlocks    \* bound: blocks of the upload

\* A ring has a buffer at least.
RingAssumption == QueueSize \in Nat \ {0} /\ MaxBlocks \in Nat

VARIABLES full,       \* per buffer: ~empty
          data,       \* per buffer: the block in it
          queued,     \* the member pending
          finished,
          readIt, writeIt,
          writer,     \* program counter of the upload's thread
          worker,     \* program counter of Main
          sent,       \* blocks given to Update
          crc,        \* the blocks the checksum covers
          result      \* what HexString returned

crcVars == <<full, data, queued, finished, readIt, writeIt, writer, worker, sent, crc, result>>

Buffers == 0..(QueueSize - 1)
\* The iterators wrap at the end of the ring.
After(it) == (it + 1) % QueueSize
NoResult == <<-1>>

\* The iterators stay inside the ring, however far one thread runs ahead of the other.
TypeOK ==
  /\ full \in [Buffers -> BOOLEAN] /\ data \in [Buffers -> 0..MaxBlocks] /\ queued \in Int
  /\ finished \in BOOLEAN /\ readIt \in Buffers /\ writeIt \in Buffers /\ sent \in 0..MaxBlocks
  /\ writer \in {"idle", "fill", "publish", "notify", "sum", "sleepFill", "sleepSum", "finish", "join", "done"}
  /\ worker \in {"look", "sleep", "update", "release", "notify", "exit"}

Init ==
  /\ full = [b \in Buffers |-> FALSE] /\ data = [b \in Buffers |-> 0]
  /\ queued = 0 /\ finished = FALSE /\ readIt = 0 /\ writeIt = 0
  /\ writer = "idle" /\ worker = "look" /\ sent = 0 /\ crc = <<>> /\ result = NoResult

-----------------------------------------------------------------------------
(* The thread of the upload.                                                *)

\* Update is called, or the upload is over and its checksum is asked for.
Call ==
  /\ writer = "idle"
  /\ \/ sent < MaxBlocks /\ result = NoResult /\ writer' = "fill"
     \/ result = NoResult /\ writer' = "sum"
     \/ writer' = "finish"
  /\ UNCHANGED <<full, data, queued, finished, readIt, writeIt, worker, sent, crc, result>>

\* Update: waits until the buffer is empty, then copies the block into it, unlocked.
Fill ==
  /\ writer = "fill"
  /\ IF full[writeIt] THEN writer' = "sleepFill" /\ UNCHANGED <<data, sent>>
     ELSE /\ data' = [data EXCEPT ![writeIt] = sent + 1] /\ sent' = sent + 1 /\ writer' = "publish"
  /\ UNCHANGED <<full, queued, finished, readIt, writeIt, worker, crc, result>>
Publish ==
  /\ writer = "publish" /\ writer' = "notify"
  /\ full' = [full EXCEPT ![writeIt] = TRUE] /\ queued' = queued + 1
  /\ UNCHANGED <<data, finished, readIt, writeIt, worker, sent, crc, result>>
\* readCond.notify_one, after the mutex was released; then the next buffer.
NotifyReader ==
  /\ writer = "notify" /\ writer' = "idle" /\ writeIt' = After(writeIt)
  /\ worker' = IF worker = "sleep" THEN "look" ELSE worker
  /\ UNCHANGED <<full, data, queued, finished, readIt, sent, crc, result>>

\* HexString: WaitPending, then the checksum.
Sum ==
  /\ writer = "sum"
  /\ IF queued > 0 THEN writer' = "sleepSum" /\ UNCHANGED result
     ELSE result' = crc /\ writer' = "idle"
  /\ UNCHANGED <<full, data, queued, finished, readIt, writeIt, worker, sent, crc>>

\* The destructor; notify_one and join.
Finish ==
  /\ writer = "finish" /\ finished' = TRUE /\ writer' = "join"
  /\ worker' = IF worker = "sleep" THEN "look" ELSE worker
  /\ UNCHANGED <<full, data, queued, readIt, writeIt, sent, crc, result>>
Join ==
  /\ writer = "join" /\ worker = "exit" /\ writer' = "done"
  /\ UNCHANGED <<full, data, queued, finished, readIt, writeIt, worker, sent, crc, result>>

-----------------------------------------------------------------------------
(* Main.                                                                    *)

Look ==
  /\ worker = "look"
  /\ worker' = IF full[readIt] THEN "update" ELSE IF finished THEN "exit" ELSE "sleep"
  /\ UNCHANGED <<full, data, queued, finished, readIt, writeIt, writer, sent, crc, result>>
\* CRC32::Update, unlocked.
UpdateSum ==
  /\ worker = "update" /\ worker' = "release" /\ crc' = Append(crc, data[readIt])
  /\ UNCHANGED <<full, data, queued, finished, readIt, writeIt, writer, sent, result>>
Release ==
  /\ worker = "release" /\ worker' = "notify"
  /\ full' = [full EXCEPT ![readIt] = FALSE] /\ queued' = queued - 1
  /\ UNCHANGED <<data, finished, readIt, writeIt, writer, sent, crc, result>>
\* Mutant: the writer is woken when the whole ring is empty only.
NotifyWriterEmpty ==
  /\ worker = "notify" /\ worker' = "look" /\ readIt' = After(readIt)
  /\ writer' = IF queued > 0 THEN writer
               ELSE IF writer = "sleepSum" THEN "sum" ELSE writer
  /\ UNCHANGED <<full, data, queued, finished, writeIt, sent, crc, result>>
\* writeCond.notify_one, after the mutex was released; then the next buffer.
NotifyWriter ==
  /\ worker = "notify" /\ worker' = "look" /\ readIt' = After(readIt)
  /\ writer' = CASE writer = "sleepFill" -> "fill" [] writer = "sleepSum" -> "sum" [] OTHER -> writer
  /\ UNCHANGED <<full, data, queued, finished, writeIt, sent, crc, result>>

\* A condition variable may wake without having been notified; the conditions are tested again.
Spurious ==
  /\ \/ worker = "sleep" /\ worker' = "look" /\ UNCHANGED writer
     \/ writer = "sleepFill" /\ writer' = "fill" /\ UNCHANGED worker
     \/ writer = "sleepSum" /\ writer' = "sum" /\ UNCHANGED worker
  /\ UNCHANGED <<full, data, queued, finished, readIt, writeIt, sent, crc, result>>

Next == \/ Call \/ Fill \/ Publish \/ NotifyReader \/ Sum \/ Finish \/ Join
        \/ Look \/ UpdateSum \/ Release \/ NotifyWriter \/ Spurious

Spec == Init /\ [][Next]_crcVars

-----------------------------------------------------------------------------
\* The checksum a finished upload reports covers all its blocks, each once and in the
\* order in which they were received.
ChecksumComplete == result # NoResult => result = [k \in 1..sent |-> k]

\* A block is not overwritten before it is in the checksum, and a buffer that is read is
\* not one that is being filled.
NoOverwrite ==
  /\ \A k \in DOMAIN crc : crc[k] = k
  /\ writer = "publish" /\ worker \in {"update", "release"} => readIt # writeIt

\* No thread sleeps for ever: the writer sleeps only while the worker has something to do
\* after which it notifies, the worker only while the writer is not waiting for it.
NoSleepTogether ==
  /\ writer \in {"sleepFill", "sleepSum", "join"} => worker # "sleep"
  /\ worker = "exit" => writer \in {"join", "done"}
  /\ writer = "done" => \A b \in Buffers : ~full[b]

\* Every block goes through the ring into the checksum, once and in order, and
\* no thread waits for one that waits for it.
ChecksumSound == TypeOK /\ ChecksumComplete /\ NoOverwrite /\ NoSleepTogether
=============================================================================
