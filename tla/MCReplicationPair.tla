------------------------- MODULE MCReplicationPair -------------------------
(* Two instances of Replication in one run: two operators while statements *)
(* fail and the log overflows, and one operator with names to spare. The   *)
(* variable plan says which instance a behaviour is of.                    *)
EXTENDS Replication

CONSTANT Third    \* one more name for the single operator

VARIABLE plan

pairVars == <<plan, vars>>

\* Two operators: no limit of accounts.
NoTotal == -1

\* One operator, no failure, and a limit of two accounts.
Single == CHOOSE t \in Threads : TRUE
One == INSTANCE Replication WITH
  Threads <- {Single}, Names <- Names \cup {Third},
  TotalUsers <- 2, LogMax <- 3, MaxUid <- 2, MaxWrites <- 3, MaxFailures <- 0

PairInit ==
  \/ plan = "two" /\ Init
  \/ plan = "one" /\ One!Init

PairNext ==
  \/ plan = "two" /\ Next /\ UNCHANGED plan
  \/ plan = "one" /\ One!Next /\ UNCHANGED plan

\* Threads run. Nothing obliges an operator to send a command, and nothing
\* obliges a statement to fail: failures end with their budget.
PairSpec ==
  /\ PairInit /\ [][PairNext]_pairVars
  /\ WF_pairVars(plan = "two" /\ Run /\ UNCHANGED plan)
  /\ WF_pairVars(plan = "one" /\ One!Run /\ UNCHANGED plan)
  /\ \A t \in Threads : WF_pairVars(plan = "two" /\ CommandStep(t) /\ UNCHANGED plan)
  /\ WF_pairVars(plan = "one" /\ One!CommandStep(Single) /\ UNCHANGED plan)

\* With two operators, failures and a log that overflows, the cache of a uid is
\* stale only if a change of it was missed in one of the ways the code allows.
StaleIfMissed == plan = "two" => TypeOK /\ StaleOnlyIfMissed

\* The cache of every uid that was not missed is current.
NoneStale ==
  \/ plan = "two" /\ \A u \in Uids : u \notin missed => Current(u)
  \/ plan = "one" /\ \A u \in One!Uids : u \notin missed => One!Current(u)

\* The replicator catches up: once the commands are over, the cache of every
\* uid that was not missed becomes current and stays so.
CatchesUp == <>[]NoneStale

\* With one operator every account is found by its name once all changes are
\* replicated, a confirmed mask stays until a command removes it and total_users
\* bounds the accounts.
OneOperatorExact ==
  plan = "one" => One!NameFound /\ One!ConfirmedMaskStays /\ One!TotalUsersKept
=============================================================================
