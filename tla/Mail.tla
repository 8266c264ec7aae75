-------------------------------- MODULE Mail --------------------------------
(***************************************************************************)
(* SITE MSG (cmd/site/msg.cpp) over the mail collection of the database      *)
(* (db/mail/mail.cpp, db/connection.cpp).  A mailbox belongs to a user; the  *)
(* user may have several sessions, and a session's thread reads it, marks    *)
(* messages one by one and empties the trash when it ends.  Every call uses  *)
(* a NoErrorConnection: a failed operation is logged and does nothing.       *)
(***************************************************************************)
EXTENDS Integers, FiniteSets

CONSTANTS MailUsers,     \* accounts
          MailSessions,  \* sessions that may log in
          UserOf,        \* session -> account
          Deleted,       \* accounts with the deleted flag
          MaxMessages,   \* bound: messages ever sent
          MaxDbErrors    \* bound: operations the database refuses

VARIABLES box,       \* the collection: set of [id, recipient, status], numbered as inserted
          online,    \* sessions logged in
          reading,   \* per session: the messages MSG READ still shows, as it fetched them
          target,    \* per session: the oid IndexToOID found, with the operation to do
          shown,     \* history: messages shown to their recipient
          savedOnce, \* history: messages saved and not purged by index since
          shared,    \* history: recipients that had two sessions at a time
          numSent, dbErrors

mailVars == <<box, online, reading, target, shown, savedOnce, shared, numSent, dbErrors>>

\* Every session belongs to an account.
MailAssumption == UserOf \in [MailSessions -> MailUsers]

NoTarget == [op |-> "none", id |-> 0]
Of(u) == {m \in box : m.recipient = u}
Ids(mail) == {m.id : m \in mail}
TrashOf(u) == Ids({m \in Of(u) : m.status = "trash"})
\* The message that a list of them, in the order of insertion, has at an index.
IsAt(m, index, mail) == m \in mail /\ index = Cardinality({n \in mail : n.id <= m.id})
First(mail) == CHOOSE m \in mail : \A n \in mail : m.id <= n.id

Init ==
  /\ box = {} /\ online = {} /\ numSent = 0 /\ dbErrors = 0
  /\ reading = [s \in MailSessions |-> {}]
  /\ target = [s \in MailSessions |-> NoTarget]
  /\ shown = {} /\ savedOnce = {} /\ shared = {}

\* The session waits for a command: nothing of the last one is left to do.
Idle(s) == s \in online /\ reading[s] = {} /\ target[s] = NoTarget

-----------------------------------------------------------------------------
(* The collection.  An operation either takes effect or fails, and then it   *)
(* is logged and counts as no change.                                       *)

DbFails == dbErrors < MaxDbErrors /\ dbErrors' = dbErrors + 1 /\ UNCHANGED box
DbOkay == UNCHANGED dbErrors

\* Connection::Insert.
Insert(m) == DbOkay /\ box' = box \cup {m}

\* Connection::Update: the driver is asked to change one document only, the first the query
\* selects.
Update(ids, status) ==
  LET at == {m \in box : m.id \in ids} IN
  /\ DbOkay
  /\ box' = IF at = {} THEN box ELSE (box \ {First(at)}) \cup {[First(at) EXCEPT !.status = status]}

\* Connection::Remove: every document the query selects.
Delete(ids) == DbOkay /\ box' = {m \in box : m.id \notin ids}

-----------------------------------------------------------------------------
(* Sessions.                                                                *)

Login(s) ==
  /\ s \notin online /\ online' = online \cup {s}
  /\ shared' = IF \E t \in online : UserOf[t] = UserOf[s] THEN shared \cup {UserOf[s]} ELSE shared
  /\ UNCHANGED <<box, reading, target, shown, savedOnce, numSent, dbErrors>>

\* Mutant: the mailbox is purged without the status of the messages.
PurgeTrashAll(u) == DbFails \/ Delete(Ids(Of(u)))
\* db::mail::PurgeTrash.
PurgeTrash(u) == DbFails \/ Delete(TrashOf(u))

\* ClientImpl::Run ends, whatever the session was doing: LogOffPurgeTrash.
Logout(s) ==
  /\ s \in online /\ online' = online \ {s}
  /\ reading' = [reading EXCEPT ![s] = {}] /\ target' = [target EXCEPT ![s] = NoTarget]
  /\ PurgeTrash(UserOf[s])
  /\ UNCHANGED <<shown, savedOnce, shared, numSent>>

-----------------------------------------------------------------------------
(* The commands.                                                            *)

\* MSGCommand::Send: those of the selected users that are not deleted, without the sender.
Recipients(s, to) == (to \ Deleted) \ {UserOf[s]}

\* One user of the loop of Send; the others are further steps.  The message is counted
\* whether or not it could be inserted.
Send(s, to) ==
  /\ Idle(s) /\ numSent < MaxMessages /\ numSent' = numSent + 1
  /\ \E u \in Recipients(s, to) :
       \/ Insert([id |-> numSent', recipient |-> u, status |-> "unread"])
       \/ DbFails
  /\ UNCHANGED <<online, reading, target, shown, savedOnce, shared>>

\* MSGCommand::Read: the mailbox is fetched; all unread messages, or the one at an index.
Read(s, index) ==
  LET mail == Of(UserOf[s]) IN
  /\ Idle(s)
  /\ \/ index = 0 /\ reading' = [reading EXCEPT ![s] = {m \in mail : m.status = "unread"}]
     \/ \E m \in mail : IsAt(m, index, mail) /\ reading' = [reading EXCEPT ![s] = {m}]
  /\ UNCHANGED <<box, online, target, shown, savedOnce, shared, numSent, dbErrors>>

\* MSGCommand::Read(mail), one message: shown, and moved to the trash when it was unread
\* at the time it was fetched.
ReadNext(s) ==
  LET message == First(reading[s]) IN
  /\ reading[s] # {} /\ reading' = [reading EXCEPT ![s] = @ \ {message}]
  /\ shown' = shown \cup {message.id}
  /\ \/ message.status # "unread" /\ UNCHANGED <<box, dbErrors>>
     \/ message.status = "unread" /\ (DbFails \/ Update({message.id}, "trash"))
  /\ UNCHANGED <<online, target, savedOnce, shared, numSent>>

\* MSGCommand::SaveTrash.
SaveTrash(s) ==
  LET u == UserOf[s] IN
  /\ Idle(s)
  /\ DbFails \/ Update(TrashOf(u), "saved")
  /\ savedOnce' = savedOnce \cup
       {[id |-> id, of |-> u] : id \in {i \in TrashOf(u) : \E m \in box' : m.id = i /\ m.status = "saved"}}
  /\ UNCHANGED <<online, reading, target, shown, shared, numSent>>

\* MSGCommand::PurgeTrash.
PurgeOwnTrash(s) ==
  /\ Idle(s) /\ PurgeTrash(UserOf[s])
  /\ UNCHANGED <<online, reading, target, shown, savedOnce, shared, numSent>>

\* MSGCommand::Save and Purge with an index, first half: IndexToOID.
IndexToOID(s, op, index) ==
  LET mail == Of(UserOf[s]) IN
  /\ Idle(s)
  /\ \E m \in mail : /\ IsAt(m, index, mail)
                     /\ target' = [target EXCEPT ![s] = [op |-> op, id |-> m.id]]
  /\ UNCHANGED <<box, online, reading, shown, savedOnce, shared, numSent, dbErrors>>

\* The second half: the document with this oid, if it is still there.
Finish(s) ==
  LET t == target[s]
      entry == [id |-> t.id, of |-> UserOf[s]] IN
  /\ t # NoTarget /\ target' = [target EXCEPT ![s] = NoTarget]
  /\ \/ DbFails /\ UNCHANGED savedOnce
     \/ /\ t.op = "save" /\ Update({t.id}, "saved")
        /\ savedOnce' = IF t.id \in Ids(box) THEN savedOnce \cup {entry} ELSE savedOnce
     \/ /\ t.op = "purge" /\ Delete({t.id}) /\ savedOnce' = savedOnce \ {entry}
  /\ UNCHANGED <<online, reading, shown, shared, numSent>>

Next == \E s \in MailSessions :
  \/ Login(s) \/ Logout(s) \/ ReadNext(s) \/ Finish(s) \/ SaveTrash(s) \/ PurgeOwnTrash(s)
  \/ \E to \in SUBSET MailUsers : Send(s, to)
  \/ \E index \in 0..MaxMessages : Read(s, index)
  \/ \E index \in 1..MaxMessages, op \in {"save", "purge"} : IndexToOID(s, op, index)

Spec == Init /\ [][Next]_mailVars

-----------------------------------------------------------------------------
\* What the end of a session throws away has been shown to the recipient: only a message
\* MSG READ has listed is in the trash, whatever other sessions do meanwhile.
TrashWasShown == \A m \in box : m.status = "trash" => m.id \in shown

\* A message that was saved stays, and stays saved, until it is purged by its index, as
\* long as its recipient never had two sessions at a time: with two, the one that is
\* reading moves to the trash what the other has saved since it fetched the mailbox.
SavedStays ==
  \A e \in savedOnce :
    e.of \notin shared => \E m \in box : m.id = e.id /\ m.status = "saved"

\* A message nobody has been shown leaves the mailbox only when its recipient asks for it
\* by index.
LoseNoUnread ==
  (\A m \in box : m.id \notin shown /\ m.id \notin Ids(box') =>
       \E s \in MailSessions : target[s] = [op |-> "purge", id |-> m.id] /\ target'[s] = NoTarget)
UnreadNotLost == [][LoseNoUnread]_mailVars

\* Only what was shown is trash, and what was saved stays.
MailKept == TrashWasShown /\ SavedStays
=============================================================================
