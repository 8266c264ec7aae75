--------------------------------- MODULE Acl ---------------------------------
(***************************************************************************)
(* Access control lists: acl/acl.cpp, acl/permission.cpp and the rule lists *)
(* of acl/misc.cpp.  An ACL keeps the first result it computes              *)
(* (finalResult), and the ACLs of the configuration live as long as the     *)
(* copy of the configuration the session's thread holds: who asked first    *)
(* decides for everyone the thread asks about later.                        *)
(***************************************************************************)
EXTENDS Integers, Sequences, FiniteSets

CONSTANTS Sessions,
          Users, Groups, FlagSets,  \* accounts; the values SITE CHANGE and CHGRP may give
          Rules,      \* per list of the configuration, its rules: see Rule
          Paths,      \* the paths commands name
          FirstInfo,  \* the accounts at start
          MaxChanges  \* bound: changes of accounts

VARIABLES info,       \* per user: what User::ACLInfo returns
          user,       \* per session: the user of USER, or none
          finalResult,\* per session, list and rule: "unset", "yes" or "no"
          asked,      \* history: the info finalResult was computed from
          decision,   \* the last decision: what was returned and what the rules give
          changes

aclVars == <<info, user, finalResult, asked, decision, changes>>

\* Every account has a name, every acl is a list, and tls_control has its rules, if none.
AclAssumption ==
  /\ FirstInfo = [u \in Users |-> FirstInfo[u]] /\ "tls_control" \in DOMAIN Rules
  /\ \A u \in Users : LET i == FirstInfo[u] IN
       i = [name |-> i.name, group |-> i.group, flags |-> i.flags] /\ i.name # "none"
  /\ \A l \in DOMAIN Rules : \A k \in DOMAIN Rules[l] : LET p == Rules[l][k].acl IN
       Len(p) \in Nat /\ DOMAIN p = 1..Len(p)

None == "none"
NoInfo == [name |-> None, group |-> None, flags |-> {}]
NoDecision == [returned |-> {}, due |-> {}, second |-> FALSE]

-----------------------------------------------------------------------------
(* Permissions: whether one says anything about the user; it then says yes,  *)
(* or no when it is negated.                                                *)

FlagPermission(p, i) == "*" \in p.flags \/ p.flags \cap i.flags # {}
UserPermission(p, i) == p.name = i.name
GroupPermission(p, i) == p.name = i.group
Applies(p, i) == CASE p.kind = "flag"  -> FlagPermission(p, i)
                   [] p.kind = "user"  -> UserPermission(p, i)
                   [] p.kind = "group" -> GroupPermission(p, i)

\* Mutant: the last permission that applies decides.
ComputeLast(perms, i) ==
  \E k \in DOMAIN perms : /\ Applies(perms[k], i) /\ ~perms[k].negate
                          /\ \A j \in DOMAIN perms : j > k => ~Applies(perms[j], i)

\* The loop of ACL::Evaluate: the first permission with a result ends it, none refuses.
Compute(perms, i) ==
  LET loop[k \in 1..(Len(perms) + 1)] ==
        IF k > Len(perms) THEN FALSE
        ELSE IF Applies(perms[k], i) THEN ~perms[k].negate ELSE loop[k + 1]
  IN  loop[1]

\* ACL::Evaluate of rule k of a list, on the configuration of session s.
Evaluate(s, l, k, i) ==
  IF finalResult[s][l][k] # "unset" THEN finalResult[s][l][k] = "yes" ELSE Compute(Rules[l][k].acl, i)

-----------------------------------------------------------------------------
(* The rule lists.  A list is one loop; Before and After are the conditions  *)
(* the loop tests before and after the ACL, in the order of its &&.  A rule  *)
(* that fails Before leaves its ACL unasked.                                *)

\* UploadMaximum and DownloadMaximum collect every rule; they skip exempt users.
SpeedMaximumBefore(r, q) == r.limit[q.dir] > 0
\* UploadMinimum and DownloadMinimum: the path is matched after the ACL.
SpeedAfter(r, q) == q.path \in r.paths
\* CreditCheck and CreditLoss: the path is matched before it.
CreditBefore(r, q) == q.path \in r.paths

Before(l, r, q) == CASE l = "maximum_speed" -> SpeedMaximumBefore(r, q)
                     [] l = "creditcheck" -> CreditBefore(r, q)
                     [] OTHER -> TRUE
After(l, r, q) == l \in {"maximum_speed", "minimum_speed"} => SpeedAfter(r, q)
Skipped(l, i) == l = "maximum_speed" /\ "exempt" \in i.flags

\* The loops over a list: says[k] is what the ACL of rule k answers.  The rules a loop
\* reaches: all of them, or those up to the first that accepts.
Accepting(l, q, says) ==
  {k \in DOMAIN Rules[l] : Before(l, Rules[l][k], q) /\ says[k] /\ After(l, Rules[l][k], q)}
Reached(l, q, says) ==
  {k \in DOMAIN Rules[l] : l = "maximum_speed" \/ \A j \in Accepting(l, q, says) : k <= j}
\* The values it returns: messages, numbers of statistics, limits, fxp rights, credit
\* rules and strengths are values of their rules.
Chosen(l, q, i, says) ==
  {Rules[l][k].value : k \in IF Skipped(l, i) THEN {}
                             ELSE Accepting(l, q, says) \cap Reached(l, q, says)}

\* Lists that are evaluated for the account a SITE command changes: SecureIP, SecurePass.
SecureLists == {"secure_ip"}

AllOf(v) == [l \in DOMAIN Rules |-> [k \in DOMAIN Rules[l] |-> v]]

Init ==
  /\ info = FirstInfo
  /\ user = [s \in Sessions |-> None]
  /\ finalResult = [s \in Sessions |-> AllOf("unset")]
  /\ asked = [s \in Sessions |-> AllOf(NoInfo)]
  /\ decision = NoDecision
  /\ changes = 0

\* The meaning of an acl, from its documentation: the first entry that matches the user
\* decides, "!" refuses, and nobody is admitted whom no entry matches.
Meaning(perms, i) ==
  \E k \in DOMAIN perms : /\ Applies(perms[k], i) /\ ~perms[k].negate
                          /\ \A j \in 1..(k - 1) : ~Applies(perms[j], i)

\* A decision: finalResult is set in every ACL the loop evaluates.
Decide(s, l, q, i) ==
  LET says == [k \in DOMAIN Rules[l] |-> Evaluate(s, l, k, i)]
      due  == [k \in DOMAIN Rules[l] |-> Meaning(Rules[l][k].acl, i)]
      now  == IF Skipped(l, i) THEN {}
              ELSE {k \in Reached(l, q, says) : Before(l, Rules[l][k], q)}
      new  == {k \in now : finalResult[s][l][k] = "unset"} IN
  /\ finalResult' = [finalResult EXCEPT ![s][l] =
       [k \in DOMAIN Rules[l] |-> IF k \in new THEN (IF says[k] THEN "yes" ELSE "no") ELSE @[k]]]
  /\ asked' = [asked EXCEPT ![s][l] = [k \in DOMAIN Rules[l] |-> IF k \in new THEN i ELSE @[k]]]
  /\ decision' = [returned |-> Chosen(l, q, i, says), due |-> Chosen(l, q, i, due),
                  second |-> \E k \in DOMAIN Rules[l] : asked[s][l][k] \notin {NoInfo, i}]
  /\ UNCHANGED <<info, changes>>

Queries == [path : Paths, dir : {"up", "down"}]
AnyQuery == CHOOSE q \in Queries : TRUE

\* USERCommand: tls_control is evaluated for the account that is named; after a refusal
\* another one may be named.
USERCommand(s, u) ==
  /\ user[s] = None
  /\ Decide(s, "tls_control", AnyQuery, info[u])
  /\ user' = [user EXCEPT ![s] = IF decision'.returned = {} THEN u ELSE None]

\* A command of the session's own user.
Ask(s, l, q) ==
  /\ user[s] # None /\ l \notin SecureLists \cup {"tls_control"}
  /\ Decide(s, l, q, info[user[s]]) /\ UNCHANGED user

\* SITE ADDIP, CHPASS and the like: the rule is evaluated for the account that is changed.
SecureIP(s, l, u) ==
  /\ user[s] # None /\ l \in SecureLists
  /\ Decide(s, l, AnyQuery, info[u]) /\ UNCHANGED user

\* SITE RANKS with an acl: one ACL of its own is evaluated for one user after the other.
RANKSCommand(s, l, first) ==
  LET acl == Rules[l][1].acl IN
  /\ user[s] # None /\ 1 \in DOMAIN Rules[l]
  /\ decision' = [returned |-> IF Compute(acl, info[first]) THEN Users ELSE {},
                  due |-> {u \in Users : Meaning(acl, info[u])},
                  second |-> \E u \in Users : info[u] # info[first]]
  /\ UNCHANGED <<info, user, finalResult, asked, changes>>

\* SITE CHANGE flags and SITE CHGRP; the sessions of the account read it again.
Change(u) ==
  /\ changes < MaxChanges /\ changes' = changes + 1
  /\ \E f \in FlagSets, g \in Groups : info' = [info EXCEPT ![u].flags = f, ![u].group = g]
  /\ decision' = NoDecision
  /\ UNCHANGED <<user, finalResult, asked>>

\* UpdateLocal after a reload: the new copy comes from the shared configuration, whose
\* ACLs nobody has asked.
Renew(s) ==
  /\ asked[s] # AllOf(NoInfo) /\ asked' = [asked EXCEPT ![s] = AllOf(NoInfo)]
  /\ finalResult' = [finalResult EXCEPT ![s] = AllOf("unset")]
  /\ decision' = NoDecision
  /\ UNCHANGED <<info, user, changes>>

Next ==
  \/ \E s \in Sessions :
       \/ Renew(s)
       \/ \E u \in Users : USERCommand(s, u)
       \/ \E l \in DOMAIN Rules : \/ \E q \in Queries : Ask(s, l, q)
                                  \/ \E u \in Users : SecureIP(s, l, u) \/ RANKSCommand(s, l, u)
  \/ \E u \in Users : Change(u)

Spec == Init /\ [][Next]_aclVars

-----------------------------------------------------------------------------
\* A decision is the one the rules give the user, as long as no ACL of the list had been
\* asked before about anything else: the results the loop reuses, and the ones that the
\* order of its conditions leaves unasked, never change it.
FirstDecisionRight == ~decision.second => decision.returned = decision.due

\* What an ACL has kept is what the rule says of the account as it was when the ACL was
\* first asked, since the session's thread took its copy of the configuration.
KeptIsComputed ==
  \A s \in Sessions, l \in DOMAIN Rules : \A k \in DOMAIN Rules[l] :
    finalResult[s][l][k] # "unset" =>
      /\ asked[s][l][k] # NoInfo
      /\ (finalResult[s][l][k] = "yes") = Meaning(Rules[l][k].acl, asked[s][l][k])

\* A decision is the one of the rules, and what an ACL keeps is what they gave.
DecisionRight == FirstDecisionRight /\ KeptIsComputed
=============================================================================
