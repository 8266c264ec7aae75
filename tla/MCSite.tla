------------------------------- MODULE MCSite -------------------------------
(***************************************************************************)
(* Instances for TLC of the components behind the commands of a site:      *)
(* accounts, nukes, files, access control, mail, scripts and templates.    *)
(* They share nothing, so a behaviour is of one of them: focus says which, *)
(* and the variables of the others are Off.                                *)
(***************************************************************************)
EXTENDS Integers, Sequences, FiniteSets, TLC

CONSTANTS Nothing, Operators, Nukers

VARIABLES focus,
  users, groups, credits, incr, gids, names, primary, dirty, job, script, started, raced,
  misnamed, confirmed, ratios, torn, minted, purged,
  dir, nukes, unnukes, oid, purse, upload, known, nuker, down, count, others, tangled, stuck,
  before,
  tree, index, work, from, confirm, act, mask, acts, numActs, mixed, moved, trespass,
  info, user, finalResult, asked, decision, changes,
  box, online, reading, target, shown, savedOnce, shared, numSent, dbErrors,
  commandOf, child, stage, got, holders, serverHolds, exitStatus, performed, results, replies,
  numCommands,
  outline, crlf, rest, parser, sections, malformed

accountVars == <<users, groups, credits, incr, gids, names, primary, dirty, job, script, started,
  raced, misnamed, confirmed, ratios, torn, minted, purged>>
nukeVars == <<dir, nukes, unnukes, oid, purse, upload, known, nuker, down, count, others, tangled,
  stuck, before>>
fileVars == <<tree, index, work, from, confirm, act, mask, acts, numActs, mixed, moved, trespass>>
aclVars == <<info, user, finalResult, asked, decision, changes>>
mailVars == <<box, online, reading, target, shown, savedOnce, shared, numSent, dbErrors>>
scriptVars == <<commandOf, child, stage, got, holders, serverHolds, exitStatus, performed, results,
  replies, numCommands>>
templateVars == <<outline, crlf, rest, parser, sections, malformed>>
siteVars == <<focus, accountVars, nukeVars, fileVars, aclVars, mailVars, scriptVars, templateVars>>

-----------------------------------------------------------------------------
(* The instances *)

\* Two operators, one of them a gadmin; a script is the commands of a behaviour.
AccountScripts == {
  [ops |-> {"CHGRP", "SETPGRP", "CHGADMIN"}, max |-> 3],
  [ops |-> {"ADDUSER", "DELUSER", "READD", "PURGE"}, max |-> 3],
  [ops |-> {"CHANGE", "DELUSER", "READD"}, max |-> 2],
  [ops |-> {"GIVE", "TAKE"}, max |-> 3],
  [ops |-> {"GIVE", "DELUSER", "PURGE"}, max |-> 3],
  [ops |-> {"GRPADD", "GRPDEL", "GRPREN", "SETPGRP"}, max |-> 3],
  [ops |-> {"GRPCHANGE", "ADDUSER"}, max |-> 2]}
Acc == INSTANCE Accounts WITH
  None <- Nothing,
  Gadmins <- {CHOOSE o \in Operators : TRUE}, Scripts <- AccountScripts,
  GNames <- {"ebftpd", "default", "own", "new"},
  Masters <- {}, Settings <- {"num_logins", "max_up_speed"}, Values <- {-2, -1, 0, 1},
  Lists <- {<<"own">>, <<"ebftpd">>, <<"own", "ebftpd">>, <<"ebftpd", "ebftpd">>},
  Targets <- {{0}, {2}, {1, 2}}, MaxUid <- 3, MaxGid <- 3
ASSUME AccountSettings == Acc!AccountAssumption

\* One release of up to two owners, one of whom has no ratio.
Nuk == INSTANCE Nuking WITH
  Releases <- {"release"}, Owners <- {1, 2}, Ratio <- [u \in {1, 2} |-> IF u = 1 THEN 3 ELSE 0],
  Multis <- {[value |-> 2, percent |-> FALSE], [value |-> 50, percent |-> TRUE]},
  MaxMulti <- [multiplier |-> 3, percent |-> 100], Style <- "Keep", EmptyKBytes <- 1,
  EmptyPenalty <- 5, FileKBytes <- 1, Nil <- Nothing,
  Uploads <- {[u \in {1, 2} |-> 0], [u \in {1, 2} |-> 1]}, MaxNukes <- 3, MaxOthers <- 1
ASSUME NukeSettings == Nuk!NukeAssumption

\* Two clients, the second with a home directory; three names, one of them dotted.
FileNames == {"a", "ab", ".x"}
FilePaths == UNION {[1 .. n -> FileNames] : n \in 0 .. 2}
Everybody == [paths |-> FilePaths, users |-> {1, 2}]
OwnRights == {"deleteown", "renameown", "moveown", "modifyown", "overwriteown"}
FileRights ==
  [r \in {"delete", "rename", "move", "modify", "overwrite"} \cup OwnRights
         \cup {"upload", "makedir"} |->
     IF r \in {"upload", "makedir"} THEN <<Everybody>>
     ELSE IF r \in OwnRights THEN <<[paths |-> {<<"ab">>}, users |-> {}], Everybody>>
     ELSE IF r = "delete" THEN <<[paths |-> {<<"a">>}, users |-> {1, 2}], [paths |-> FilePaths, users |-> {1}]>>
     ELSE <<[paths |-> FilePaths, users |-> {1}]>>]
FileActs == {{"CWD", "MKD", "STOR"}, {"MKD", "RMD", "UPDATE"}, {"MKD", "RMD", "NEW"},
  {"STOR", "DELE", "CHOWN"}, {"MKD", "RNFR", "RNTO"}, {"STOR", "RNFR", "RNTO"},
  {"STOR", "MKD", "WIPE"}, {"STOR", "MKD", "LIST"}, {"CHMOD", "STOR", "MFMT"}, {"STOR", "RMD"}}
Fil == INSTANCE FileSystem WITH
  Clients <- {1, 2}, Names <- FileNames, Dotted <- {".x"},
  Starts <- {<<"a", "a">>, <<"a", "ab">>, <<"ab", "ab">>, <<".x", ".x">>},
  Home <- [c \in {1, 2} |-> IF c = 1 THEN <<>> ELSE <<"a">>],
  Private <- <<[path |-> <<"ab">>, users |-> {1}], [path |-> <<"a", "ab">>, users |-> {1}]>>,
  Hidden <- {<<"a", ".x">>}, Rights <- FileRights, Aliases <- [n \in {"al"} |-> <<"ab">>],
  Cdpath <- <<<<"ab">>, <<"a">>>>,
  Indexed <- {<<"a", "a">>, <<"ab">>, <<"a">>, <<"ab", "a">>, <<"ab", "ab">>, <<"a", "ab">>},
  Unsearchable <- {<<"ab", "ab">>}, Stored <- [p \in {<<"a", ".x">>} |-> 1],
  MaxRecursion <- 1, Acts <- FileActs, Absent <- Nothing, MaxActs <- 3, MaxDepth <- 2
ASSUME FileSettings == Fil!FileAssumption

\* One session after the other of two users with different flags and groups.
Flag(fs, neg) == [kind |-> "flag", name |-> "none", flags |-> fs, negate |-> neg]
Named(kind, n, neg) == [kind |-> kind, name |-> n, flags |-> {}, negate |-> neg]
Rule(acl, ps, up, v) ==
  [acl |-> acl, paths |-> ps, limit |-> [up |-> up, down |-> 1], value |-> v]
AclRules ==
  [tls_control |->
     <<Rule(<<Named("user", "u2", TRUE), Flag({"1"}, FALSE)>>, {"p1"}, 1, "enforced")>>,
   maximum_speed |->
     <<Rule(<<Flag({"1"}, TRUE), Flag({"*"}, FALSE)>>, {"p1"}, 0, 10),
       Rule(<<Named("group", "g1", FALSE)>>, {"p1", "p2"}, 1, 20)>>,
   creditcheck |->
     <<Rule(<<Flag({"1"}, FALSE)>>, {"p1"}, 1, 1), Rule(<<Flag({"*"}, FALSE)>>, {"p1"}, 1, 2)>>,
   secure_ip |-> <<Rule(<<Named("group", "g1", TRUE), Flag({"*"}, FALSE)>>, {"p1"}, 1, 2)>>]
Acl == INSTANCE Acl WITH
  Sessions <- {"s1"}, Users <- {"u1", "u2"}, Groups <- {"g1", "g2"},
  FlagSets <- {{}, {"1"}}, Rules <- AclRules, Paths <- {"p1", "p2"},
  FirstInfo <- [u1 |-> [name |-> "u1", group |-> "g1", flags |-> {"1"}],
                u2 |-> [name |-> "u2", group |-> "g2", flags |-> {"exempt"}]],
  MaxChanges <- 1
ASSUME AclSettings == Acl!AclAssumption

\* A sender and two sessions of a reader; the third account is deleted.
Mai == INSTANCE Mail WITH
  MailUsers <- {"sender", "reader", "gone"}, MailSessions <- {"a", "b", "c"},
  UserOf <- [s \in {"a", "b", "c"} |-> IF s = "a" THEN "sender" ELSE "reader"],
  Deleted <- {"gone"}, MaxMessages <- 2, MaxDbErrors <- 1
ASSUME MailSettings == Mai!MailAssumption

\* An upload or a new directory whose scripts misbehave, next to another session's script.
Well == [code |-> "zero", ignoresTerm |-> FALSE, stuck |-> FALSE, noexec |-> FALSE]
Scr == INSTANCE Scripts WITH
  ScriptSessions <- {"s1", "s2"},
  KindsOf <- [s \in {"s1", "s2"} |-> IF s = "s1" THEN {"stor", "mkd"} ELSE {"exec"}],
  Behaviours <- [s \in {"s1", "s2"} |->
    IF s = "s2" THEN {Well}
    ELSE {Well, [Well EXCEPT !.code = "signal"], [Well EXCEPT !.ignoresTerm = TRUE],
          [Well EXCEPT !.stuck = TRUE], [Well EXCEPT !.noexec = TRUE]}],
  MaxLines <- 1, MaxCommands <- 1
ASSUME ScriptSettings == Scr!ScriptAssumption

\* Files of one block with up to two pieces, and of two blocks.
Piece(kind, c, filter) == [kind |-> kind, c |-> c, filter |-> filter]
Pieces ==
  {Piece("text", c, "none") : c \in {"a", " ", "LF"}}
  \cup {Piece("escape", c, "none") : c \in {"\\", "{"}}
  \cup {Piece("tag", "user", f) : f \in {"none", "upper", "wide"}}
  \cup {Piece("tag", "size", f) : f \in {"auto", "mb"}}
  \cup {Piece("include", "file", "none")}
OneBlock == {<<[block |-> b, pieces |-> p]>> :
  b \in {"head", "body", "foot", "side"}, p \in UNION {[1 .. n -> Pieces] : n \in 0 .. 2}}
TwoBlocks == {<<[block |-> "head", pieces |-> <<Piece("tag", "user", "upper")>>],
                [block |-> b, pieces |-> <<p>>]>> : b \in {"body", "foot"}, p \in Pieces}
Tem == INSTANCE Templates WITH
  Outlines <- OneBlock \cup TwoBlocks, Included <- <<"b">>,
  Values <- [user |-> [size |-> FALSE, v |-> "joe", upper |-> "JOE"],
             size |-> [size |-> TRUE, v |-> 0 - 2048, upper |-> ""]]

-----------------------------------------------------------------------------
Off == 0

AccountsOff ==
  /\ users = Off /\ groups = Off /\ credits = Off /\ incr = Off /\ gids = Off /\ names = Off
  /\ primary = Off /\ dirty = Off /\ job = Off /\ script = Off /\ started = Off /\ raced = Off
  /\ misnamed = Off /\ confirmed = Off /\ ratios = Off /\ torn = Off /\ minted = Off /\ purged = Off
NukingOff ==
  /\ dir = Off /\ nukes = Off /\ unnukes = Off /\ oid = Off /\ purse = Off /\ upload = Off
  /\ known = Off /\ nuker = Off /\ down = Off /\ count = Off /\ others = Off /\ tangled = Off
  /\ stuck = Off /\ before = Off
FilesOff ==
  /\ tree = Off /\ index = Off /\ work = Off /\ from = Off /\ confirm = Off /\ act = Off
  /\ mask = Off /\ acts = Off /\ numActs = Off /\ mixed = Off /\ moved = Off /\ trespass = Off
AclOff ==
  /\ info = Off /\ user = Off /\ finalResult = Off /\ asked = Off /\ decision = Off
  /\ changes = Off
MailOff ==
  /\ box = Off /\ online = Off /\ reading = Off /\ target = Off /\ shown = Off
  /\ savedOnce = Off /\ shared = Off /\ numSent = Off /\ dbErrors = Off
ScriptsOff ==
  /\ commandOf = Off /\ child = Off /\ stage = Off /\ got = Off /\ holders = Off
  /\ serverHolds = Off /\ exitStatus = Off /\ performed = Off /\ results = Off /\ replies = Off
  /\ numCommands = Off
TemplatesOff ==
  /\ outline = Off /\ crlf = Off /\ rest = Off /\ parser = Off /\ sections = Off
  /\ malformed = Off

Init ==
  /\ focus \in {"accounts", "nuking", "files", "acl", "mail", "scripts", "templates"}
  /\ IF focus = "accounts" THEN Acc!Init ELSE AccountsOff
  /\ IF focus = "nuking" THEN Nuk!Init ELSE NukingOff
  /\ IF focus = "files" THEN Fil!Init ELSE FilesOff
  /\ IF focus = "acl" THEN Acl!Init ELSE AclOff
  /\ IF focus = "mail" THEN Mai!Init ELSE MailOff
  /\ IF focus = "scripts" THEN Scr!Init ELSE ScriptsOff
  /\ IF focus = "templates" THEN Tem!Init ELSE TemplatesOff

AccountsNext ==
  /\ focus = "accounts" /\ Acc!Next
  /\ UNCHANGED <<focus, nukeVars, fileVars, aclVars, mailVars, scriptVars, templateVars>>
NukingNext ==
  /\ focus = "nuking" /\ Nuk!Next
  /\ UNCHANGED <<focus, accountVars, fileVars, aclVars, mailVars, scriptVars, templateVars>>
FilesNext ==
  /\ focus = "files" /\ Fil!Next
  /\ UNCHANGED <<focus, accountVars, nukeVars, aclVars, mailVars, scriptVars, templateVars>>
AclNext ==
  /\ focus = "acl" /\ Acl!Next
  /\ UNCHANGED <<focus, accountVars, nukeVars, fileVars, mailVars, scriptVars, templateVars>>
MailNext ==
  /\ focus = "mail" /\ Mai!Next
  /\ UNCHANGED <<focus, accountVars, nukeVars, fileVars, aclVars, scriptVars, templateVars>>
ScriptsNext ==
  /\ focus = "scripts" /\ Scr!Next
  /\ UNCHANGED <<focus, accountVars, nukeVars, fileVars, aclVars, mailVars, templateVars>>
TemplatesNext ==
  /\ focus = "templates" /\ Tem!Next
  /\ UNCHANGED <<focus, accountVars, nukeVars, fileVars, aclVars, mailVars, scriptVars>>

Next ==
  \/ AccountsNext
  \/ NukingNext
  \/ FilesNext
  \/ AclNext
  \/ MailNext
  \/ ScriptsNext
  \/ TemplatesNext

Spec == Init /\ [][Next]_siteVars

-----------------------------------------------------------------------------
\* acl::User keeps a primary group as long as there is any group, and gadmin
\* rights only for groups the user is in, whatever sequence of CHGRP, SETPGRP,
\* CHGADMIN and ADDUSER; GRPDEL leaves no user in a group that is gone.
\* Excused: commands that overlapped, names the cache resolved wrongly.
GroupsSound == focus = "accounts" => Acc!GroupsSound

\* Commands that overlap may undo each other's change of a list, never a number
\* that CHANGE confirmed, except that the ratios are saved as one map; GIVE and TAKE neither make nor lose a credit, however
\* the asynchronous increments of a user without credits interleave.
ChangesKept == focus = "accounts" => Acc!ChangesKept

\* Between commands, what an uploader has and what the records of the nukes say
\* was taken add up to what the uploader had, credits and statistics; a
\* directory with the name of a nuke has its record, and a release is nuked or
\* unnuked. Excused: releases with overlapping commands, a second nuke or a
\* failed rename; accounts that were purged or had no credits.
NukesReturn == focus = "nuking" => Nuk!NukesReturn

\* The tree stays a tree whatever commands overlap. Between commands that did
\* not, the index names exactly the indexed directories, through MKD, RMD, RNTO,
\* WIPE, UPDATE and NEW, unless a directory that holds others was renamed.
IndexSound == focus = "files" => Fil!IndexSound

\* However a client changed directory it is inside its home and in no private
\* directory of others; a command that no other overlaps removes, in however many
\* steps, only what it was entitled to when it was given (a dotted file with the
\* directory that holds it, a file that a rename replaces with the right to upload
\* there), and DELE charges for the client's own file and no other; a listing
\* shows what the client may see, no deeper than the limit.
WithinRights == focus = "files" => Fil!WithinRights

\* A decision is the one the rules give the user as long as no ACL of the list
\* was asked before about anything else, and what an ACL keeps is what its rule
\* said when it was first asked, since the thread took its configuration.
DecisionRight == focus = "acl" => Acl!DecisionRight

\* Only messages that MSG READ has shown are thrown away with the trash, and a
\* saved one stays until it is purged by its index. Excused from the second:
\* recipients with two sessions at a time.
MailKept == focus = "mail" => Mai!MailKept

\* An upload or a directory is made only if every script before it exited with
\* 0; the command has one final reply; no child is left when none is read, and
\* what keeps a session reading is a script, never the server's own end of the
\* pipe. Excused: a script that outlives SIGKILL, a post check that cannot run.
ScriptsObeyed == focus = "scripts" => Scr!ScriptsObeyed

\* Every block of a well-formed file shows what was written, each occurrence of
\* a tag with its own filter; a file is refused exactly when a marker or a filter
\* is not of the language. Excused: blocks with escaped opening braces.
ReadsAsWritten == focus = "templates" => Tem!ReadsAsWritten

\* What a step may never do. Accounts: a deleted user comes back only by READD,
\* by a CHANGE of the flags as a whole or by a stale write, and a gadmin stays
\* within the limits of the group. Nukes with style keep lose no file. A WIPE
\* that reports success leaves nothing. Unread mail goes only by its index.
StepsKeep ==
  [][/\ focus = "accounts" => Acc!StayDeleted /\ Acc!WithinLimits
     /\ focus = "nuking" => Nuk!LoseNothing
     /\ focus = "files" => Fil!LeaveNothing
     /\ focus = "mail" => Mai!LoseNoUnread]_siteVars
=============================================================================
