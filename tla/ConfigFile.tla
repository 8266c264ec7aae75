----------------------------- MODULE ConfigFile -----------------------------
(***************************************************************************)
(* How a configuration file becomes a Config (cfg/config.cpp,              *)
(* cfg/setting.cpp).  A file is a sequence of lines, a line an option and  *)
(* the sequence of its parameters: numbers, words, sizes [n, unit] and     *)
(* pairs.                                                                  *)
(***************************************************************************)
EXTENDS Integers, Sequences

CONSTANT ACLKeywords  \* command acl keywords of the SITE commands

None == "none"

\* A table with the entry of a key put in place of what it had.
With(entries, k, v) ==
  [i \in DOMAIN entries \cup {k} |-> IF i = k THEN v ELSE entries[i]]

-----------------------------------------------------------------------------
(* The options.  A row says how many parameters ParameterCheck admits (-1:  *)
(* any number) and whether a second line replaces the first or adds to it.  *)

Row(names, min, max, put) ==
  [names |-> names, min |-> min, max |-> max, put |-> put]

\* The database, the paths and the texts.
BasicOptions ==
  {Row({"db_name", "db_replicaset", "sitepath", "pidfile", "tls_certificate",
        "tls_ciphers", "datapath", "banner", "sitename_long", "sitename_short",
        "login_prompt"}, 1, 1, "set"),
   Row({"db_host"}, 1, -1, "add"),
   Row({"db_auth"}, 2, 2, "set"),
   Row({"port", "free_space", "total_users", "max_sitecmd_lines",
        "dl_incomplete"}, 1, 1, "set"),
   Row({"ascii_downloads", "ascii_uploads"}, 0, -1, "set"),
   Row({"nuke_max"}, 2, 2, "set"),
   Row({"master", "bouncer_ip"}, 1, -1, "add")}

\* The logs, the addresses and the limits of a transfer.
LogAndNetOptions ==
  {Row({"security_log", "event_log", "debug_log", "error_log", "siteop_log"},
       3, 3, "set"),
   Row({"database_log"}, 2, 2, "set"),
   Row({"transfer_log"}, 5, 5, "set"),
   Row({"bouncer_only"}, 1, 1, "set"),
   Row({"calc_crc", "xdupe", "valid_ip", "active_addr", "banned_users",
        "idle_commands", "noretrieve", "pasv_addr", "cdpath"}, 1, -1, "add"),
   Row({"maximum_speed", "minimum_speed", "secure_ip", "allow_fxp"}, 4, -1, "add"),
   Row({"sim_xfers"}, 2, 2, "set"),
   Row({"secure_pass"}, 2, -1, "add"),
   Row({"nat_addr"}, 1, 1, "set"),
   Row({"active_ports"}, 1, -1, "set"),
   Row({"pasv_ports"}, 0, -1, "set"),
   Row({"welcome_msg", "goodbye_msg"}, 2, -1, "add")}

\* The rights: a path and an acl.
RightOptions ==
  {Row({"alias"}, 2, 2, "add"),
   Row({"delete", "deleteown", "overwrite", "overwriteown", "resume",
        "resumeown", "rename", "renameown", "move", "moveown", "makedir",
        "upload", "download", "downloadown", "modify", "modifyown", "nuke",
        "hideinwho", "freefile", "nostats", "hideowner", "show_diz",
        "hidden_files"}, 2, -1, "add"),
   Row({"event_path", "dupe_path", "index_path"}, 1, -1, "add"),
   Row({"path_filter"}, 2, -1, "add")}

\* The limits, the scripts and the modes.
LimitOptions ==
  {Row({"max_users", "lslong"}, 2, 2, "set"),
   Row({"max_ustats", "max_gstats"}, 2, -1, "add"),
   Row({"cscript"}, 3, 3, "add"),
   Row({"creditcheck", "creditloss"}, 3, -1, "add"),
   Row({"nuke_style"}, 4, 4, "set"),
   Row({"msg_path", "privpath"}, 1, -1, "add"),
   Row({"site_cmd"}, 4, 5, "add"),
   Row({"idle_timeout"}, 3, 3, "set"),
   Row({"pre_check", "pre_dir_check", "post_check"}, 1, 2, "add")}

ModeOptions ==
  {Row({"epsv_fxp", "maximum_ratio", "dir_size_depth", "async_crc",
        "ident_lookup", "dns_lookup", "log_addresses", "umask", "log_lines",
        "data_buffer_size"}, 1, 1, "set"),
   Row({"tls_control", "tls_listing", "tls_data", "tls_fxp"}, 0, -1, "set")}

OptionRows == BasicOptions \cup LogAndNetOptions \cup RightOptions \cup LimitOptions \cup ModeOptions
Options == [o \in UNION {row.names : row \in OptionRows} |-> CHOOSE row \in OptionRows : o \in row.names]

YesNo(word) == word \in {"yes", "no"}
\* ParseSize: kilobytes, or the unit that follows the number.
IsSize(size) == size.n >= 0 /\ size.unit \in {"K", "M", "G"}

\* The conversions ParseGlobal makes itself.
NumberOkay(o, a) ==
  CASE o = "port" -> a[1] \in 0..65535
    [] o = "db_host" -> \A i \in DOMAIN a : a[i][2] \in 0..65535
    [] o \in {"total_users", "max_sitecmd_lines"} -> a[1] >= -1
    [] o \in {"maximum_ratio", "dir_size_depth", "log_lines", "data_buffer_size"} -> a[1] >= 0
    [] o = "free_space" -> IsSize(a[1])
    [] o \in {"dl_incomplete", "bouncer_only", "async_crc", "ident_lookup", "dns_lookup"} -> YesNo(a[1])
    [] o = "epsv_fxp" -> a[1] \in {"allow", "deny", "force"}
    [] o = "log_addresses" -> a[1] \in {"never", "errors", "always"}
    [] o = "umask" -> \A i \in DOMAIN a[1] : a[1][i] \in 0..7
    [] OTHER -> TRUE

\* The constructors of setting.cpp for the limits of addresses, speeds and transfers.
TransferOkay(o, a) ==
  CASE o = "secure_ip" -> a[1] >= 0 /\ YesNo(a[2]) /\ YesNo(a[3])
    [] o \in {"maximum_speed", "minimum_speed"} -> IsSize(a[2]) /\ IsSize(a[3])
    [] o = "sim_xfers" -> a[1] >= -1 /\ a[2] >= -1
    [] o \in {"active_ports", "pasv_ports"} ->
         \A i \in DOMAIN a : a[i][1] \in 1024..65535 /\ a[i][2] \in a[i][1]..65535
    [] o = "allow_fxp" -> \A i \in 1..3 : YesNo(a[i])
    [] o = "path_filter" -> a[1] # "bad regex"
    [] OTHER -> TRUE

\* ... for users, listings, credits, nukes and scripts ...
LimitOkay(o, a) ==
  CASE o = "max_users" -> a[1] >= 0 /\ a[2] >= 0
    [] o = "lslong" -> a[2] >= 0
    [] o \in {"creditcheck", "creditloss"} -> a[2] >= 0
    [] o = "nuke_style" -> a[2] \in {"deleteall", "keepdir", "keep"} /\ IsSize(a[3]) /\ IsSize(a[4])
    [] o = "site_cmd" -> a[3] \in {"EXEC", "TEXT", "ALIAS"}
    [] o = "cscript" -> a[2] \in {"pre", "post"}
    [] OTHER -> TRUE

\* ... and for the idle times and the logs.
TimeOkay(o, a) ==
  CASE o = "idle_timeout" -> a[2] >= 1 /\ a[2] < a[1] /\ a[3] \in a[2]..a[1]
    [] o = "nuke_max" -> a[1] >= 0 /\ a[2] \in 0..100
    [] o \in {"security_log", "event_log", "debug_log", "error_log", "siteop_log", "database_log",
              "transfer_log"} -> /\ YesNo(a[1]) /\ YesNo(a[2]) /\ Len(a) >= 3 => a[3] >= 0
                                 /\ \A i \in DOMAIN a : i > 3 => YesNo(a[i])
    [] OTHER -> TRUE

ParameterCheck(row, n) == n >= row.min /\ (row.max = -1 \/ n <= row.max)

-----------------------------------------------------------------------------
(* Parsing.  The state of a Config under construction is "error" once a      *)
(* ConfigError or a bad_cast has been thrown.  Files are those whose lines   *)
(* have the parameters their constructors read: ascii_downloads without and  *)
(* msg_path with one parameter pass ParameterCheck and are read past the end. *)

Blank == [version |-> 0, values |-> <<>>, acls |-> <<>>, section |-> None,
          sections |-> <<>>, custom |-> {}, state |-> "good"]

Values(c, o) == IF o \in DOMAIN c.values THEN c.values[o] ELSE <<>>
Put(c, o, vs) == [c EXCEPT !.values = With(@, o, vs)]
Throw(c) == [c EXCEPT !.state = "error"]

\* -keyword and custom-command: the first acl of a command stays.
ParseACL(c, line) ==
  LET known == IF line.opt = "-" THEN ACLKeywords ELSE c.custom
      key == <<line.opt, line.word>>
  IN  IF line.args = <<>> \/ line.word \notin known THEN Throw(c)
      ELSE IF key \in DOMAIN c.acls THEN c
      ELSE [c EXCEPT !.acls = With(@, key, line.args)]

\* section: an upper case name not used before; the lines up to endsection belong to it.
ParseSectionStart(c, line) ==
  IF Len(line.args) # 1 \/ line.args[1] \in DOMAIN c.sections THEN Throw(c)
  ELSE [c EXCEPT !.section = line.args[1],
                 !.sections = With(@, line.args[1], [path |-> {}, separate_credits |-> "no", ratio |-> -1])]

ParseGlobal(c, line) ==
  IF line.opt \in {"-", "custom-"} THEN ParseACL(c, line)
  ELSE IF line.opt = "section" THEN ParseSectionStart(c, line)
  ELSE IF line.opt \notin DOMAIN Options THEN Throw(c)
  ELSE LET row == Options[line.opt] IN
    IF /\ ParameterCheck(row, Len(line.args))
       /\ NumberOkay(line.opt, line.args) /\ TransferOkay(line.opt, line.args)
       /\ LimitOkay(line.opt, line.args) /\ TimeOkay(line.opt, line.args)
    THEN Put([c EXCEPT !.custom = IF line.opt = "site_cmd" THEN @ \cup {line.args[1]} ELSE @],
             line.opt,
             IF row.put = "add" THEN Values(c, line.opt) \o line.args ELSE line.args)
    ELSE Throw(c)

ParseSection(c, line) ==
  CASE line.opt = "endsection" -> [c EXCEPT !.section = None]
    [] line.opt = "path" /\ line.args # <<>> ->
         [c EXCEPT !.sections[c.section].path = @ \cup {line.args[i] : i \in DOMAIN line.args}]
    [] line.opt = "separate_credits" /\ Len(line.args) = 1 /\ YesNo(line.args[1]) ->
         [c EXCEPT !.sections[c.section].separate_credits = line.args[1]]
    [] line.opt = "ratio" /\ Len(line.args) = 1 /\ line.args[1] >= 0 ->
         [c EXCEPT !.sections[c.section].ratio = line.args[1]]
    [] OTHER -> Throw(c)

Parse(c, line) ==
  IF c.state # "good" THEN c
  ELSE IF c.section # None THEN ParseSection(c, line) ELSE ParseGlobal(c, line)

Required == {"sitepath", "datapath", "port", "valid_ip"}

SanityCheck(c) ==
  LET host == IF Values(c, "db_host") = <<>> THEN Put(c, "db_host", <<<<"localhost", 27017>>>>) ELSE c
      name == IF Values(host, "db_name") = <<>> THEN Put(host, "db_name", <<"ebftpd">>) ELSE host
  IN  IF c.state # "good" THEN c
      ELSE IF \/ \E o \in Required : o \notin DOMAIN c.values
              \/ Len(Values(name, "db_host")) > 1 /\ "db_replicaset" \notin DOMAIN c.values
           THEN Throw(c)
      ELSE name

\* The constructor of Config: every line in turn, then SanityCheck.
Construct(lines) ==
  LET parsed[i \in 0..Len(lines)] ==
        IF i = 0 THEN Blank ELSE Parse(parsed[i - 1], lines[i])
  IN  SanityCheck(parsed[Len(lines)])

IsConfig(c) ==
  c = [version |-> c.version, values |-> c.values, acls |-> c.acls, section |-> c.section,
       sections |-> c.sections, custom |-> c.custom, state |-> c.state]

\* What a configuration that is used must be: read to the end of the file, with the
\* settings SanityCheck requires, hosts, a replica set when there are several, idle times
\* in order, and acls of commands that exist.
Complete(c) ==
  /\ IsConfig(c) /\ c.state = "good"
  /\ Required \subseteq DOMAIN c.values
  /\ Values(c, "db_host") # <<>>
  /\ Len(Values(c, "db_host")) > 1 => Values(c, "db_replicaset") # <<>>
  /\ LET t == Values(c, "idle_timeout") IN t # <<>> => 0 < t[2] /\ t[2] <= t[3] /\ t[3] <= t[1]
  /\ \A kv \in DOMAIN c.acls : kv[2] \in IF kv[1] = "-" THEN ACLKeywords ELSE c.custom

\* The settings only a restart applies.
NeedRestart == {"valid_ip", "port", "tls_certificate", "tls_ciphers", "db_name",
                "db_host", "db_auth", "db_replicaset", "max_users"}
StopStart(new, old) == \E o \in NeedRestart : Values(new, o) # Values(old, o)
=============================================================================
