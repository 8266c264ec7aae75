------------------------------ MODULE MCSupport ------------------------------
(***************************************************************************)
(* Instances for TLC of the components below the commands: the data        *)
(* connection, the configuration, the process, the checksum of an upload,  *)
(* conversions and the statistics.  A behaviour is of one of them: focus   *)
(* says which, and the variables of the others are Off.                    *)
(***************************************************************************)
EXTENDS Integers, Sequences, FiniteSets, TLC

CONSTANTS Pids, Sessions

VARIABLES focus,
  protection, pasvType, epsvMode, sscnMode, restartOffset, listener, sock, pending, step, ports,
  portIt, nextPort, addrs, addrIt, plan, numCommands, reloads, disturbed, applied, gaveUp, wild,
  asserted, failed,
  latestVersion, shared, local, reload, slots, templates, command, answer, behind, overlapped,
  early,
  stage, named, pidfile, listening, segments, table, mutex, reader, starts, crashes,
  full, data, queued, finished, readIt, writeIt, writer, worker, sent, crc, result,
  input,
  transfers, onDisk, moves, today, nukeLog, job, uploaded, uploadedOn, numMoves, unclean, split

dataVars == <<protection, pasvType, epsvMode, sscnMode, restartOffset, listener, sock, pending, step, ports,
  portIt, nextPort, addrs, addrIt, plan, numCommands, reloads, disturbed, applied, gaveUp, wild,
  asserted, failed>>
configVars == <<latestVersion, shared, local, reload, slots, templates, command, answer, behind, overlapped,
  early>>
processVars == <<stage, named, pidfile, listening, segments, table, mutex, reader, starts, crashes>>
crcVars == <<full, data, queued, finished, readIt, writeIt, writer, worker, sent, crc, result>>
conversionVars == <<input>>
statVars == <<transfers, onDisk, moves, today, nukeLog, job, uploaded, uploadedOn, numMoves, unclean,
  split>>
supportVars == <<focus, dataVars, configVars, processVars, crcVars, conversionVars, statVars>>

-----------------------------------------------------------------------------
(* The instances *)

\* Two clients that share the allocators while these are configured again, or that give
\* up listeners and ports while the other looks for one, and each client alone with every
\* command.
DataClients == {1, 2}
Both == [do |-> {"passive", "open"}, who |-> DataClients, commands |-> 2, reloads |-> 1]
Passive == [do |-> {"passive"}, who |-> DataClients, commands |-> 3, reloads |-> 0]
Alone(c) == [do |-> {"passive", "active", "settings", "rest", "open"}, who |-> {c},
             commands |-> 4, reloads |-> 0]
Dat == INSTANCE DataConnection WITH
  Clients <- DataClients, Family <- [c \in DataClients |-> IF c = 1 THEN 4 ELSE 6],
  PortConfigs <- {<<>>, <<[from |-> 3, to |-> 3]>>, <<[from |-> 1, to |-> 2]>>,
                  <<[from |-> 4, to |-> 4], [from |-> 6, to |-> 7]>>},
  AddrConfigs <- {<<>>, <<[name |-> "a", fam |-> 6], [name |-> "b", fam |-> 4]>>},
  FxpDown <- {1}, FxpUp <- {2}, TLSListing <- {1}, TLSFxp <- {2}, TLSData <- {1},
  Plans <- {Both, Passive} \cup {Alone(c) : c \in DataClients}
ASSUME DataSettings == Dat!DataAssumption /\ Dat!AscendingRanges

\* Files: two valid ones, of which one needs a restart, and one for
\* each reason to be refused.
Cfg == INSTANCE ConfigFile WITH ACLKeywords <- {"user"}
Line(o, args) == [opt |-> o, word |-> "none", args |-> args]
Base == <<Line("sitepath", <<"site">>), Line("datapath", <<"data">>), Line("valid_ip", <<"any">>)>>
First == Base \o <<Line("port", <<21>>)>>
Rules == [opt |-> "custom-", word |-> "RULES", args |-> <<"*">>]
ConfigFiles ==
  <<First,
    Base \o <<Line("port", <<22>>), Line("site_cmd", <<"RULES", "d", "TEXT", "f">>), Rules,
              Line("section", <<"MP3">>), Line("ratio", <<3>>), Line("endsection", <<>>)>>,
    Base, Base \o <<Line("port", <<65536>>)>>,
    First \o <<Line("idle_timeout", <<3, 1, 4>>)>>,
    First \o <<Line("umask", <<<<0, 8>>>>)>>,
    First \o <<Line("pasv_ports", <<<<1024, 1023>>>>)>>,
    First \o <<Line("max_users", <<0>>)>>,
    First \o <<Line("db_host", <<<<"h1", 1>>>>), Line("db_host", <<<<"h2", 1>>>>)>>,
    First \o <<Line("section", <<"MP3">>), Line("path", <<"/mp3">>), Line("umask", <<<<0, 2>>>>)>>,
    First \o <<Rules, Line("site_cmd", <<"RULES", "d", "TEXT", "f">>)>>>>
ConfigLoads == [i \in DOMAIN ConfigFiles |-> Cfg!Construct(ConfigFiles[i])]
Con == INSTANCE Config WITH
  ACLKeywords <- {"user"}, Clients <- {"c1"}, Loads <- ConfigLoads, FirstLoad <- ConfigLoads[1],
  TextDirs <- {"good", "bad"}, MaxVersion <- 3
ASSUME ConfigSettings == Con!ConfigAssumption

\* Two servers started one after the other or at once, one crash, a run of who.
Pro == INSTANCE Process WITH
  Readers <- {"r1"}, Speeds <- {1}, Capacity <- 2, MaxStarts <- 2, MaxCrashes <- 1

Crc == INSTANCE AsyncCRC WITH QueueSize <- 2, MaxBlocks <- 6
ASSUME ChecksumRing == Crc!RingAssumption
ASSUME ProcessNames == Pro!ProcessAssumption

Cnv == INSTANCE Conversions WITH
  Bytes <- {0, 1, 21, 255}, Numbers <- {-1, 0, 2, 7, 255, 256, 40000},
  PathParts <- {"", "a", "b", ".", ".."}, MaxParts <- 5, MaxClauses <- 2

\* Two uploads by two users, to the section, under nostats and outside, moved
\* twice, over a midnight; user 2 deletes under nostats.
Store(u, s, kb, nostats) == [owner |-> u, section |-> s, kBytes |-> kb, nostats |-> nostats]
Sta == INSTANCE Statistics WITH
  Rankeds <- {1, 2}, StatSections <- {"mp3"}, RankGroups <- {"g1", "g2"},
  Stores <- {Store(1, "mp3", 2, FALSE), Store(1, "mp3", 0, FALSE), Store(1, "none", 2, FALSE),
             Store(2, "mp3", 2, FALSE), Store(2, "mp3", 2, TRUE)},
  Deletes <- {<<1, FALSE>>, <<2, TRUE>>},
  MaxFiles <- 2, MaxMoves <- 2, MaxDay <- 2, Sundays <- {2}
ASSUME StatSettings == Sta!StatAssumption

-----------------------------------------------------------------------------
Off == 0

DataOff ==
  /\ protection = Off /\ pasvType = Off /\ epsvMode = Off /\ sscnMode = Off
  /\ restartOffset = Off /\ listener = Off /\ sock = Off /\ pending = Off /\ step = Off
  /\ ports = Off /\ portIt = Off /\ nextPort = Off /\ addrs = Off /\ addrIt = Off /\ plan = Off
  /\ numCommands = Off /\ reloads = Off /\ disturbed = Off /\ applied = Off /\ gaveUp = Off
  /\ wild = Off /\ asserted = Off /\ failed = Off
ConfigOff ==
  /\ latestVersion = Off /\ shared = Off /\ local = Off /\ reload = Off /\ slots = Off
  /\ templates = Off /\ command = Off /\ answer = Off /\ behind = Off /\ overlapped = Off
  /\ early = Off
ProcessOff ==
  /\ stage = Off /\ named = Off /\ pidfile = Off /\ listening = Off /\ segments = Off
  /\ table = Off /\ mutex = Off /\ reader = Off /\ starts = Off /\ crashes = Off
ChecksumOff ==
  /\ full = Off /\ data = Off /\ queued = Off /\ finished = Off /\ readIt = Off /\ writeIt = Off
  /\ writer = Off /\ worker = Off /\ sent = Off /\ crc = Off /\ result = Off
ConversionsOff ==
  /\ input = Off
StatisticsOff ==
  /\ transfers = Off /\ onDisk = Off /\ moves = Off /\ today = Off /\ nukeLog = Off
  /\ job = Off /\ uploaded = Off /\ uploadedOn = Off /\ numMoves = Off /\ unclean = Off
  /\ split = Off

Init ==
  /\ focus \in {"data", "config", "process", "crc32", "conversions", "statistics"}
  /\ IF focus = "data" THEN Dat!Init ELSE DataOff
  /\ IF focus = "config" THEN Con!Init ELSE ConfigOff
  /\ IF focus = "process" THEN Pro!Init ELSE ProcessOff
  /\ IF focus = "crc32" THEN Crc!Init ELSE ChecksumOff
  /\ IF focus = "conversions" THEN Cnv!Init ELSE ConversionsOff
  /\ IF focus = "statistics" THEN Sta!Init ELSE StatisticsOff

DataNext ==
  /\ focus = "data" /\ Dat!Next
  /\ UNCHANGED <<focus, configVars, processVars, crcVars, conversionVars, statVars>>
ConfigNext ==
  /\ focus = "config" /\ Con!Next
  /\ UNCHANGED <<focus, dataVars, processVars, crcVars, conversionVars, statVars>>
ProcessNext ==
  /\ focus = "process" /\ Pro!Next
  /\ UNCHANGED <<focus, dataVars, configVars, crcVars, conversionVars, statVars>>
ChecksumNext ==
  /\ focus = "crc32" /\ Crc!Next
  /\ UNCHANGED <<focus, dataVars, configVars, processVars, conversionVars, statVars>>
StatisticsNext ==
  /\ focus = "statistics" /\ Sta!Next
  /\ UNCHANGED <<focus, dataVars, configVars, processVars, crcVars, conversionVars>>

Next ==
  \/ DataNext
  \/ ConfigNext
  \/ ProcessNext
  \/ ChecksumNext
  \/ StatisticsNext

Spec == Init /\ [][Next]_supportVars

\* Servers and sessions have nothing that tells them apart.
SupportSymmetry == Permutations(Pids) \cup Permutations(Sessions)

-----------------------------------------------------------------------------
\* A passive listener has the family of the control connection, or IPv4 for
\* PASV, and until a reload a port of pasv_ports; a client alone in its loop
\* finds a free port if there is one and never reads past the addresses.
ListenerRight == focus = "data" => Dat!ListenerRight

\* No transfer runs in the clear that a TLS setting forbids, whatever order PROT,
\* PASV, PORT and the transfer come in; an offset of REST applies to one file
\* transfer; the assertion in Open fails only after a passive command that failed.
OpenRight == focus = "data" => Dat!OpenRight

\* Every published configuration is complete; clients work with it after their
\* next command and the five slots of updated() agree, unless two threads
\* reloaded at once; a reload called complete leaves no setting to a restart.
ConfigFollowed == focus = "config" => Con!ConfigFollowed

\* Two servers never serve at once, however start-ups, crashes and pid files
\* interleave; the pid file names the server that wrote it; its memory lives as
\* long as it serves and is gone after an orderly end; who shows one moment of it.
ServerSound == focus = "process" => Pro!ServerSound

\* The checksum of a finished upload covers all its blocks, once and in order; no
\* block is overwritten before it is read; the two threads never both sleep.
ChecksumSound == focus = "crc32" => Crc!ChecksumSound

\* Announced endpoints are read back as themselves and arguments out of range are
\* refused; paths resolve to names below the root and relative ones lead back; a
\* symbolic mode sets the bits chmod would, unless "=" names nobody.
ConversionsExact == focus = "conversions" => Cnv!ConversionsExact

\* When no move is under way the uploads of a section are the files counted there
\* that no nuke holds, also across midnight; a finished move leaves the sums
\* behind the average speed alone, of each day it does not straddle; every group
\* is ranked once, with its sum, in order. Excused: where STOR, DELE and NUKE
\* judge nostats differently, WIPE, an undone nuke of several users, a nuked file
\* that was deleted, nukes of files below one kilobyte.
StatisticsSound == focus = "statistics" => Sta!StatisticsSound
=============================================================================
