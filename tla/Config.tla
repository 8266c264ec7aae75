------------------------------- MODULE Config -------------------------------
(***************************************************************************)
(* How a configuration reaches the threads (cfg/get.cpp), and how it is    *)
(* loaded again, by SITE RELOAD on the server thread and by SIGHUP on the  *)
(* signal thread.  What a file becomes is the subject of ConfigFile.       *)
(***************************************************************************)
EXTENDS ConfigFile

CONSTANTS Clients,      \* client threads
          Loads,        \* the results of Construct for what the administrator may
                        \* put in ebftpd.conf
          TextDirs,     \* states of <datapath>/text: "good", "bad", "gone"
          FirstLoad,    \* the one the server is started with
          MaxVersion    \* bound: configurations loaded

VARIABLES latestVersion, shared,   \* statics of config.cpp and get.cpp
          local,           \* per thread: the copy behind thisThread
          reload,          \* per reloading thread: how far it is
          slots,           \* version each slot of updated() applied last
          templates,       \* text::Factory::instance: the state it was read in
          command,         \* per client: "none", "idle", "reloading"
          answer,          \* per client: what SITE RELOAD replied
          behind, overlapped, early   \* history

configVars == <<latestVersion, shared, local, reload,
                slots, templates, command, answer, behind, overlapped, early>>

Reloaders == {"server", "signals"}
Threads == Reloaders \cup Clients
Slots == <<"active_ports", "pasv_ports", "active_addr", "pasv_addr", "umask">>

-----------------------------------------------------------------------------
\* The threads that reload are no clients, and what the constructor accepts is complete.
ConfigAssumption ==
  /\ Clients \cap Reloaders = {} /\ Complete(FirstLoad)
  /\ \A i \in DOMAIN Loads : /\ IsConfig(Loads[i])
                             /\ Loads[i].state = "good" => Complete(Loads[i])

First == [FirstLoad EXCEPT !.version = 1]
NoAnswer == [config |-> None, templates |-> None, current |-> FALSE]
Idle == [phase |-> "idle", conf |-> Blank, slot |-> 0, for |-> None, result |-> "okay"]

\* Main: the file is loaded on the main thread, whose slots see it, and the
\* templates are read, before any other thread exists.
Init ==
  /\ latestVersion = 1 /\ shared = First
  /\ local = [t \in Threads |-> Blank]
  /\ reload = [t \in Reloaders |-> Idle]
  /\ slots = [i \in DOMAIN Slots |-> 1]
  /\ templates = [version |-> 1, dir |-> "good"]
  /\ command = [c \in Clients |-> "none"] /\ answer = [c \in Clients |-> NoAnswer]
  /\ behind = [c \in Clients |-> FALSE]
  /\ overlapped = FALSE /\ early = FALSE

\* Get: a thread that has no copy yet takes one.
Get(t) == IF local[t].version = 0 THEN shared ELSE local[t]

\* UpdateLocal: the copy is replaced unless it is as new as the shared one.
UpdateLocal(t) == IF local[t].version # 0 /\ shared.version <= local[t].version
                  THEN local[t] ELSE shared

\* A connection: the server thread constructs the client, whose constructor asks Get for
\* the idle timeout, so that the server thread has its copy from then on.
Accept(c) ==
  /\ command[c] = "none" /\ reload["server"].phase = "idle"
  /\ local' = [local EXCEPT !["server"] = Get("server"), ![c] = Blank]
  /\ command' = [command EXCEPT ![c] = "idle"]
  /\ behind' = [behind EXCEPT ![c] = TRUE]
  /\ UNCHANGED <<latestVersion, shared, reload, slots, templates,
                 answer, overlapped, early>>

\* ClientImpl::Handle: a command runs with the copy of its thread, which is brought up to
\* date when the command has been executed.
Command(c) ==
  /\ \/ command[c] = "idle"
     \/ command[c] = "reloading" /\ answer[c] # NoAnswer
  /\ local' = [local EXCEPT ![c] = UpdateLocal(c)]
  /\ command' = [command EXCEPT ![c] = "idle"]
  /\ behind' = [behind EXCEPT ![c] = FALSE] /\ answer' = [answer EXCEPT ![c] = NoAnswer]
  /\ UNCHANGED <<latestVersion, shared, reload, slots, templates, overlapped, early>>

\* SITE RELOAD: the client waits for the future of the task.
RELOADCommand(c) ==
  /\ command[c] = "idle" /\ latestVersion < MaxVersion
  /\ \A d \in Clients : command[d] # "reloading"
  /\ local' = [local EXCEPT ![c] = Get(c)]
  /\ command' = [command EXCEPT ![c] = "reloading"]
  /\ UNCHANGED <<latestVersion, shared, reload, slots, templates, answer, behind,
                 overlapped, early>>

-----------------------------------------------------------------------------
(* A reload: ReloadConfig::Execute on the server thread for a client that   *)
(* waits, SIGHUP on the signal thread.                                      *)

Other(t) == IF t = "server" THEN "signals" ELSE "server"

\* The new Config numbers itself with a plain increment of a static: another
\* thread in the middle of the same increment may end up with the same number.
StartLoad(t) ==
  /\ reload[t].phase = "idle" /\ latestVersion < MaxVersion
  /\ LET asked == {c \in Clients : command[c] = "reloading" /\ answer[c] = NoAnswer} IN
     /\ t = "server" => asked # {}
     /\ \E v \in {latestVersion + 1} \cup
               {w \in {latestVersion} : reload[Other(t)].phase = "load" /\ reload[Other(t)].conf.version = w} :
        /\ latestVersion' = v
        /\ reload' = [reload EXCEPT ![t] =
             [Idle EXCEPT !.phase = "load", !.conf = [Blank EXCEPT !.version = v],
                          !.for = IF t = "server" THEN CHOOSE c \in asked : TRUE ELSE None]]
  /\ overlapped' = (overlapped \/ reload[Other(t)].phase # "idle")
  /\ early' = (early \/ local["server"].version = 0)
  /\ UNCHANGED <<shared, local, slots, templates, command,
                 answer, behind>>

\* Mutant: the new configuration keeps the number of the one it replaces.
LoadFileSame(t, i) ==
  LET c == [Loads[i] EXCEPT !.version = shared.version] IN
  /\ reload[t].phase = "load" /\ c.state = "good"
  /\ reload' = [reload EXCEPT ![t] = [@ EXCEPT !.phase = "store", !.conf = c]]
  /\ UNCHANGED <<latestVersion, shared, local, slots, templates, command, answer,
                 behind, overlapped, early>>

\* Load: the file, as the administrator has left it, is read and checked; a ConfigError
\* leaves everything as it was.
LoadFile(t, i) ==
  LET c == [Loads[i] EXCEPT !.version = reload[t].conf.version] IN
  /\ reload[t].phase = "load"
  /\ reload' = [reload EXCEPT ![t] =
        IF c.state = "good" THEN [@ EXCEPT !.phase = "store", !.conf = c]
        ELSE [@ EXCEPT !.phase = "templates", !.result = "fail", !.conf = Blank]]
  /\ UNCHANGED <<latestVersion, shared, local, slots, templates, command,
                 answer, behind, overlapped, early>>

\* UpdateShared: the pointer is replaced under the lock, whatever it was ...
UpdateShared(t) ==
  /\ reload[t].phase = "store"
  /\ shared' = reload[t].conf
  /\ reload' = [reload EXCEPT ![t].phase = "slots", ![t].slot = 1, ![t].conf = Blank]
  /\ behind' = [c \in Clients |-> TRUE]
  /\ UNCHANGED <<latestVersion, local, slots, templates, command,
                 answer, overlapped, early>>

\* ... and updated() calls the slots in the order they were connected, each of
\* which takes its settings from Get on this thread.
Slot(t) ==
  LET r == reload[t] IN
  /\ r.phase = "slots"
  /\ slots' = [slots EXCEPT ![r.slot] = Get(t).version]
  /\ local' = [local EXCEPT ![t] = Get(t)]
  /\ reload' = [reload EXCEPT ![t] = IF r.slot = Len(Slots) THEN [r EXCEPT !.phase = "templates", !.slot = 0]
                                     ELSE [r EXCEPT !.slot = @ + 1]]
  /\ UNCHANGED <<latestVersion, shared, templates, command, answer,
                 behind, overlapped, early>>

\* text::Factory::Initialize replaces the instance only when every template could
\* be parsed; a directory that cannot be opened is reported by a result nobody looks at.
InitTemplates(t, textdir) ==
  /\ reload[t].phase = "templates"
  /\ local' = [local EXCEPT ![t] = Get(t)]
  /\ templates' = IF textdir = "good" THEN [version |-> Get(t).version, dir |-> "good"] ELSE templates
  /\ reload' = [reload EXCEPT ![t] = IF t = "signals" THEN Idle
                                     ELSE [@ EXCEPT !.phase = IF textdir = "bad" THEN "checkbad" ELSE "check"]]
  /\ UNCHANGED <<latestVersion, shared, slots, command, answer,
                 behind, overlapped, early>>

\* StopStartCheck compares the shared configuration with the copy of the server
\* thread; what it finds replaces the result of the load.
Reply ==
  LET r == reload["server"]
      stop == StopStart(shared, Get("server"))
  IN /\ r.phase \in {"check", "checkbad"}
     /\ answer' = [answer EXCEPT ![r.for] =
          [config |-> IF stop THEN "stopstart" ELSE r.result, 
           templates |-> IF r.phase = "checkbad" THEN "fail" ELSE "okay",
           current |-> StopStart(shared, First)]]
     /\ reload' = [reload EXCEPT !["server"] = Idle]
     /\ UNCHANGED <<latestVersion, shared, local, slots, templates,
                    command, behind, overlapped, early>>

Next ==
  \/ Reply
  \/ \E c \in Clients : Accept(c) \/ Command(c) \/ RELOADCommand(c)
  \/ \E t \in Reloaders : \/ StartLoad(t) \/ UpdateShared(t) \/ Slot(t)
                            \/ \E i \in DOMAIN Loads : LoadFile(t, i)
                            \/ \E d \in TextDirs : InitTemplates(t, d)

Spec == Init /\ [][Next]_configVars

-----------------------------------------------------------------------------
\* Every published configuration comes from a file that was read to its end, has the
\* settings SanityCheck requires and satisfies the assertion of Database::URL: hosts,
\* and a replica set when there are several.
PublishedIsComplete ==
  Complete(shared) /\ \A t \in Threads : local[t].version # 0 => Complete(local[t])

\* Once a client has finished a command after the last publication it works with the
\* published configuration, unless two threads reloaded at the same time.
ClientsFollow ==
  ~overlapped => \A c \in Clients :
    command[c] # "none" /\ ~behind[c] /\ local[c].version # 0 => local[c] = shared

\* The allocators and the umask never come from two configurations: when no reload is
\* under way, and none overlapped another, the five slots of updated() agree.
SlotsAgree ==
  (~overlapped /\ \A t \in Reloaders : reload[t].phase # "slots") =>
    \A i, j \in DOMAIN Slots : slots[i] = slots[j]

\* A reload the reply calls complete leaves no setting behind that only a restart
\* applies, provided the server thread took its copy before the first reload.
RestartTold ==
  ~early => \A c \in Clients : answer[c] # NoAnswer /\ answer[c].current => answer[c].config = "stopstart"

\* A complete configuration is published, every part of the server follows it,
\* and the operator is told of what does not.
ConfigFollowed == PublishedIsComplete /\ ClientsFollow /\ SlotsAgree /\ RestartTold
=============================================================================
