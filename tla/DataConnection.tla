--------------------------- MODULE DataConnection ---------------------------
(***************************************************************************)
(* The data connection of a client (ftp/data.cpp), the commands that       *)
(* prepare it (PASV, EPSV, LPSV, CPSV, PORT, PROT, AUTH, SSCN, REST) and   *)
(* the allocators of ports and addresses that all clients share.           *)
(*                                                                         *)
(* An address is a record of a name and a family, a peer is the client     *)
(* itself or another site (an FXP transfer).  The loops of InitPassive     *)
(* take one step for each call of an allocator, so that the loops of two   *)
(* clients interleave.  The allocators of active connections are other     *)
(* instances of the same templates: InitActive connects or fails.          *)
(***************************************************************************)
EXTENDS Integers, Sequences

CONSTANTS
  Clients,
  Family,         \* family of the control connection of each client
  PortConfigs,    \* values of pasv_ports: sequences of [from, to]
  AddrConfigs,    \* values of pasv_addr: sequences of [name, fam]
  FxpDown, FxpUp, \* clients for which allow_fxp says yes
  TLSListing, TLSFxp, TLSData, \* clients that the settings oblige to use TLS
  Plans           \* commands and clients of a behaviour, bounds: [do, who, commands, reloads]

\* Settings as cfg/setting.cpp admits them: a range has a port and none is zero.
DataAssumption ==
  /\ \A p \in PortConfigs :
       p \in Seq([from : Nat \ {0}, to : Nat]) /\ \A i \in DOMAIN p : p[i].from <= p[i].to
  /\ \A a \in AddrConfigs : a \in Seq([name : STRING, fam : {4, 6}])
  /\ Family \in [Clients -> {4, 6}]

\* Ranges that ascend, which cfg/setting.cpp does not ask for.
AscendingRanges ==
  \A p \in PortConfigs : \A i, j \in DOMAIN p : i < j => p[i].to < p[j].from

VARIABLES
  protection, pasvType, epsvMode, sscnMode, restartOffset, \* ftp::Data
  listener,  \* where each client's listener listens, or Closed
  sock,      \* each client's data socket, or Closed
  pending,   \* peers that connected to the listener
  step,      \* what each client is doing
  ports, portIt, nextPort, \* PortAllocatorImpl
  addrs, addrIt,           \* AddrAllocatorImpl
  plan, numCommands, reloads, \* commands of this behaviour, bounds
  disturbed, \* history: clients whose allocation another step overlapped
  applied,   \* history: transfers that used the offset of the last REST
  gaveUp,    \* history: "All ports exhausted" though a port was not tried
  wild,      \* history: the end of the list was read though no step overlapped
  asserted,  \* history: clients for which assert(listener.IsListening()) failed
  failed     \* history: clients whose last passive command failed

connVars == <<protection, pasvType, epsvMode, sscnMode, restartOffset, listener, sock, pending>>
allocVars == <<ports, portIt, nextPort, addrs, addrIt>>
boundVars == <<plan, numCommands, reloads>>
historyVars == <<disturbed, applied, gaveUp, wild, asserted, failed>>
dataVars == <<connVars, step, allocVars, boundVars, historyVars>>

Closed == [fam |-> 0]
Idle == [at |-> "idle"]
Default == [name |-> "local", fam |-> 0]
Local(c) == [Default EXCEPT !.fam = Family[c]]
Allocating(c) == step[c].at \in {"addr", "take", "port"}
Ready(c, cmd) ==
  /\ step[c] = Idle /\ c \notin asserted
  /\ c \in plan.who /\ cmd \in plan.do /\ numCommands < plan.commands
Count == numCommands' = numCommands + 1 /\ UNCHANGED <<plan, reloads>>
Go(c, s) == step' = [step EXCEPT ![c] = s]
\* A step of someone on a shared allocator disturbs the loops of the others.
Disturb(C) == disturbed' = disturbed \cup {d \in Clients \ C : Allocating(d)}

-----------------------------------------------------------------------------
(* PortAllocatorImpl *)

PortRange(i) == ports[i].from .. ports[i].to
ConfiguredPorts == UNION {PortRange(i) : i \in DOMAIN ports}

\* NextPort: the port, and the iterator and the next port that it leaves.
NextPort ==
  LET next == IF portIt = Len(ports) THEN 1 ELSE portIt + 1
      take(p, i) == [port |-> p, it |-> i, next |-> p + 1]
  IN  CASE ports = <<>> -> [port |-> 0, it |-> portIt, next |-> nextPort] \* AnyPort
        [] ports # <<>> /\ nextPort = 0 -> take(ports[portIt].from, portIt)
        [] ports # <<>> /\ nextPort # 0 /\ nextPort <= ports[portIt].to -> take(nextPort, portIt)
        [] OTHER -> take(ports[next].from, next)

\* SetPorts keeps nextPort, which may lie in no range of the new setting.
SetPorts ==
  /\ reloads < plan.reloads /\ reloads' = reloads + 1
  /\ \E p \in PortConfigs \ {ports} : ports' = p
  /\ portIt' = 1 /\ Disturb({})
  /\ UNCHANGED <<connVars, step, nextPort, addrs, addrIt, plan, numCommands, applied, gaveUp, wild, asserted, failed>>

SetAddrs ==
  /\ reloads < plan.reloads /\ reloads' = reloads + 1
  /\ \E a \in AddrConfigs \ {addrs} : addrs' = a
  /\ addrIt' = 1 /\ Disturb({})
  /\ UNCHANGED <<connVars, step, ports, portIt, nextPort, plan, numCommands, applied, gaveUp, wild, asserted, failed>>

-----------------------------------------------------------------------------
(* InitPassive *)

\* The connections are closed; the type is set only when it succeeds.
InitPassive(c, type) ==
  /\ Ready(c, "passive") /\ Count
  /\ sock' = [sock EXCEPT ![c] = Closed] /\ listener' = [listener EXCEPT ![c] = Closed] /\ pending' = [pending EXCEPT ![c] = {}]
  /\ Go(c, [at |-> IF type # "EPSV" \/ epsvMode[c] = "Extended" THEN "addr" ELSE "port", type |-> type,
            first |-> Default, ip |-> Default, port |-> -1, tried |-> {}])
  /\ disturbed' = disturbed \ {c}
  /\ UNCHANGED <<protection, pasvType, epsvMode, sscnMode, restartOffset, allocVars, applied, gaveUp, wild, asserted, failed>>

GiveUp(c) == Go(c, Idle) /\ failed' = failed \cup {c}

\* NextAddr without the lock: the iterator is looked at, then read and moved.
NextAddr(c) ==
  /\ step[c].at = "addr" /\ Disturb({c})
  /\ IF addrs = <<>> THEN Go(c, [step[c] EXCEPT !.at = "port"]) /\ UNCHANGED addrIt
     ELSE addrIt' = (IF addrIt > Len(addrs) THEN 1 ELSE addrIt) /\ Go(c, [step[c] EXCEPT !.at = "take"])
  /\ UNCHANGED <<connVars, ports, portIt, nextPort, addrs, boundVars, applied, gaveUp, wild, asserted, failed>>

\* Mutant: IPv4 is good for every command.
UsableIPv4(c, a) == a.fam = 4 \/ a.fam = Family[c]

Usable(c, a) == (step[c].type = "PASV" /\ a.fam = 4) \/ a.fam = Family[c]

TakeAddr(c) ==
  LET s == step[c]
      a == addrs[addrIt]
  IN
  /\ s.at = "take" /\ Disturb({c})
  /\ IF addrIt > Len(addrs) THEN wild' = (wild \/ c \notin disturbed) /\ GiveUp(c) /\ UNCHANGED addrIt
     ELSE /\ addrIt' = addrIt + 1 /\ UNCHANGED wild
          /\ IF a = s.first THEN GiveUp(c)
             ELSE /\ Go(c, [s EXCEPT !.at = IF Usable(c, a) THEN "port" ELSE "addr", !.ip = a,
                                     !.first = IF s.first = Default THEN a ELSE @])
                  /\ UNCHANGED failed
  /\ UNCHANGED <<connVars, ports, portIt, nextPort, addrs, boundVars, applied, gaveUp, asserted>>

\* FindPartnerIP: an IPv4 address of the same interface, where it has one.
PartnerIP(c, ip) == IF step[c].type = "PASV" /\ ip.fam = 6 THEN {ip, [ip EXCEPT !.fam = 4]} ELSE {ip}

BusyPorts(ip) == {listener[d].port : d \in {e \in Clients : listener[e] # Closed /\ listener[e].ip = ip}}

Listen(c) ==
  LET s == step[c]
      n == NextPort
  IN
  /\ s.at = "port" /\ Disturb({c})
  /\ portIt' = n.it /\ nextPort' = n.next
  /\ \E ip \in PartnerIP(c, IF s.ip = Default THEN Local(c) ELSE s.ip) :
       \/ /\ n.port = s.port /\ GiveUp(c)
          /\ gaveUp' = (gaveUp \/ (c \notin disturbed /\ ~(ConfiguredPorts \subseteq s.tried)))
          /\ UNCHANGED <<pasvType, listener>>
       \/ /\ n.port # s.port /\ n.port # 0 /\ n.port \in BusyPorts(ip) \* EADDRINUSE
          /\ Go(c, [s EXCEPT !.port = IF @ = -1 THEN n.port ELSE @, !.ip = ip, !.tried = @ \cup {n.port}])
          /\ UNCHANGED <<pasvType, listener, gaveUp, failed>>
       \/ /\ n.port # s.port /\ n.port \notin (BusyPorts(ip) \ {0})
          /\ listener' = [listener EXCEPT ![c] = [ip |-> ip, port |-> n.port, type |-> s.type]]
          /\ pasvType' = [pasvType EXCEPT ![c] = s.type] /\ Go(c, Idle)
          /\ failed' = failed \ {c} /\ UNCHANGED gaveUp
  /\ UNCHANGED <<protection, epsvMode, sscnMode, restartOffset, sock, pending, ports, addrs, addrIt, boundVars, applied, wild, asserted>>

\* PORT, EPRT, LPRT: the server connects at once, or cannot.
InitActive(c) ==
  /\ Ready(c, "active") /\ Count
  /\ pasvType' = [pasvType EXCEPT ![c] = "None"]
  /\ \E s \in {Closed} \cup [peer : {"own", "other"}, tls : {FALSE}] : sock' = [sock EXCEPT ![c] = s]
  /\ listener' = [listener EXCEPT ![c] = Closed] /\ pending' = [pending EXCEPT ![c] = {}]
  /\ UNCHANGED <<protection, epsvMode, sscnMode, restartOffset, step, allocVars, historyVars>>

-----------------------------------------------------------------------------
(* Settings *)

\* PROT P and C, AUTH SSL, EPSV EXTENDED and NORMAL, SSCN ON and OFF.
Settings(c) ==
  /\ Ready(c, "settings") /\ Count
  /\ \/ (\E b \in BOOLEAN : b # protection[c] /\ protection' = [protection EXCEPT ![c] = b]) /\ UNCHANGED <<epsvMode, sscnMode>>
     \/ (\E m \in {"Extended", "Normal"} : m # epsvMode[c] /\ epsvMode' = [epsvMode EXCEPT ![c] = m]) /\ UNCHANGED <<protection, sscnMode>>
     \/ (\E m \in {"Client", "Server"} : m # sscnMode[c] /\ sscnMode' = [sscnMode EXCEPT ![c] = m]) /\ UNCHANGED <<protection, epsvMode>>
  /\ UNCHANGED <<pasvType, restartOffset, listener, sock, pending, step, allocVars, historyVars>>

REST(c) ==
  /\ Ready(c, "rest") /\ Count
  /\ \E n \in {0, 1} : restartOffset' = [restartOffset EXCEPT ![c] = n]
  /\ applied' = [applied EXCEPT ![c] = 0]
  /\ UNCHANGED <<protection, pasvType, epsvMode, sscnMode, listener, sock, pending, step, allocVars, disturbed, gaveUp, wild, asserted, failed>>

-----------------------------------------------------------------------------
(* A transfer: Open, ProtectionOkay, the loop and Close *)

PeerConnects(c) ==
  /\ listener[c] # Closed /\ pending[c] = {} /\ step[c].at = "accept"
  /\ \E p \in {"own", "other"} : pending' = [pending EXCEPT ![c] = {p}]
  /\ UNCHANGED <<protection, pasvType, epsvMode, sscnMode, restartOffset, listener, sock, step, allocVars, boundVars, historyVars>>

Open(c, type) ==
  /\ Ready(c, "open") /\ Count
  /\ IF pasvType[c] # "None"
     THEN IF listener[c] # Closed THEN Go(c, [at |-> "accept", type |-> type]) /\ UNCHANGED asserted
          ELSE asserted' = asserted \cup {c} /\ UNCHANGED step
     ELSE /\ sock[c] # Closed \* else "Invalid command sequence"
          /\ Go(c, [at |-> "open", type |-> type]) /\ UNCHANGED asserted
  /\ UNCHANGED <<connVars, allocVars, disturbed, applied, gaveUp, wild, failed>>

\* A timeout, or an interrupt, ends the command.
Accept(c) ==
  /\ step[c].at = "accept"
  /\ \/ pending[c] = {} /\ Go(c, Idle) /\ UNCHANGED <<sock, pending>>
     \/ \E p \in pending[c] :
          /\ sock' = [sock EXCEPT ![c] = [peer |-> p, tls |-> FALSE]] /\ pending' = [pending EXCEPT ![c] = @ \ {p}]
          /\ Go(c, [step[c] EXCEPT !.at = "open"])
  /\ UNCHANGED <<protection, pasvType, epsvMode, sscnMode, restartOffset, listener, allocVars, boundVars, historyVars>>

IsFXP(c) == sock[c].peer = "other"

\* AllowFxpReceive and AllowFxpSend, as they are called.
AllowFxp(c, type) == c \in IF type = "Upload" THEN FxpDown ELSE FxpUp

\* Mutant: a transfer between sites falls under the setting for data.
ProtectionOkayNoFxp(c, type) ==
  protection[c] \/ c \notin IF type = "List" THEN TLSListing ELSE TLSData

ProtectionOkay(c, type) ==
  \/ protection[c]
  \/ c \notin IF type = "List" THEN TLSListing ELSE IF IsFXP(c) THEN TLSFxp ELSE TLSData

HandshakeRole(c, type) ==
  IF (sscnMode[c] = "Client" \/ pasvType[c] = "CPSV") /\ type # "List" THEN "Client" ELSE "Server"

Close(c) == sock' = [sock EXCEPT ![c] = Closed] /\ restartOffset' = [restartOffset EXCEPT ![c] = 0]

\* The rest of Open.  A handshake that fails leaves the socket as it is.
Opened(c) ==
  LET type == step[c].type IN
  /\ step[c].at = "open"
  /\ \/ /\ type # "List" /\ IsFXP(c) /\ ~AllowFxp(c, type)
        /\ sock' = [sock EXCEPT ![c] = Closed] /\ Go(c, Idle) /\ UNCHANGED <<restartOffset, applied>>
     \/ /\ protection[c] /\ (type = "List" \/ ~IsFXP(c) \/ AllowFxp(c, type))
        /\ Go(c, Idle) /\ UNCHANGED <<sock, restartOffset, applied>>
     \/ /\ type = "List" \/ ~IsFXP(c) \/ AllowFxp(c, type)
        /\ IF ProtectionOkay(c, type)
           THEN /\ sock' = [sock EXCEPT ![c].tls = protection[c]]
                /\ Go(c, [at |-> "run", type |-> type, role |-> IF protection[c] THEN HandshakeRole(c, type) ELSE "none",
                          offset |-> restartOffset[c]])
                /\ applied' = [applied EXCEPT ![c] = @ + IF type # "List" /\ restartOffset[c] # 0 THEN 1 ELSE 0]
                /\ UNCHANGED restartOffset
           ELSE Close(c) /\ Go(c, Idle) /\ UNCHANGED applied
  /\ UNCHANGED <<protection, pasvType, epsvMode, sscnMode, listener, pending, allocVars, boundVars, disturbed, gaveUp, wild, asserted, failed>>

\* The end of a transfer, whatever ends it.
Finish(c) ==
  /\ step[c].at = "run" /\ Close(c) /\ Go(c, Idle)
  /\ UNCHANGED <<protection, pasvType, epsvMode, sscnMode, listener, pending, allocVars, boundVars, historyVars>>

-----------------------------------------------------------------------------
Init ==
  /\ protection = [c \in Clients |-> FALSE] /\ pasvType = [c \in Clients |-> "None"]
  /\ epsvMode = [c \in Clients |-> "Normal"] /\ sscnMode = [c \in Clients |-> "Server"]
  /\ restartOffset = [c \in Clients |-> 0]
  /\ listener = [c \in Clients |-> Closed] /\ sock = [c \in Clients |-> Closed] /\ pending = [c \in Clients |-> {}]
  /\ step = [c \in Clients |-> Idle]
  /\ ports \in PortConfigs /\ portIt = 1 /\ nextPort = 0
  /\ addrs \in AddrConfigs /\ addrIt = 1
  /\ plan \in Plans /\ numCommands = 0 /\ reloads = 0
  /\ disturbed = {} /\ applied = [c \in Clients |-> 0] /\ gaveUp = FALSE
  /\ wild = FALSE /\ asserted = {} /\ failed = {}

Next ==
  \/ \E c \in Clients :
       \/ \E t \in {"PASV", "EPSV", "LPSV", "CPSV"} : InitPassive(c, t)
       \/ NextAddr(c) \/ TakeAddr(c) \/ Listen(c) \/ InitActive(c) \/ Settings(c) \/ REST(c)
       \/ PeerConnects(c) \/ Accept(c) \/ Opened(c) \/ Finish(c)
       \/ \E t \in {"List", "Upload", "Download"} : Open(c, t)
  \/ SetPorts \/ SetAddrs

Spec == Init /\ [][Next]_dataVars

-----------------------------------------------------------------------------
\* A passive listener has the family of the control connection, or for PASV
\* IPv4, where the address was chosen without interference (InitPassive).
Reachable ==
  \A c \in Clients : listener[c] # Closed /\ c \notin disturbed /\ listener[c].type # "PASV" => listener[c].ip.fam = Family[c]

\* Until a reload every listener has a port of pasv_ports (NextPort).
PortsConfigured ==
  \A c \in Clients : reloads = 0 /\ listener[c] # Closed /\ ports # <<>> => listener[c].port \in ConfiguredPorts

\* A client alone in its loop reports "All ports exhausted" only when it has found
\* every configured port in use, also after a reload, if the ranges ascend: of others
\* the loop may meet its first port again before it has seen them all.
NoEarlyExhaustion == ~gaveUp

\* A client alone in its loop never reads past the end of the list of addresses,
\* though NextAddr takes no lock.
NoWildRead == ~wild

\* assert(listener.IsListening()) in Open fails only after a passive command
\* that failed: it closed the listener and left the type of the last one.
AssertIfFailed == asserted \subseteq failed

\* No transfer runs in the clear that a TLS setting forbids, whatever order PROT,
\* PASV, PORT and the transfer come in (Open, ProtectionOkay).
EnforcedTLS ==
  \A c \in Clients : step[c].at = "run" /\ ~sock[c].tls =>
    c \notin IF step[c].type = "List" THEN TLSListing ELSE IF IsFXP(c) THEN TLSFxp ELSE TLSData

\* An offset given by REST applies to one file transfer (Close).
OffsetUsedOnce == \A c \in Clients : applied[c] <= 1

\* A passive command gives the client a listener it can reach on a configured
\* port, as long as there is one.
ListenerRight == Reachable /\ PortsConfigured /\ NoEarlyExhaustion /\ NoWildRead

\* A transfer opens the connection that the commands before it prepared: with TLS
\* where it is enforced, and from the offset meant for it.
OpenRight == EnforcedTLS /\ OffsetUsedOnce /\ AssertIfFailed
=============================================================================
