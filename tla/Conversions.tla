----------------------------- MODULE Conversions -----------------------------
(***************************************************************************)
(* Pure conversions, checked over bounded inputs: endpoints to and from the  *)
(* arguments of PORT, LPRT and EPRT (util/net/ftp.cpp), paths                *)
(* (util/path/path.cpp) and chmod modes (fs/mode.cpp).  One input is chosen   *)
(* in the initial state; nothing changes.                                   *)
(***************************************************************************)
EXTENDS Integers, Sequences, FiniteSets, SequencesExt, FiniteSetsExt

CONSTANTS Bytes,      \* bytes of addresses and ports that are tried
          Numbers,    \* numbers that occur in arguments, in and out of range
          PathParts,  \* what stands between the slashes of a path
          MaxParts,   \* bound: parts of a path
          MaxClauses  \* bound: clauses of a mode

VARIABLE input

conversionVars == <<input>>

Failure == [family |-> "failure", a |-> <<>>, port |-> 0]

-----------------------------------------------------------------------------
(* Endpoints.  An argument is the sequence of the numbers in it.             *)

\* numeric_cast<uint8_t>(lexical_cast<int16_t>(..)): an exception otherwise.
IsByte(n) == n \in 0..255
V4(a, p) == [family |-> "v4", a |-> a, port |-> p[1] * 256 + p[2]]
V6(a, p) == [family |-> "v6", a |-> a, port |-> p[1] * 256 + p[2]]
PortBytes(ep) == <<ep.port \div 256, ep.port % 256>>
\* IN6_IS_ADDR_V4MAPPED.
Mapped(a) == SubSeq(a, 1, 12) = [k \in 1..12 |-> IF k > 10 THEN 255 ELSE 0]

EndpointFromPORT(s) ==
  IF Len(s) # 6 \/ ~\A k \in DOMAIN s : IsByte(s[k]) THEN Failure ELSE V4(SubSeq(s, 1, 4), SubSeq(s, 5, 6))
EndpointToPORT(ep) ==
  IF ep.family = "v4" THEN ep.a \o PortBytes(ep)
  ELSE IF Mapped(ep.a) THEN SubSeq(ep.a, 13, 16) \o PortBytes(ep) ELSE <<>>

\* The argument of LPRT: family, length of the address, address, length of the port, port.
\* Only the first character of the family is looked at.
FromLPRT(s, size) ==
  IF \/ Len(s) # size + 5 \/ ~\A k \in 2..(size + 5) : IsByte(s[k])
     \/ s[2] # size \/ s[size + 3] # 2
  THEN Failure
  ELSE LET a == SubSeq(s, 3, size + 2)
           p == SubSeq(s, size + 4, size + 5) IN IF size = 4 THEN V4(a, p) ELSE V6(a, p)
FirstDigit(n) == IF n < 0 THEN -1 ELSE IF n < 10 THEN n ELSE IF n < 100 THEN n \div 10
                 ELSE IF n < 1000 THEN n \div 100 ELSE n \div 10000
EndpointFromLPRT(s) ==
  CASE s # <<>> /\ FirstDigit(s[1]) = 4 -> FromLPRT(s, 4)
    [] s # <<>> /\ FirstDigit(s[1]) = 6 -> FromLPRT(s, 16)
    [] OTHER -> Failure
EndpointToLPRT(ep) ==
  <<IF ep.family = "v4" THEN 4 ELSE 6, Len(ep.a)>> \o ep.a \o <<2>> \o PortBytes(ep)

\* lexical_cast<uint16_t>: a minus sign is accepted, and the number wraps.
ToPort(n) == IF n \in -65535..65535 THEN n % 65536 ELSE -1
\* The argument of EPRT: family number, address, port.  The family is not compared with
\* the address.
EndpointFromEPRT(s) ==
  IF s.number \notin {1, 2} \/ ToPort(s.port) = -1 THEN Failure
  ELSE [family |-> IF Len(s.address) = 4 THEN "v4" ELSE "v6", a |-> s.address, port |-> ToPort(s.port)]
EndpointToEPRT(ep) ==
  [number |-> IF ep.family = "v4" THEN 1 ELSE 2, address |-> ep.a, port |-> ep.port]

-----------------------------------------------------------------------------
(* Paths.  A string is the sequence of what stands between its slashes:      *)
(* "/a/" is <<"", "a", "">>, the empty string <<"">>.                        *)

Empty == <<"">>
Root == <<"", "">>
Absolute(p) == Len(p) > 1 /\ p[1] = ""

TrimTrailingSlash(p) == IF Len(p) > 1 /\ Last(p) = "" /\ p # Root THEN Front(p) ELSE p

\* Empty parts are dropped, except the first and the last.
SplitSegments(p) ==
  LET kept == SelectSeq([k \in DOMAIN p |-> <<k, p[k]>>],
                        LAMBDA e : e[2] # "" \/ e[1] \in {1, Len(p)})
  IN  [k \in DOMAIN kept |-> kept[k][2]]
JoinSegments(segments) == IF segments = <<>> THEN Empty ELSE segments

\* One step of the loop of Resolve.
Climb(done, segment) ==
  CASE segment = "." -> done
    [] segment = ".." -> IF done = <<>> THEN <<>> ELSE Front(done)
    [] OTHER -> Append(done, segment)
Resolve(p) ==
  IF p = Empty THEN Empty
  ELSE LET result == JoinSegments(FoldLeft(Climb, <<>>, SplitSegments(p)))
           rooted == IF Absolute(p) /\ ~Absolute(result) THEN <<"">> \o result ELSE result
       IN  IF result = Empty THEN Root ELSE TrimTrailingSlash(rooted)

\* util::path::Join and Append.
JoinPaths(p, q) ==
  CASE p = Empty -> q [] q = Empty -> p [] Absolute(q) -> q
    [] OTHER -> (IF Last(p) = "" THEN Front(p) ELSE p) \o q
AppendPaths(p, q) ==
  LET p0 == IF Last(p) = "" THEN Front(p) ELSE p
      q0 == IF Last(q) = "" THEN Front(q) ELSE q
      both == p0 \o (IF Absolute(q) THEN Tail(q0) ELSE q0)
  IN  CASE p = Empty -> q [] q = Empty -> p [] both \in {<<>>, Empty} -> Root [] OTHER -> both

\* util::path::Relative.
Relative(work, p) ==
  LET w == SplitSegments(work)
      s == SplitSegments(p)
      maxLen == Min({Len(w), Len(s) - 1})
      same == Max({0} \cup {i \in 1..maxLen : \A j \in 1..i : w[j] = s[j]})
      result == [k \in 1..(Len(w) - same) |-> ".."] \o SubSeq(s, same + 1, Len(s))
  IN  CASE p = Empty -> Empty [] ~Absolute(p) -> p
        [] work = Root -> (IF p = Root THEN Empty ELSE Tail(p)) [] OTHER -> JoinSegments(result)

-----------------------------------------------------------------------------
(* Modes: sets of <<who, bit>>.  A mode string is a sequence of characters.   *)

Who == {"u", "g", "o"}
Bits == {"r", "w", "x"}
OfWho(w) == (IF w = "a" THEN Who ELSE {w}) \X Bits
OfBit(b) == Who \X {b}
Operators == {"+", "-", "="}
Invalid == <<[op |-> "invalid", copy |-> FALSE, affected |-> {}, value |-> {}]>>

\* The longest run of characters of a set, from position i: where it ends.
RunEnd(str, i, set) ==
  Min({j \in i..(Len(str) + 1) : j > Len(str) \/ str[j] \notin set})
Chars(str, i, j) == {str[k] : k \in i..(j - 1)}

\* What follows an operator at position i: the value, and the position after it.
CompileValue(str, i) ==
  IF i <= Len(str) /\ str[i] \in Who
  THEN [copy |-> TRUE, value |-> OfWho(str[i]), at |-> i + 1]
  ELSE LET j == RunEnd(str, i, Bits)
       IN  [copy |-> FALSE, value |-> UNION {OfBit(b) : b \in Chars(str, i, j)}, at |-> j]

\* CompileSymbolicMode from position i: state "who" at the begin of a clause, "op" where an
\* operator must stand, "more" after one.
CompileSymbolicMode(str) ==
  LET n == Len(str)
      parse[i \in 1..(n + 1), state \in {"who", "op", "more"}, affected \in SUBSET (Who \X Bits)] ==
        CASE state = "who" /\ i > n -> <<>>
          [] state = "who" /\ i <= n ->
               LET j == RunEnd(str, i, Who \cup {"a"})
               IN  parse[j, "op", UNION {OfWho(w) : w \in Chars(str, i, j)}]
          [] state = "op" /\ (i > n \/ (i <= n /\ str[i] \notin Operators)) -> Invalid
          [] state = "more" /\ i > n -> <<>>
          [] state = "more" /\ i <= n /\ str[i] = "," -> parse[i + 1, "who", {}]
          [] state = "more" /\ i <= n /\ str[i] \notin Operators \cup {","} -> Invalid
          [] OTHER ->
               LET v == CompileValue(str, i + 1)
               IN  <<[op |-> str[i], copy |-> v.copy, affected |-> affected, value |-> v.value]>>
                     \o parse[v.at, "more", affected]
  IN  IF str = <<>> THEN Invalid ELSE parse[1, "who", {}]

\* Mutant: "=" adds only.
ApplyChangeAdds(mode, umask, c) ==
  LET value == IF c.affected # {} THEN c.value \cap c.affected ELSE c.value \ umask
  IN  IF c.op = "-" THEN mode \ value ELSE mode \cup value
\* One change of Mode::Apply.
ApplyChange(mode, umask, c) ==
  LET copied == {e \in Who \X Bits : \E w \in Who : <<w, e[2]>> \in c.value \cap mode}
      given  == IF c.copy THEN copied ELSE c.value
      value  == IF c.affected # {} THEN given \cap c.affected ELSE given \ umask
  IN  CASE c.op = "=" -> (mode \ c.affected) \cup value
        [] c.op = "+" -> mode \cup value
        [] c.op = "-" -> mode \ value
Apply(changes, mode, umask) == FoldLeft(LAMBDA m, c : ApplyChange(m, umask, c), mode, changes)

-----------------------------------------------------------------------------
(* The inputs.                                                              *)

V6Prefixes == {[k \in 1..12 |-> IF k > 10 THEN 255 ELSE 0], [k \in 1..12 |-> 1]}
Endpoints ==
  {[family |-> "v4", a |-> <<b, 0, c, 1>>, port |-> p * 256 + q] : b, c, p, q \in Bytes} \cup
  {[family |-> "v6", a |-> x \o <<b, 0, 0, 1>>, port |-> p * 256 + q] : x \in V6Prefixes, b, p, q \in Bytes}
Paths == UNION {[1..n -> PathParts] : n \in 1..MaxParts}
Whos == {<<>>, <<"a">>, <<"u">>, <<"g", "o">>}
Values == {<<>>, <<"r">>, <<"w", "x">>, <<"u">>, <<"o">>}
Clauses == [who : Whos, op : Operators, value : Values]

Init ==
  \/ \E ep \in Endpoints : input = [kind |-> "endpoint", ep |-> ep]
  \/ \E n \in 5..7, x, y, z \in Numbers :
       input = [kind |-> "argument", s |-> [k \in 1..n |-> IF k = 1 THEN x ELSE IF k = n THEN y ELSE z]]
  \/ \E p \in Paths : input = [kind |-> "path", p |-> p]
  \/ \E n \in 1..MaxClauses : \E cs \in [1..n -> Clauses] : input = [kind |-> "mode", cs |-> cs]

Next == FALSE /\ UNCHANGED input
Spec == Init /\ [][Next]_conversionVars

-----------------------------------------------------------------------------
\* An endpoint the server announces is understood as itself: 227, 228 and 229 replies are
\* read back by the parsers of PORT, LPRT and EPRT.  A mapped address is announced as v4.
EndpointRoundTrip ==
  input.kind = "endpoint" =>
    LET ep == input.ep
        port == EndpointToPORT(ep) IN
    /\ port # <<>> => EndpointFromPORT(port) = [family |-> "v4", a |-> SubSeq(ep.a, Len(ep.a) - 3, Len(ep.a)), port |-> ep.port]
    /\ port = <<>> <=> ep.family = "v6" /\ ~Mapped(ep.a)
    /\ EndpointFromLPRT(EndpointToLPRT(ep)) = ep
    /\ EndpointFromEPRT(EndpointToEPRT(ep)) = ep

\* Whatever a client sends, an argument of PORT or LPRT is refused or names an endpoint with
\* bytes in range, and one that names an endpoint is the argument the server would announce
\* for it.
ArgumentExact ==
  input.kind = "argument" =>
    LET ep == EndpointFromPORT(input.s)
        lp == EndpointFromLPRT(<<4, 4, 10>> \o input.s) IN
    /\ ep # Failure => EndpointToPORT(ep) = input.s
    /\ lp # Failure => EndpointToLPRT(lp) = <<4, 4, 10>> \o input.s

\* The meaning of a path below the root: names, each ".." taking one away.
Names(p) ==
  FoldLeft(LAMBDA d, x : CASE x \in {"", "."} -> d
                           [] x = ".." -> (IF d = <<>> THEN d ELSE Front(d))
                           [] OTHER -> Append(d, x), <<>>, p)
Rooted(names) == IF names = <<>> THEN Root ELSE <<"">> \o names

\* An absolute path is resolved to the root and names only, the names its parts mean: ".."
\* never climbs above the root, and resolving again changes nothing.
ResolveRight ==
  input.kind = "path" /\ Absolute(input.p) =>
    /\ Resolve(input.p) = Rooted(Names(input.p))
    /\ Resolve(Resolve(input.p)) = Resolve(input.p)
    /\ AppendPaths(<<"", "site">>, Resolve(input.p)) = <<"", "site">> \o Names(input.p)

\* The relative path shown for an absolute one leads back to it from the work directory.
RelativeLeadsBack ==
  input.kind = "path" /\ Absolute(input.p) =>
    \A work \in {Root, <<"", "a">>, <<"", "a", "b">>, <<"", "b", "a">>} :
      LET p == Resolve(input.p) IN
      Resolve(JoinPaths(work, Relative(work, p))) = p

\* The characters of a mode, and what chmod makes of it: coreutils, from which the code says
\* it is derived.
Render(cs) ==
  FoldLeft(LAMBDA s, c : s \o (IF s = <<>> THEN <<>> ELSE <<",">>) \o c.who \o <<c.op>> \o c.value, <<>>, cs)
Chmod(mode, umask, c) ==
  LET who == UNION {OfWho(w) : w \in ToSet(c.who)}
      copy == c.value # <<>> /\ c.value[1] \in Who
      bits == IF copy THEN {b \in Bits : <<c.value[1], b>> \in mode} ELSE ToSet(c.value)
      value == (Who \X bits) \cap (IF who = {} THEN (Who \X Bits) \ umask ELSE who)
  IN  CASE c.op = "=" -> (IF who = {} THEN {} ELSE mode \ who) \cup value
        [] c.op = "+" -> mode \cup value [] c.op = "-" -> mode \ value
SomeUmask == {<<"g", "w">>, <<"o", "w">>}
Modes == {Who \X Bits, Who \X {"r"}, {"u"} \X Bits, {<<"o", "x">>}}

\* A symbolic mode sets the bits chmod would set, for every mode a file may have, unless an
\* "=" names nobody: the bits are then kept that chmod would clear.
ModeAsChmod ==
  input.kind = "mode" /\ (\A k \in DOMAIN input.cs : input.cs[k].op # "=" \/ input.cs[k].who # <<>>) =>
    \A m \in Modes :
      Apply(CompileSymbolicMode(Render(input.cs)), m, SomeUmask)
        = FoldLeft(LAMBDA d, c : Chmod(d, SomeUmask, c), m, input.cs)

\* Endpoints, paths and modes are converted as their definitions say.
ConversionsExact ==
  EndpointRoundTrip /\ ArgumentExact /\ ResolveRight /\ RelativeLeadsBack /\ ModeAsChmod
=============================================================================
