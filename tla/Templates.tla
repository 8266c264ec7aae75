------------------------------ MODULE Templates ------------------------------
(***************************************************************************)
(* The template files of replies: the parser's state machine, one          *)
(* character a step (src/text/parser.cpp), the tags of a section and their *)
(* filters (src/text/templatesection.cpp, tag.cpp), and the compilation of *)
(* a section with the values of the moment.                                *)
(*                                                                         *)
(* A file is the writing of an outline: blocks with pieces of text, line   *)
(* ends, escaped braces and tags.  Letters, numbers and names are single   *)
(* symbols; the characters the parser looks at are themselves.             *)
(***************************************************************************)
EXTENDS Integers, Sequences, SequencesExt, FiniteSets

CONSTANTS
  Outlines,   \* the files, as sequences of [block, pieces]
  Included,   \* the characters of a file that others include
  Values      \* the value registered for each tag name

VARIABLES
  outline,    \* the file that is parsed (never changes)
  crlf,       \* its lines end in CR LF
  rest,       \* the characters not read yet
  parser,     \* state, block, buffer and var of TemplateBuffer
  sections,   \* the template: buffer and tags of head, body and foot
  malformed   \* TemplateMalform was thrown

templateVars == <<outline, crlf, rest, parser, sections, malformed>>

Blocks == <<"head", "body", "foot">>

\* How a template file is written: every block marker on a line of its own,
\* {{name|filter}} for a tag.
LineEnd == IF crlf THEN <<"CR", "LF">> ELSE <<"LF">>
WritePiece(p) ==
  CASE p.kind = "escape" -> <<"\\", p.c>>
    [] p.kind = "tag" -> <<"{", "{", " ", p.c>> \o
         (IF p.filter = "none" THEN <<>> ELSE <<"|", p.filter>>) \o <<"}", "}">>
    [] p.kind = "include" ->
         <<"{", "%", " ", "include", " ", p.c, " ", "%", "}">> \o LineEnd
    [] p.kind = "text" /\ p.c = "LF" -> LineEnd
    [] OTHER -> <<p.c>>
WriteBlock(b) ==
  <<"{", "%", " ", b.block, " ", "%", "}">> \o LineEnd
  \o FlattenSeq([i \in DOMAIN b.pieces |-> WritePiece(b.pieces[i])])
  \o <<"{", "%", " ", "endblock", " ", "%", "}">> \o LineEnd
Written(o) == FlattenSeq([i \in DOMAIN o |-> WriteBlock(o[i])])

NewParser == [state |-> "None", block |-> "head", buffer |-> <<>>, var |-> <<>>]

Init ==
  /\ outline \in Outlines
  /\ crlf \in BOOLEAN
  /\ rest = Written(outline)
  /\ parser = NewParser
  /\ sections = [b \in ToSet(Blocks) |-> [buffer |-> <<>>, tags |-> <<>>]]
  /\ malformed = FALSE

\* util::Trim, and util::Split by the separator into its words.
Words(var) == SelectSeq(var, LAMBDA c : c \notin {" ", "|"})

Stay(p) ==
  parser' = p /\ rest' = Tail(rest) /\ UNCHANGED <<sections, malformed>>
Throw == malformed' = TRUE /\ UNCHANGED <<parser, sections, rest>>
GoTo(state) == Stay([parser EXCEPT !.state = state])

\* ParseBlock: the buffer becomes the text of the block, the parser starts over.
ParseBlock ==
  /\ sections' = [sections EXCEPT ![parser.block].buffer = parser.buffer]
  /\ parser' = [NewParser EXCEPT !.state = "Skip"]

\* ParseInclude: the characters of the file go through the same parser, at whose
\* end the state is set, as after every marker, to skip to the end of the line.
ParseInclude ==
  /\ parser' = [parser EXCEPT !.state = "None", !.var = <<>>]
  /\ rest' = Included \o <<"EOF">> \o Tail(rest)
  /\ UNCHANGED <<sections, malformed>>

ParseLogic ==
  LET word == Words(parser.var)
  IN \/ Len(word) = 2 /\ word[1] = "include" /\ ParseInclude
     \/ /\ word = <<"endblock">>
        /\ ParseBlock
        /\ rest' = Tail(rest)
        /\ UNCHANGED malformed
     \/ /\ Len(word) = 1 /\ word[1] \in ToSet(Blocks)
        /\ Stay([state |-> "Skip", block |-> word[1], buffer |-> <<>>, var |-> <<>>])
     \/ /\ Len(word) # 1 \/ word[1] \notin ToSet(Blocks) \cup {"endblock"}
        /\ Len(word) # 2 \/ word[1] # "include"
        /\ Throw

\* RegisterTag: every occurrence of a tag is a tag of its own, with its filter.
Filters == {"upper", "kb", "mb", "gb", "auto"}
NewTag(word) == [name |-> word[1], filters |-> Tail(word)]
Registered(word) ==
  /\ sections' = [sections EXCEPT ![parser.block].tags = Append(@, NewTag(word))]
  /\ rest' = Tail(rest)
  /\ UNCHANGED malformed
Marked(word) ==
  [parser EXCEPT !.state = "Close",
                 !.buffer = @ \o <<"{", "{", word[1], "}", "}">>]

\* Mutant: var is not cleaned up.
ParseFilterKeepsVar ==
  LET word == Words(parser.var)
  IN IF word # <<>> /\ ToSet(Tail(word)) \subseteq Filters
     THEN parser' = Marked(word) /\ Registered(word)
     ELSE Throw

ParseFilter ==
  LET word == Words(parser.var)
  IN IF word # <<>> /\ ToSet(Tail(word)) \subseteq Filters
     THEN parser' = [Marked(word) EXCEPT !.var = <<>>] /\ Registered(word)
     ELSE Throw

Store(p, c) ==
  IF p.state \in {"ReadLogic", "ReadFilter"}
  THEN [p EXCEPT !.var = Append(@, c)] ELSE [p EXCEPT !.buffer = Append(@, c)]

\* ParseChar.  A backslash outside of state None falls through to the case of
\* the opening brace.
ParseChar(p, c) ==
  CASE c = "CR" -> Stay(p)
    [] c = "\\" /\ p.state = "None" -> Stay([p EXCEPT !.state = "Escape"])
    [] c \in {"{", "\\"} /\ (c = "{" \/ p.state # "None") ->
         Stay([p EXCEPT !.state = IF p.state = "Open" THEN "ReadFilter" ELSE "Open"])
    [] c = "%" /\ p.state = "ReadLogic" -> ParseLogic
    [] c = "%" /\ p.state = "Open" -> Stay([p EXCEPT !.state = "ReadLogic"])
    [] c = "}" /\ p.state = "ReadFilter" -> ParseFilter
    [] OTHER -> Stay(Store(p, c))

AfterSkip(c) ==
  IF c = "LF" THEN GoTo("None") ELSE ParseChar([parser EXCEPT !.state = "None"], c)

\* ParseState, for the next character.
ParseState(c) ==
  CASE c = "EOF" -> GoTo("Skip")
    [] c # "EOF" /\ parser.state = "Escape" ->
         Stay([parser EXCEPT !.buffer = Append(@, c), !.state = "None"])
    [] parser.state = "Skip" /\ c \in {"CR", "}", " "} -> Stay(parser)
    [] parser.state = "Skip" /\ c \notin {"CR", "}", " ", "EOF"} -> AfterSkip(c)
    [] parser.state = "Close" /\ c # "EOF" -> IF c = "}" THEN GoTo("None") ELSE Throw
    [] OTHER -> ParseChar(parser, c)

Parse ==
  /\ rest # <<>>
  /\ ~malformed
  /\ ParseState(Head(rest))
  /\ UNCHANGED <<outline, crlf>>

Next == Parse

Spec == Init /\ [][Next]_templateVars

-----------------------------------------------------------------------------
(* Tags and compilation. *)

Kilo == 1024

\* CompileDouble: the number, in hundredths, and its unit; the cases of GB and
\* MB fall through.  Negative sizes are converted by their magnitude.
CompileDouble(tag, kb) ==
  LET last(S) == {i \in DOMAIN tag.filters : tag.filters[i] \in S}
      unit == IF last({"kb", "mb", "gb", "auto"}) = {} THEN "kb"
              ELSE tag.filters[CHOOSE i \in last({"kb", "mb", "gb", "auto"}) :
                       \A j \in last({"kb", "mb", "gb", "auto"}) : j <= i]
      size == IF kb < 0 THEN 0 - kb ELSE kb
      auto == IF size < Kilo THEN <<kb * 100, "KB">>
              ELSE IF size < Kilo * Kilo THEN <<(kb * 100) \div Kilo, "MB">>
              ELSE <<((kb \div Kilo) * 100) \div Kilo, "GB">>
  IN CASE unit = "kb" -> <<kb * 100, "">>
       [] unit = "mb" -> <<(kb * 100) \div Kilo, "">>
       [] unit = "gb" -> <<((kb \div Kilo) * 100) \div Kilo, "">>
       [] unit = "auto" -> auto

\* Compile of a tag: one symbol for what it shows, by its kind of value.
CompileTag(tag) ==
  IF tag.name \notin DOMAIN Values THEN <<>>
  ELSE IF Values[tag.name].size
  THEN <<ToString(CompileDouble(tag, Values[tag.name].v))>>
  ELSE IF "upper" \in ToSet(tag.filters) THEN <<Values[tag.name].upper>>
  ELSE <<Values[tag.name].v>>

ReplaceFirst(s, tag) ==
  ReplaceFirstSubSeq(CompileTag(tag), <<"{", "{", tag.name, "}", "}">>, s)

TrimLineEnds(s) ==
  SubSeq(s, 1, Cardinality({i \in DOMAIN s :
                  \E j \in i .. Len(s) : s[j] # "LF"}))

\* TemplateSection::Compile: the tags in turn, and no line end after the foot.
Compile(block) ==
  LET compiled == FoldLeft(ReplaceFirst, sections[block].buffer, sections[block].tags)
  IN IF block = "foot" THEN TrimLineEnds(compiled) ELSE compiled

\* What the author of the file wrote: the pieces in order, each tag shown by its
\* own filters.
Shown(p) ==
  CASE p.kind = "tag" ->
         CompileTag([name |-> p.c, filters |-> IF p.filter = "none" THEN <<>>
                                               ELSE <<p.filter>>])
    [] p.kind = "include" -> Included
    [] OTHER -> <<p.c>>
Meant(block) ==
  LET of == SelectSeq(outline, LAMBDA b : b.block = block)
      text == IF of = <<>> THEN <<>>
              ELSE FlattenSeq([i \in DOMAIN of[1].pieces |-> Shown(of[1].pieces[i])])
  IN IF block = "foot" THEN TrimLineEnds(text) ELSE text

\* Escaped braces around a name are in the buffer what a tag leaves there.
LooksLikeTag(b) ==
  \E i \in DOMAIN b.pieces : b.pieces[i].kind = "escape" /\ b.pieces[i].c = "{"

(* Every block of a well-formed file shows what was written: text, escaped *)
(* characters and line ends are kept, and each occurrence of a tag is      *)
(* shown with its own filter, also when a name occurs twice                *)
(* (parser.cpp:71-174, templatesection.cpp:24-97).  Excused: blocks with   *)
(* escaped opening braces.                                                 *)
RendersAsWritten ==
  (rest = <<>> /\ ~malformed) =>
    \A i \in DOMAIN outline :
      LooksLikeTag(outline[i]) \/
        Compile(outline[i].block) = Meant(outline[i].block)

(* A file is refused exactly when one of its markers or filters is not of  *)
(* the language: no tag, escape, line end or include before it makes the       *)
(* parser misread a marker or a closing brace (parser.cpp:86-90, 194-238). *)
RefusedIfForeign ==
  LET foreign == \E i \in DOMAIN outline :
        \/ outline[i].block \notin ToSet(Blocks)
        \/ \E p \in ToSet(outline[i].pieces) : p.filter \notin Filters \cup {"none"}
  IN /\ malformed => foreign
     /\ rest = <<>> => ~foreign /\ parser.var = <<>> /\ parser.state = "None"

\* A file of the language shows what was written, any other is refused.
ReadsAsWritten == RendersAsWritten /\ RefusedIfForeign
=============================================================================
