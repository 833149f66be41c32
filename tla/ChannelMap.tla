----------------------------- MODULE ChannelMap -----------------------------
(***************************************************************************)
(* How the argument `channel_map` becomes a channel map: named_channel_map *)
(* takes it for a path or for rules, ChannelMap::parse reads one rule a    *)
(* line.  A text is a sequence of lines and a line a sequence of tokens    *)
(* [kind, text, form]:                                                     *)
(*   "word"         a word; `form` is its spelling, as in WideSchema        *)
(*   "->", "#"      as they stand                                          *)
(*   "unit", "["    [text], or the last word before a closing bracket, and *)
(*                  the first behind an opening one                        *)
(*   "*", "+"       a number behind one of these signs                     *)
(* A name is the words it is made of; so is a unit.                        *)
(***************************************************************************)
EXTENDS WideSchema

CONSTANTS
  Words,     \* what a word, a unit or a number may be
  MapFiles,  \* the rules files on disk: from names to texts or Malformed
  Malformed  \* the error of parse, or of a file that cannot be read

Kinds == {"word", "->", "#", "unit", "[", "*", "+"}

Tokens == [kind : Kinds, text : Words, form : Nat]

(* The first token of some kinds, or the place behind the last one.        *)
First(line, kinds) ==
  Min({i \in DOMAIN line : line[i].kind \in kinds} \cup {Len(line) + 1})

NameOf(tokens) ==
  [fold |-> [i \in DOMAIN tokens |-> <<tokens[i].kind, tokens[i].text>>],
   form |-> [i \in DOMAIN tokens |-> tokens[i].form]]

TokensOf(name) ==
  [i \in DOMAIN name.fold |->
     [kind |-> name.fold[i][1], text |-> name.fold[i][2], form |-> name.form[i]]]

(* raw.split_once('#')                                                     *)
Uncommented(line) == SubSeq(line, 1, First(line, {"#"}) - 1)

(* line.split_once("->"): without an arrow the whole line is the source.   *)
Source(line) == SubSeq(line, 1, First(line, {"->"}) - 1)
Rest(line) == SubSeq(line, First(line, {"->"}) + 1, Len(line))

(* The unit goes from the first bracket to the first that closes it.       *)
Open(rest) == First(rest, {"unit", "["})
Close(rest) ==
  Min({i \in Open(rest) .. Len(rest) : rest[i].kind = "unit"} \cup {Len(rest) + 1})

Others(rest) ==
  SubSeq(rest, 1, Open(rest) - 1) \o SubSeq(rest, Close(rest) + 1, Len(rest))

(* What is not a number is refused wherever it stands; of several numbers  *)
(* the last counts, and must be finite and, as a scale, not zero.          *)
BadNumber(rest, sign, refused) ==
  LET tokens  == Others(rest)
      numbers == {i \in DOMAIN tokens : tokens[i].kind = sign}
  IN  /\ numbers # {}
      /\ \/ \E i \in numbers : tokens[i].text = "junk"
         \/ tokens[Max(numbers)].text \in refused

(* What is not a number is a word of the target.                           *)
PushWord(words, token) ==
  IF token.kind \in {"*", "+"} THEN words ELSE Append(words, token)

IsMalformed(line) ==
  LET rest == Rest(line)
  IN  \/ Source(line) = <<>>
      \/ Open(rest) <= Len(rest) /\ Close(rest) > Len(rest)
      \/ BadNumber(rest, "*", {"inf", "0"})
      \/ BadNumber(rest, "+", {"inf"})

(* ChannelMap::parse_rule.  The numbers go with the unit, see WideSchema.  *)
RuleOf(line) ==
  LET rest  == Rest(line)
      words == FoldLeft(PushWord, <<>>, Others(rest))
  IN  [target |-> IF words = <<>> THEN NoRule ELSE NameOf(words),
       unit   |-> IF Open(rest) > Len(rest) THEN NoRule
                  ELSE [i \in 1 .. Close(rest) - Open(rest) + 1 |->
                          rest[Open(rest) + i - 1].text]]

WithRule(map, key, rule) ==
  [k \in DOMAIN map \cup {key} |-> IF k = key THEN rule ELSE map[k]]

(* Mutant of ParseLine: of two rules for a channel the last one counts.    *)
ParseLineOverwrite(map, raw) ==
  LET line == Uncommented(raw)
      key  == NameOf(Source(line)).fold
  IN  IF map = Malformed \/ line = <<>> THEN map
      ELSE IF IsMalformed(line) THEN Malformed
      ELSE WithRule(map, key, RuleOf(line))

(* One turn of the loop of ChannelMap::parse.                              *)
ParseLine(map, raw) ==
  LET line == Uncommented(raw)
      key  == NameOf(Source(line)).fold
  IN  IF map = Malformed \/ line = <<>> THEN map
      ELSE IF IsMalformed(line) \/ key \in DOMAIN map THEN Malformed
      ELSE WithRule(map, key, RuleOf(line))

Parse(text) == FoldLeft(ParseLine, <<>>, text)

(* named_channel_map: a value without an arrow that names an existing file *)
(* is a path; a file that cannot be read fails like a malformed one.       *)
IsPath(text) == Len(text) = 1 /\ NameOf(text[1]) \in DOMAIN MapFiles

Load(text) ==
  IF ~ IsPath(text) THEN Parse(text)
  ELSE LET content == MapFiles[NameOf(text[1])]
       IN  IF content = Malformed THEN Malformed ELSE Parse(content)

=============================================================================
