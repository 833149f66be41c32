-------------------------- MODULE MCColumnComments --------------------------
(***************************************************************************)
(* ColumnComments for TLC: up to three channels in one or two files, two   *)
(* folds with two spellings of one of them, a name with a "#", none, with  *)
(* and without samples and units.  The maps rename, convert, make two      *)
(* channels one column, repeat a channel, stand in a file, or have a       *)
(* mistake.                                                                *)
(***************************************************************************)
EXTENDS ColumnComments

MCWords ==
  {"", "speed", "rpm", "lap", "ground", "u", "w", "g", "per", "s", "m/s",
   "0", "2", "3.6", "junk", "oreca07.map", "unreadable.map", "missing.map"}

Word(word) == Token("word", word)

Name(words, spelling) ==
  [fold |-> [i \in DOMAIN words |-> <<"word", words[i]>>],
   form |-> [i \in DOMAIN words |-> spelling]]

Ground == Name(<<"ground", "speed">>, 1)

MCNames == {Name(<<"speed">>, 1), Name(<<"speed">>, 2), Name(<<"rpm">>, 1),
            NameOf(<<>>), NameOf(<<Word("lap"), Token("#", "")>>)}

MCChannels ==
  [name : MCNames, samples : {0, 2}, duration : {2}, unit : {<<"u">>, NoUnit}]

MCFileLists ==
  {<<<<c>>>> : c \in MCChannels}
    \cup {<<<<c, d>>>> : c \in MCChannels, d \in MCChannels}
    \cup {<<<<c>>, <<d>>>> : c \in MCChannels, d \in MCChannels}
    \cup {<<<<c, d>>, <<e>>>> :
            c \in MCChannels, d \in MCChannels,
            e \in {x \in MCChannels : x.name.form = <<1>> /\ x.unit # NoUnit}}

MCFilters ==
  {{}, {Name(<<"speed">>, 1).fold}, {Ground.fold},
   {Name(<<"rpm">>, 1).fold, Ground.fold}}

Arrow == Token("->", "")
Rename == TokensOf(Name(<<"speed">>, 2)) \o <<Arrow>> \o TokensOf(Ground)
Convert == <<Word("speed"), Arrow, Token("unit", "w"), Token("*", "3.6")>>
Merge == <<Word("rpm"), Arrow>> \o TokensOf(Ground) \o <<Token("unit", "w")>>

MCTexts ==
  {<<>>, <<Rename>>, <<Convert>>,
   <<<<>>, Convert \o <<Token("#", ""), Word("m/s")>>, Merge>>,
   <<Rename, Merge>>,
   <<Rename, Convert>>,                            \* two rules for a channel
   <<<<Word("speed"), Arrow, Token("[", "w"), Word("ground")>>>>,
   <<<<Word("speed"), Arrow, Token("[", "g"), Word("per"), Token("unit", "s")>>>>,
   <<<<Word("speed"), Arrow, Token("*", "0")>>>>,
   <<<<Word("speed"), Arrow, Token("*", "0"), Token("*", "2"),
       Token("+", "junk")>>>>,
   <<<<Arrow, Word("ground")>>>>,
   <<<<Word("oreca07.map")>>>>,                    \* a file
   <<<<Word("unreadable.map")>>>>,
   <<<<Word("missing.map")>>>>}                    \* a rule, then

MCMapFiles == NameOf(<<Word("oreca07.map")>>) :> <<Rename, Merge>>
                @@ NameOf(<<Word("unreadable.map")>>) :> Malformed

=============================================================================
