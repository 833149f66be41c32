-------------------------- MODULE MCFileDiscovery --------------------------
(***************************************************************************)
(* FileDiscovery for TLC: two recordings of one format, one of another and *)
(* a file of no known format; globs that overlap, alternations and literal *)
(* paths; files without a birth time, from before 1970, out of reach and   *)
(* broken; two changes while the query is bound.                           *)
(***************************************************************************)
EXTENDS FileDiscovery

MCPaths == 1 .. 4

MCFormatOf == [p \in MCPaths |-> IF p <= 2 THEN "pds" ELSE
                                 IF p = 3 THEN "motec" ELSE Unknown]

Good == [created |-> 2, modified |-> 3, reached |-> TRUE, opens |-> TRUE]

MCEntries ==
  {Absent, Good, [Good EXCEPT !.created = NoBirth], [Good EXCEPT !.created = -1],
   [Good EXCEPT !.reached = FALSE], [Good EXCEPT !.opens = FALSE]}

MCDisks ==
  {disk0 \in [MCPaths -> MCEntries] :
     disk0[3] \in {Absent, Good} /\ disk0[4] = Good}

GlobOf(paths) == [glob |-> TRUE, matches |-> paths]
Literal(p) == [glob |-> FALSE, matches |-> {p}]

MCPatterns ==
  {[candidates |-> <<GlobOf(MCPaths)>>, magic |-> TRUE],
   [candidates |-> <<GlobOf({1, 2}), GlobOf({2, 3})>>, magic |-> TRUE],
   [candidates |-> <<Literal(1), Literal(3)>>, magic |-> TRUE],
   [candidates |-> <<Literal(2)>>, magic |-> FALSE],
   [candidates |-> <<Literal(4)>>, magic |-> FALSE]}

MCArguments ==
  {[reader |-> "metadata", format |-> Any, from |-> NoArg, to |-> NoArg],
   [reader |-> "open", format |-> Any, from |-> NoArg, to |-> NoArg],
   [reader |-> "open", format |-> "pds", from |-> 1, to |-> NoArg],
   [reader |-> "open", format |-> Any, from |-> NoArg, to |-> 3],
   [reader |-> "open", format |-> Any, from |-> 3, to |-> 2],
   [reader |-> "open", format |-> "motec", from |-> 2, to |-> 3]}

MCRequests ==
  {[reader |-> a.reader, candidates |-> p.candidates, magic |-> p.magic,
    format |-> a.format, from |-> a.from, to |-> a.to] :
     a \in MCArguments, p \in MCPatterns}

=============================================================================
