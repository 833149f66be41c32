--------------------------- MODULE MCSamplesQuery ---------------------------
(***************************************************************************)
(* SamplesQuery for TLC: one or two chunks of no or three samples,    *)
(* periods of 2 and 3 so that a bound falls on a sample or between two,    *)
(* bases of 0 and 3 so that it falls before, inside and after a chunk.     *)
(***************************************************************************)
EXTENDS SamplesQuery

CONSTANTS a, b, c  \* channel names; c is in no file

MCChunks(names) ==
  [name : names, base : {0, 3}, period : {2, 3}, count : {0, 3}]

MCLayouts == {<<first>> : first \in MCChunks({a})}
             \cup (MCChunks({a}) \X MCChunks({a, b}))

MCRequests ==
  [filter : {{}, {a}, {b, c}}, start : {NoArg, -1, 4, 5}, end : {NoArg, 0, 5, 6},
   usable : {TRUE}]
    \cup [filter : {{}}, start : {NoArg}, end : {NoArg, 5}, usable : {FALSE}]

=============================================================================
