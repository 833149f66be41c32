---------------------------- MODULE MCGridQuery ----------------------------
(***************************************************************************)
(* GridQuery for TLC: a second of 10 ticks sampled 3 or 5 times, one or    *)
(* two files of up to 7 ticks, the second file's clock ahead by 0 to 6, so *)
(* that bounds fall before, inside, between and after the files.           *)
(***************************************************************************)
EXTENDS GridQuery

Speed == [fold |-> "speed", form |-> 1]
Rpm == [fold |-> "rpm", form |-> 1]

MCSpellings == {Speed, Rpm}

MCChannel(name, duration) ==
  [name |-> name, samples |-> duration, duration |-> duration, unit |-> "u"]

MCFiles(clocks) ==
  {[channels |-> channels, clock |-> clock] :
     channels \in {<<MCChannel(Speed, 7)>>,
                   <<MCChannel(Speed, 2), MCChannel(Rpm, 5)>>,
                   <<MCChannel(Rpm, 0)>>},
     clock \in clocks}

MCFileLists == {<<f>> : f \in MCFiles({3})} \cup (MCFiles({3}) \X MCFiles({3, 9}))

MCRequests ==
  [reader : Readers, filter : {{}, {"rpm"}}, rate : {0, 3, 5},
   start : {NoArg, -1, 4}, end : {NoArg, 0, 5, 8}]

(* A file with two channels of one name, the second one without samples.   *)
MCTwins == {<<[channels |-> <<MCChannel(Speed, 7), MCChannel(Speed, 0)>>,
               clock |-> 3]>>}

=============================================================================
