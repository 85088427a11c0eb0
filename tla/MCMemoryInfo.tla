---------------------------- MODULE MCMemoryInfo ----------------------------
(***************************************************************************)
(* The five lines of interest in every order, with an unreadable line at   *)
(* every place among them, so that the lines before it are every subset.   *)
(* The numbers make each of the tests of the code true and false.          *)
(***************************************************************************)
EXTENDS MemoryInfo, SequencesExt

Line(label, size) == [label |-> label, kb |-> size]

LineLists ==
  {<<Line("MemTotal", total), Line("MemAvailable", avail), Line("MemFree", free),
     Line("Buffers", 1), Line("Cached", 2), Unreadable>> :
      total \in {0, 5}, avail \in {0, 2, 6}, free \in {0, 3}}

MCSizes == 0..6

MCFiles ==
  {[n \in 1..6 |-> lines[order[n]]] : lines \in LineLists, order \in SetToSeqs(1..6)}

=============================================================================
