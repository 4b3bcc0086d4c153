---------------------------------- MODULE Flatten ----------------------------------
(***************************************************************************)
(* Sequences one after the other, as FlattenSeq of the community modules.  *)
(* It has a module of its own for the proofs: SequencesExt would add all   *)
(* its definitions, and those of the bags it extends, to each of their     *)
(* obligations.                                                            *)
(***************************************************************************)
EXTENDS Naturals, Sequences

FlattenSeq(seqs) ==
  LET joined[n \in 0 .. Len(seqs)] == IF n = 0 THEN << >> ELSE joined[n - 1] \o seqs[n]
  IN  joined[Len(seqs)]

===============================================================================
