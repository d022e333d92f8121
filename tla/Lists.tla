--------------------------------- MODULE Lists ---------------------------------
(******************************************************************************)
(* Counting in the lists of the notifiers and the device manager.             *)
(******************************************************************************)
EXTENDS SequencesExt

Places(sequence, values) == {i \in DOMAIN sequence : sequence[i] \in values}

Count(sequence, values) == Cardinality(Places(sequence, values))
================================================================================
