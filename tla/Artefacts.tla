-------------------------------- MODULE Artefacts --------------------------------
(***************************************************************************)
(* Artefacts on disk as the modules below see them: a file that is not     *)
(* there, and one whose JSON cannot be read because it was truncated and   *)
(* is not filled yet (write_json in src/utils/io.py opens with "w").       *)
(***************************************************************************)
EXTENDS Integers, FiniteSets

CONSTANTS None, Torn

ASSUME ArtefactsAssumption == None # Torn

Readable(file) == file \notin {None, Torn}
Missing(file) == file = None

\* What a tolerant reader makes of a file.
ReadOr(file, default) == IF Readable(file) THEN file ELSE default

PickOne(S) == IF S = {} THEN None ELSE CHOOSE x \in S : TRUE

=============================================================================
