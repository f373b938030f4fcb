--------------------------- MODULE MCDriveArchiver ---------------------------
(* DriveArchiver for TLC. *)
EXTENDS DriveArchiver, TLC

HideExport == <<version, records, labels, tags, Ids(committed), archVars>>

Symmetry == Permutations(CaptureId)

=============================================================================
