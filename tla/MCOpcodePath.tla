---------------------------- MODULE MCOpcodePath ----------------------------
(* Every version with tables of its own, the two that go back to older     *)
(* tables, and the two next to the supported range.                        *)
EXTENDS OpcodePath

MCVersions == TableVersions \cup {39, 88, 91, 93, 100, 101}

MCFrameSizes == {0, 9, 11}

MCArgcs == {0, 1, 3, 5}

=============================================================================
