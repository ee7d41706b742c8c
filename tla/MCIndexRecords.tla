--------------------------- MODULE MCIndexRecords ---------------------------
(* Small instances of IndexRecords for TLC.                                *)
EXTENDS IndexRecords

CONSTANTS a, b

OneColumn == {<<a>>}
OneOrTwoColumns == {<<a>>, <<a, b>>}
=============================================================================
