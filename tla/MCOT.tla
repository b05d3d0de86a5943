-------------------------------- MODULE MCOT --------------------------------
\* Small instances of OTBuilder: texts of letters and of surrogate pairs.
EXTENDS OTBuilder, TLC

CONSTANTS x, y, hi, lo

Letters == {<<>>, <<x>>, <<x, y>>}
Pairs   == {<<hi, lo>>, <<x, hi, lo>>}
Texts   == Letters \cup Pairs

TwoOrOne(text) == IF Len(text) > 2 THEN 1 ELSE 2
=============================================================================
