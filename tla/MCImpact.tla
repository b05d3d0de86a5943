------------------------------ MODULE MCImpact ------------------------------
\* Two subjects in two arms.  The window of s1 opens at 2, or at 1 when the earlier
\* exposure comes late, and closes before the last events come.
EXTENDS Impact

CONSTANTS s1, s2

SomeArms == [s \in {s1, s2} |-> IF s = s1 THEN "treatment" ELSE "control"]

Event(id, type, subject, t, version) ==
  [id |-> id, type |-> type, subject |-> subject, t |-> t, version |-> version]

Early    == Event(1, "exposure", s1, 1, 1)
Exposed  == Event(2, "exposure", s1, 2, 1)
Bought   == Event(3, "outcome", s1, 4, 1)
Other    == Event(4, "outcome", s2, 3, 1)
OtherToo == Event(5, "exposure", s2, 2, 1)
Wrong    == Event(6, "outcome", s1, 3, 2)
Far      == Event(7, "assignment", s2, 6, 1)
Again    == Event(8, "exposure", s1, 6, 1)

SomeBatches ==
  {<<Early>>, <<Exposed>>, <<Bought>>, <<Bought, Exposed>>, <<Exposed, Early>>, <<Other>>, <<OtherToo, Wrong>>, <<Far>>, <<Again>>}
=============================================================================
