----------------------------- MODULE MCTeleopVR -----------------------------
\* The right hand moves, grips, half grips and lets go; the left one grips, or
\* its controller is lost.  Where a controller is matters only while gripped.
EXTENDS TeleopVR

CONSTANTS left, right

RightHeld == [at : {0, 1, 2}, grip : {"pressed"}]
             \cup [at : {0}, grip : {"released", "between"}]

HeldOf == [h \in Hands |-> IF h = right THEN RightHeld
                           ELSE Maybe([at : {3}, grip : {"pressed"}])]

=============================================================================
