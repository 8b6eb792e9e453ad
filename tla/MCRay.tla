------------------------------- MODULE MCRay --------------------------------
EXTENDS Ray, TLC

\* Angles in steps of 45 degrees, sines in quarters.
Sines == (0 :> 0) @@ (1 :> 3) @@ (2 :> 4)

\* Five by four cells.  The cell at 1, 1 touches the start at a corner only.
\*   # # # # #
\*   # . # . #
\*   # # S . #
\*   # # # # #
Border == {c \in (0 .. 4) \X (0 .. 3) : c[1] \in {0, 4} \/ c[2] \in {0, 3}}
Maze == Border \cup {<<2, 1>>, <<1, 2>>}

\* Escape, forward, and one turn: enough to reach every place and angle.
GameKeys == {1, 72, 77}
=============================================================================
