------------------------------- MODULE Panel -------------------------------
(***************************************************************************)
(* The touch panel of the client (rc_client.c): which button a touch is    *)
(* taken for, and where the buttons are drawn.  Coordinates are the        *)
(* pixels of the 480 x 272 screen.                                         *)
(***************************************************************************)
EXTENDS Integers

Buttons == {"Up", "Down", "Right", "Left", "Stop"}

\* The tests of the chain of else-ifs: the pixels from left to right and from
\* top to bottom, edges included.
Box(b) == CASE b = "Up"    -> [left |-> 280, right |-> 355, top |-> 25,  bottom |-> 100]
            [] b = "Down"  -> [left |-> 280, right |-> 355, top |-> 185, bottom |-> 260]
            [] b = "Right" -> [left |-> 360, right |-> 435, top |-> 105, bottom |-> 180]
            [] b = "Left"  -> [left |-> 200, right |-> 270, top |-> 105, bottom |-> 175]
            [] b = "Stop"  -> [left |-> 280, right |-> 355, top |-> 105, bottom |-> 180]

Hit(b, x, y) == /\ Box(b).left <= x /\ x <= Box(b).right
                /\ Box(b).top <= y  /\ y <= Box(b).bottom

\* The order of the tests.
Rank(b) == CASE b = "Up" -> 1 [] b = "Down" -> 2 [] b = "Right" -> 3
             [] b = "Left" -> 4 [] b = "Stop" -> 5

\* The button a touch is taken for, if any: the first whose test succeeds.
Taken(x, y) == {b \in Buttons : /\ Hit(b, x, y)
                                /\ \A c \in Buttons : Rank(c) < Rank(b) => ~Hit(c, x, y)}

\* Where SDL_BlitSurface puts the picture of a button, a square of Side pixels.
Side == 65
Drawn(b, x, y) ==
    LET at == CASE b = "Up"    -> <<280, 25>>
                [] b = "Down"  -> <<280, 185>>
                [] b = "Right" -> <<360, 105>>
                [] b = "Left"  -> <<200, 105>>
                [] b = "Stop"  -> <<280, 105>>
    IN  /\ at[1] <= x /\ x < at[1] + Side
        /\ at[2] <= y /\ y < at[2] + Side
=============================================================================
