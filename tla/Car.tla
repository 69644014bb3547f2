-------------------------------- MODULE Car --------------------------------
(***************************************************************************)
(* What the driver sees of the car: it is asked for a command and either   *)
(* carries it out, all at once, or the server's process ends first and the *)
(* command is forgotten.  Motor, down to the single gpio writes, refines   *)
(* this module.                                                            *)
(***************************************************************************)
CONSTANT NoCommand      \* nothing is asked for

Orders == {"FRONT", "BACK", "LEFT", "RIGHT", "STOP"}

VARIABLES wanted,       \* the command asked for and not yet carried out
          drive,        \* "off", "forward", "backward"
          steer         \* "straight", "left", "right"

vars == <<wanted, drive, steer>>

TypeOK == /\ wanted \in Orders \cup {NoCommand}
          /\ drive \in {"off", "forward", "backward"}
          /\ steer \in {"straight", "left", "right"}

Init == /\ wanted = NoCommand
        /\ drive = "off"
        /\ steer = "straight"

Ask(c) == /\ wanted = NoCommand
          /\ wanted' = c
          /\ UNCHANGED <<drive, steer>>

Forget == /\ wanted' = NoCommand
          /\ UNCHANGED <<drive, steer>>

\* Driving and stopping straighten the wheels; turning leaves the drive alone.
Go == /\ wanted \in {"FRONT", "BACK", "STOP"}
      /\ drive' = CASE wanted = "FRONT" -> "forward"
                    [] wanted = "BACK"  -> "backward"
                    [] wanted = "STOP"  -> "off"
      /\ steer' = "straight"
      /\ wanted' = NoCommand

Turn == /\ wanted \in {"LEFT", "RIGHT"}
        /\ steer' = IF wanted = "LEFT" THEN "left" ELSE "right"
        /\ wanted' = NoCommand
        /\ UNCHANGED drive

Next == (\E c \in Orders : Ask(c)) \/ Forget \/ Go \/ Turn

Spec == Init /\ [][Next]_vars
=============================================================================
