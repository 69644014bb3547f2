--------------------------- MODULE RemoteControl ---------------------------
(***************************************************************************)
(* What the command path from the touch panel to the car promises, with    *)
(* no sockets, frames or buffers in it.  The driver issues commands; the   *)
(* car executes some of them.  CommandStream refines this module.          *)
(*                                                                         *)
(* Next is the promise the code keeps whatever the driver does: commands   *)
(* may be lost, but those executed are executed in the order of issue and  *)
(* none of them twice.  ExactNext is the promise of slide 20 of            *)
(* docs/_PPT_report_A__.pptx: the car executes what it is sent.            *)
(***************************************************************************)
EXTENDS Naturals, Sequences

CONSTANTS Commands,   \* what a button can ask for
          None        \* nothing executed yet

VARIABLES issued,     \* sequence of the commands issued so far
          executed,   \* positions in issued of the commands executed
          current,    \* the command executed last
          times       \* how often a command was executed

vars == <<issued, executed, current, times>>

TypeOK == /\ issued \in Seq(Commands)
          /\ executed \subseteq DOMAIN issued
          /\ current \in Commands \cup {None}
          /\ times \in Nat

Init == /\ issued = <<>>
        /\ executed = {}
        /\ current = None
        /\ times = 0

\* The driver asks for c.
Issue(c) == /\ issued' = Append(issued, c)
            /\ UNCHANGED <<executed, current, times>>

\* The car starts carrying out the k-th command: every command it carried
\* out before is an earlier one.
Execute(k) == /\ \A j \in executed : j < k
              /\ executed' = executed \cup {k}
              /\ current' = issued[k]
              /\ times' = times + 1
              /\ UNCHANGED issued

Next == \/ \E c \in Commands : Issue(c)
        \/ \E k \in DOMAIN issued : Execute(k)

\* No command is passed over.
ExactNext == \/ \E c \in Commands : Issue(c)
             \/ \E k \in DOMAIN issued : executed = 1 .. (k - 1) /\ Execute(k)

Spec == Init /\ [][Next]_vars
=============================================================================
