------------------------------ MODULE MCComputer ------------------------------
(* A computer in both of its respects: its power (two runs of two bots and one   *)
(* manager of the first) and the control of its screen (two bots, two requests). *)
(* The models share no state: a behaviour is about one part, and the other stays *)
(* in an initial state of its own.                                               *)
EXTENDS Computer, ScreenControl, TLC

CONSTANTS b1, b2

Symmetry == Permutations(Sharers)

MCBotOf == [c \in {"r1", "r2", "m"} |-> IF c = "r2" THEN "b2" ELSE "b1"]

VARIABLE part

computerVars == <<part, vars, screenVars>>

ComputerInit ==
  /\ part \in {"power", "screen"}
  /\ Init
  /\ part = "power" \/ (scope = "team" /\ row.state = "stopped" /\ caller["m"].job = "stop")
  /\ ScreenInit /\ (part = "screen" \/ owner = Nobody)

ComputerNext ==
  /\ \/ part = "power" /\ Next /\ UNCHANGED screenVars
     \/ part = "screen" /\ ScreenNext /\ UNCHANGED vars
  /\ UNCHANGED part

ComputerSpec == ComputerInit /\ [][ComputerNext]_computerVars
================================================================================
