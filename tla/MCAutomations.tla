---- MODULE MCAutomations ----
(* A program with a tool, a wait and a tool; and one tool alone. *)
EXTENDS Automations
MCProgram == <<"tool", "wait", "tool">>
MCTool == <<"tool">>
====
