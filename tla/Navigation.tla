----------------------------- MODULE Navigation ------------------------------
(***************************************************************************)
(* What the configuration modes promise to the user.  The user is in the   *)
(* EXEC area or in the configuration area, and there at a path: at the top *)
(* (the empty path) or at a data node, whose leaves and lists the commands *)
(* edit.  ConfigSession implements this with the mode, the mode stack and  *)
(* the pointer parent_data.                                                *)
(***************************************************************************)
EXTENDS Integers, SequencesExt

CONSTANTS Names, Nodes

VARIABLES area, path

navVars == <<area, path>>

Init == area = "exec" /\ path = <<>>

(* A root container's command, from any place of the configuration area.   *)
EnterRoot ==
  /\ area = "config"
  /\ path' \in {n \in Nodes : Len(n) = 1}
  /\ UNCHANGED area

(* A list command goes down by one node.                                   *)
EnterEntry ==
  /\ path # <<>>
  /\ \E e \in Names : Append(path, e) \in Nodes /\ path' = Append(path, e)
  /\ UNCHANGED area

(* exit goes up by one node.                                               *)
ExitNode == path # <<>> /\ path' = Front(path) /\ UNCHANGED area

(* Every other change of modes leads to the top of one of the areas.       *)
ToTop == path' = <<>> /\ area' \in {"exec", "config"}

Next == EnterRoot \/ EnterEntry \/ ExitNode \/ ToTop

Spec == Init /\ [][Next]_navVars
=============================================================================
