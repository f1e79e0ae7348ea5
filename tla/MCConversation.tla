--------------------------- MODULE MCConversation ---------------------------
(***************************************************************************)
(* Instances of Conversation for TLC. Each agent calls a representative of *)
(* every class of tools the code tells apart: "task_complete" stands for   *)
(* the reasons that are classified, one or two others for those that       *)
(* become the outcome. A response holds one call, or an end_conversation   *)
(* and an opt-out in either order.                                         *)
(***************************************************************************)
EXTENDS Conversation

Reasons ==
  [agent_1 |-> {"task_complete", "identity_unverified"},
   agent_2 |-> {"task_complete", "deal_agreed", "no_resolution"},
   agent_3 |-> {"task_complete", "deal_agreed"}]

UsedTools(a) ==
  {c \in Toolbox[a] : c.name = "end_conversation" => c.arg \in Reasons[a]}

OptOut == Call("flag_opt_out", "")

MCBatches ==
  [a \in Agents |->
    {<<c>> : c \in UsedTools(a)} \cup
    UNION {{<<Call("end_conversation", r), OptOut>>, <<OptOut, Call("end_conversation", r)>>}
           : r \in Reasons[a]}]
=============================================================================
