---------------------------- MODULE MCEvaluation ----------------------------
(***************************************************************************)
(* An instance of Evaluation for TLC: three borrowers, of whom two share a *)
(* persona, so that the order of _pick_borrowers is not the file's and a   *)
(* reused baseline may be of other borrowers. What each agent may hear     *)
(* lets the pipeline end and go on, scores far apart, and once more points *)
(* with more rules broken.                                                 *)
(***************************************************************************)
EXTENDS Evaluation

MCProfiles == <<"cooperative", "cooperative", "combative">>

Opening == {"says_ai", "says_recorded"}
Conv(signs, fields, after, outcome) ==
  [signs |-> signs, fields |-> fields, after |-> after, outcome |-> outcome]

MCHeard ==
  [agent_1 |-> {Conv(Opening \cup {"verify_identity"}, 3, 0, "assessed"),
                Conv({"refuses", "shows_number"}, 1, 2, "no_response")},
   agent_2 |-> {Conv({"says_ai", "present_offer", "record_commitment"}, 0, 0, "deal_agreed"),
                Conv(Opening \cup {"present_offer"}, 0, 0, "no_deal")},
   agent_3 |-> {Conv(Opening \cup {"issue_final_offer", "accepted_by_borrower"}, 0, 0, "resolved"),
                Conv({"says_ai", "refuses", "flag_opt_out"}, 0, 1, "opt_out")}]
=============================================================================
