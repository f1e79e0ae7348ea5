------------------------------ MODULE Pipeline ------------------------------
(***************************************************************************)
(* What the collections pipeline promises for one borrower, with no word   *)
(* of activities, workers, retries or databases: conversations are held    *)
(* one at a time and stage after stage, each is heard at most once, and    *)
(* what is heard decides whether there is a next one. The system may fail  *)
(* at any time; it may then still hold one conversation of the stage it    *)
(* failed in, never one of another.                                        *)
(***************************************************************************)
EXTENDS AgentContract, Naturals, Sequences

CONSTANTS MaxAssessments,  (* how often the assessment is held                *)
          Words            (* every word a conversation can end with          *)

VARIABLES
  stage,     (* the stage reached                                          *)
  contacts,  (* the stages of the conversations begun, in order            *)
  heard,     (* what was heard of them                                     *)
  verdict    (* idle, open, failed or the pipeline's result                *)

vars == <<stage, contacts, heard, verdict>>

Init == stage = "assess" /\ contacts = <<>> /\ heard = <<>> /\ verdict = "idle"

Open == verdict = "idle" /\ verdict' = "open" /\ UNCHANGED <<stage, contacts, heard>>

Contact ==
  /\ verdict \in {"open", "failed"}
  /\ Len(contacts) = Len(heard)
  /\ contacts' = Append(contacts, stage)
  /\ UNCHANGED <<stage, heard, verdict>>

(* Which outcome closes the pipeline, and how.                             *)
Closing(s, o) ==
  \/ o = "opt_out"
  \/ s = "resolve" /\ o = "deal_agreed"
  \/ s = "final"

Verdict(s, o) ==
  IF o = "opt_out" THEN "opt_out"
  ELSE IF s = "resolve" /\ o = "deal_agreed" THEN "resolved_at_resolution"
  ELSE IF s = "final" /\ o = "resolved" THEN "resolved_at_final"
  ELSE "unresolved"

Hear(o) ==
  /\ verdict = "open"
  /\ Len(contacts) = Len(heard) + 1
  /\ heard' = Append(heard, o)
  /\ UNCHANGED contacts
  /\ \/ /\ Closing(stage, o)
        /\ verdict' = Verdict(stage, o)
        /\ UNCHANGED stage
     \/ /\ ~ Closing(stage, o)
        /\ stage = "assess" /\ o \notin {"assessed", "partial"} /\ Len(heard') < MaxAssessments
        /\ UNCHANGED <<stage, verdict>>
     \/ /\ ~ Closing(stage, o)
        /\ stage = "assess" => o \in {"assessed", "partial"} \/ Len(heard') = MaxAssessments
        /\ stage' = IF stage = "assess" THEN "resolve" ELSE "final"
        /\ UNCHANGED verdict

Fail == verdict = "open" /\ verdict' = "failed" /\ UNCHANGED <<stage, contacts, heard>>

GoOn == verdict = "open" /\ (Contact \/ Fail \/ \E o \in Words : Hear(o))

Next == Open \/ Contact \/ Fail \/ \E o \in Words : Hear(o)

(* An open pipeline does not stand still for ever.                         *)
Spec == Init /\ [][Next]_vars /\ WF_vars(GoOn)
=============================================================================
