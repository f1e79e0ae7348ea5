--------------------------- MODULE MCCollections ----------------------------
(***************************************************************************)
(* Instances of Collections for TLC. FewOutcomes keeps one outcome of each *)
(* kind the workflow tells apart: "partial" is treated as "assessed" is,   *)
(* "deal_agreed" of an assessment as "no_response" but for the exhausted   *)
(* flag, as "identity_unverified" is, and so on. TwoOutcomes is for the    *)
(* instances that are about something else.                                *)
(***************************************************************************)
EXTENDS Collections

FewOutcomes == [assess  |-> {"assessed", "no_response", "identity_unverified", "opt_out"},
                resolve |-> {"deal_agreed", "no_deal", "opt_out"},
                final   |-> {"resolved", "deal_agreed", "opt_out"}]

TwoOutcomes == [assess  |-> {"partial", "opt_out"},
                resolve |-> {"no_deal"},
                final   |-> {"resolved", "opt_out"}]

CONSTANT w1  (* the workflow of the refinement run *)

PipelineOfW1 == INSTANCE Pipeline WITH
  Words    <- PipelineWords,
  stage    <- PipelineStage(w1),
  contacts <- PipelineContacts(w1),
  heard    <- heard[w1],
  verdict  <- PipelineVerdict(w1)

(* A workflow, with its workers, timeouts, retries, crashes and rows,      *)
(* implements the pipeline's promise.                                      *)
ImplementsPipeline == PipelineOfW1!Spec
=============================================================================
