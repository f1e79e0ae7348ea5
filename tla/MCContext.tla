----------------------------- MODULE MCContext -----------------------------
(***************************************************************************)
(* Instance of Context for TLC, in units of 100 tokens: the code's budgets *)
(* of 2000, 500 and 100000, prompts of 700 to 900 as shipped and of the    *)
(* 1500 a proposal may have, an excerpt of up to 6000 characters, answers  *)
(* of up to 384 and 200 tokens.                                            *)
(***************************************************************************)
EXTENDS Context

UpTo2(S) == {<<>>} \cup {<<a>> : a \in S} \cup {<<a, b>> : a \in S, b \in S}

MCPayloads ==
  [locked : {2, 6}, quotes : UpTo2({1, 2}), objections : UpTo2({1, 2}), threads : UpTo2({1})]

MCFallback == [locked |-> 1, quotes |-> <<>>, objections |-> <<>>, threads |-> <<>>]

MCPayloadTokens(p) ==
  p.locked + SumFunction(p.quotes) + SumFunction(p.objections) + SumFunction(p.threads)
=============================================================================
