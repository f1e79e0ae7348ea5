------------------------------ MODULE Context ------------------------------
(***************************************************************************)
(* What the model calls of one pipeline stage get to see. A stage after    *)
(* the first begins with summarize_for_handoff: one call, a second if the  *)
(* answer was not JSON, a fallback if that one is not either, then         *)
(* trim_to_budget. The conversation follows, each side's call with its     *)
(* AgentContext cut to a token budget by fit_to_budget.                    *)
(*                                                                         *)
(* A text is its number of tokens. What the model answers and the borrower *)
(* says is any text of the given sizes.                                    *)
(***************************************************************************)
EXTENDS Naturals, Sequences, SequencesExt, Functions

CONSTANTS AgentBudget, HandoffBudget, MetaBudget,
          SummarizerPrompt,  (* SUMMARIZER_SYSTEM                              *)
          Complaint,         (* the message that asks for JSON again           *)
          BorrowerPrompt,    (* the simulated borrower's persona               *)
          AgentPrompts,      (* system prompts the stage's agent may have      *)
          Excerpts,          (* what a summary is asked of                     *)
          BadAnswers,        (* answers that are not JSON                      *)
          AgentTurns, BorrowerTurns,
          Payloads,          (* what a valid answer may hold                   *)
          Fallback,          (* _heuristic_fallback's payload                  *)
          PayloadTokens(_),  (* count_tokens of a payload's compact JSON       *)
          MaxTurns           (* max_turns, the bound of the runner's loop      *)

(* The fields trim_to_budget never touches count as one.                   *)
HandoffPayload ==
  [locked : Nat, quotes : Seq(Nat), objections : Seq(Nat), threads : Seq(Nat)]
Trimmable == {"quotes", "objections", "threads"}

(* What is left of a payload without its last q quotes, first o objections *)
(* and first t threads.                                                    *)
Left(p, q, o, t) ==
  [locked     |-> p.locked,
   quotes     |-> SubSeq(p.quotes, 1, Len(p.quotes) - q),
   objections |-> SubSeq(p.objections, o + 1, Len(p.objections)),
   threads    |-> SubSeq(p.threads, t + 1, Len(p.threads))]

ASSUME ContextAssumption ==
  /\ {AgentBudget, HandoffBudget, MetaBudget, SummarizerPrompt, Complaint, BorrowerPrompt}
       \subseteq Nat \ {0}
  /\ AgentPrompts \cup Excerpts \cup BadAnswers \cup AgentTurns \cup BorrowerTurns
       \subseteq Nat \ {0}
  /\ AgentBudget <= MetaBudget
  /\ Payloads \cup {Fallback} \subseteq HandoffPayload
  /\ \A p \in Payloads \cup {Fallback} :
       \A q \in 0..Len(p.quotes), o \in 0..Len(p.objections), t \in 0..Len(p.threads) :
         PayloadTokens(Left(p, q, o, t)) \in Nat
  /\ MaxTurns \in Nat \ {0}

VARIABLES
  pc,        (* where the stage is                                         *)
  excerpt,   (* the transcript's excerpt in user_msg                       *)
  answer,    (* the first answer, if it was not JSON                       *)
  original,  (* the payload trim_to_budget was given                       *)
  payload,   (* its copy, trimmed so far                                   *)
  trimmed,   (* TrimResult.trimmed_fields                                  *)
  prompt,    (* the agent's system prompt                                  *)
  handoff,   (* the handoff the agent was given, 0 if none                 *)
  history,   (* the conversation so far                                    *)
  why,       (* what a stage that failed failed of                         *)
  sent       (* record of the last call: who, its context, the budget      *)

summary == <<excerpt, answer, original, payload, trimmed>>
talk    == <<prompt, handoff, history>>
vars    == <<pc, summary, talk, why, sent>>

-----------------------------------------------------------------------------
(* AgentContext.                                                           *)

Message(role, n) == [role |-> role, tokens |-> n]
Bundle(system, given, hist) == [system |-> system, handoff |-> given, history |-> hist]

Tokens(hist) == FoldLeft(LAMBDA n, msg : n + msg.tokens, 0, hist)
Fixed(ctx) == ctx.system + ctx.handoff
Total(ctx) == Fixed(ctx) + Tokens(ctx.history)

KeptLate(hist, room) ==  \* mutant: stops one message after it is full
  LET Keep(msg, acc) ==
        IF acc.full \/ acc.running > room
        THEN [acc EXCEPT !.full = TRUE]
        ELSE [acc EXCEPT !.kept = <<msg>> \o @, !.running = @ + msg.tokens]
  IN FoldRight(Keep, hist, [kept |-> <<>>, running |-> 0, full |-> FALSE]).kept
KeptWhatFits(hist, room) ==  \* mutant: continue where the code has break
  LET Keep(msg, acc) ==
        IF acc.running + msg.tokens > room
        THEN acc
        ELSE [acc EXCEPT !.kept = <<msg>> \o @, !.running = @ + msg.tokens]
  IN FoldRight(Keep, hist, [kept |-> <<>>, running |-> 0]).kept
(* The loop over reversed(history), which breaks at the first message that *)
(* does not fit.                                                           *)
Kept(hist, room) ==
  LET Keep(msg, acc) ==
        IF acc.full \/ acc.running + msg.tokens > room
        THEN [acc EXCEPT !.full = TRUE]
        ELSE [acc EXCEPT !.kept = <<msg>> \o @, !.running = @ + msg.tokens]
  IN FoldRight(Keep, hist, [kept |-> <<>>, running |-> 0, full |-> FALSE]).kept

(* When fit_to_budget raises, and what it returns when it does not.        *)
Refused(ctx, budget) == Fixed(ctx) > budget \/ ctx.handoff > HandoffBudget
Fit(ctx, budget) == [ctx EXCEPT !.history = Kept(@, budget - Fixed(ctx))]

(* assert_within does not raise.                                           *)
Within(ctx, budget) == Total(ctx) <= budget /\ ctx.handoff <= HandoffBudget

NeedsKickoffIfEmpty(ctx) ==  \* mutant: only an empty history needs it
  ctx.handoff = 0 /\ ctx.history = <<>>
NeedsKickoff(ctx) ==
  ctx.handoff = 0 /\ (ctx.history = <<>> \/ ctx.history[1].role # "user")

(* The roles of to_anthropic_messages.                                     *)
RolesSent(ctx) ==
  (IF ctx.handoff > 0 \/ NeedsKickoff(ctx) THEN <<"user">> ELSE <<>>)
    \o [i \in DOMAIN ctx.history |-> ctx.history[i].role]

-----------------------------------------------------------------------------
NoPayload == [locked |-> 0, quotes |-> <<>>, objections |-> <<>>, threads |-> <<>>]

Init ==
  /\ \/ pc = "summarize" /\ excerpt \in Excerpts
     \/ pc = "build" /\ excerpt = 0
  /\ answer = 0 /\ original = NoPayload /\ payload = NoPayload
  /\ trimmed = [f \in Trimmable |-> 0]
  /\ prompt = 0 /\ handoff = 0 /\ history = <<>>
  /\ why = "" /\ sent = [who |-> "nobody", context |-> Bundle(0, 0, <<>>), budget |-> 0]

(* The borrower's side of the conversation, as the simulator sees it.      *)
Flip(hist) ==
  [i \in DOMAIN hist |->
    [hist[i] EXCEPT !.role = IF @ = "assistant" THEN "user" ELSE "assistant"]]

SummaryRequest == <<Message("user", excerpt)>>
RetryRequest ==
  SummaryRequest \o <<Message("assistant", answer), Message("user", Complaint)>>

Callers == {"summarize", "retry", "agent", "borrower"}

(* The context each caller builds, the budget it is cut to, and the budget *)
(* asserted of the result: reply and the simulator assert what they cut to *)
(* but a retry only meets complete's own assertion.                        *)
Request(who) ==
  [summarize |-> Bundle(SummarizerPrompt, 0, SummaryRequest),
   retry     |-> Bundle(SummarizerPrompt, 0, RetryRequest),
   agent     |-> Bundle(prompt, handoff, history),
   borrower  |-> Bundle(BorrowerPrompt, 0, Flip(history))][who]
BudgetOf(who)   == IF who = "summarize" THEN MetaBudget ELSE AgentBudget
AssertedOf(who) == IF who \in {"summarize", "retry"} THEN MetaBudget ELSE AgentBudget

Accepted(who) ==
  /\ ~Refused(Request(who), BudgetOf(who))
  /\ Within(Fit(Request(who), BudgetOf(who)), AssertedOf(who))

Send(who) ==
  /\ pc = who /\ Accepted(who)
  /\ sent' = [who |-> who, context |-> Request(who), budget |-> BudgetOf(who)]

Fail(reason) ==
  /\ pc' = "failed" /\ why' = reason
  /\ UNCHANGED <<summary, talk, sent>>

(* fit_to_budget raises, or the assertion after it, or the call itself.    *)
Refuse == \E who \in Callers :
  /\ pc = who /\ ~Accepted(who)
  /\ Fail(IF Refused(Request(who), BudgetOf(who)) THEN "refused" ELSE "asserted")
CallFails == pc \in Callers /\ Fail("call")

-----------------------------------------------------------------------------
(* summarize_for_handoff.                                                  *)

ToTrim(p) ==
  /\ original' = p /\ payload' = p
  /\ pc' = "trim"

(* An answer is a payload, JSON that is none (too many quotes, say), which *)
(* is replaced by the fallback, or no JSON, which is asked for once more.  *)
Summarize ==
  /\ Send("summarize")
  /\ \/ \E p \in Payloads \cup {Fallback} : ToTrim(p) /\ UNCHANGED answer
     \/ \E n \in BadAnswers :
          answer' = n /\ pc' = "retry" /\ UNCHANGED <<original, payload>>
  /\ UNCHANGED <<excerpt, trimmed, talk, why>>

Retry ==
  /\ Send("retry")
  /\ \E p \in Payloads \cup {Fallback} : ToTrim(p)
  /\ UNCHANGED <<excerpt, answer, trimmed, talk, why>>

-----------------------------------------------------------------------------
(* trim_to_budget.                                                         *)

OverBudget == PayloadTokens(payload) > HandoffBudget

Dropped(field, p) ==
  /\ payload' = p
  /\ trimmed' = [trimmed EXCEPT ![field] = @ + 1]
  /\ UNCHANGED <<pc, excerpt, answer, original, talk, why, sent>>

DropQuoteAtBudget ==  \* mutant: a payload of just the budget is cut
  /\ pc = "trim" /\ PayloadTokens(payload) >= HandoffBudget
  /\ payload.quotes # <<>>
  /\ Dropped("quotes", [payload EXCEPT !.quotes = Front(@)])
DropQuote ==
  /\ pc = "trim" /\ OverBudget
  /\ payload.quotes # <<>>
  /\ Dropped("quotes", [payload EXCEPT !.quotes = Front(@)])

DropObjectionEarly ==  \* mutant: does not wait for the quotes
  /\ pc = "trim" /\ OverBudget
  /\ payload.objections # <<>>
  /\ Dropped("objections", [payload EXCEPT !.objections = Tail(@)])
DropObjection ==
  /\ pc = "trim" /\ OverBudget
  /\ payload.quotes = <<>> /\ payload.objections # <<>>
  /\ Dropped("objections", [payload EXCEPT !.objections = Tail(@)])

DropThread ==
  /\ pc = "trim" /\ OverBudget
  /\ payload.quotes = <<>> /\ payload.objections = <<>> /\ payload.threads # <<>>
  /\ Dropped("threads", [payload EXCEPT !.threads = Tail(@)])

Exhausted == payload.quotes = <<>> /\ payload.objections = <<>> /\ payload.threads = <<>>

TrimRaises ==
  /\ pc = "trim" /\ OverBudget /\ Exhausted
  /\ Fail("trim")

HandOverExhausted ==  \* mutant: what is left after trimming is not checked
  /\ pc = "trim" /\ (OverBudget => Exhausted)
  /\ handoff' = PayloadTokens(payload)
  /\ pc' = "build"
  /\ excerpt' = 0 /\ answer' = 0 /\ original' = NoPayload /\ payload' = NoPayload
  /\ trimmed' = [f \in Trimmable |-> 0]
  /\ UNCHANGED <<prompt, history, why, sent>>
(* What is returned goes to the next agent as the same compact JSON the    *)
(* trimming counted.                                                       *)
HandOver ==
  /\ pc = "trim" /\ ~OverBudget
  /\ handoff' = PayloadTokens(payload)
  /\ pc' = "build"
  /\ excerpt' = 0 /\ answer' = 0 /\ original' = NoPayload /\ payload' = NoPayload
  /\ trimmed' = [f \in Trimmable |-> 0]
  /\ UNCHANGED <<prompt, history, why, sent>>

-----------------------------------------------------------------------------
(* The conversation.                                                       *)

Build ==
  /\ pc = "build"
  /\ \E n \in AgentPrompts : prompt' = n
  /\ pc' = "agent"
  /\ UNCHANGED <<summary, handoff, history, why, sent>>

(* The reply may close the conversation, as module Conversation says.      *)
AgentSpeaks ==
  /\ Send("agent")
  /\ \E n \in AgentTurns : history' = Append(history, Message("assistant", n))
  /\ pc' \in {"borrower", "done"}
  /\ UNCHANGED <<summary, prompt, handoff, why>>

Heard(n) ==
  /\ history' = Append(history, Message("user", n))
  /\ pc' = IF Len(history) + 1 < 2 * MaxTurns THEN "agent" ELSE "done"
  /\ UNCHANGED <<summary, prompt, handoff, why>>

BorrowerSpeaks == Send("borrower") /\ \E n \in BorrowerTurns : Heard(n)

(* A person at the terminal reads the last message only.                   *)
PersonSpeaks ==
  /\ pc = "borrower"
  /\ \E n \in BorrowerTurns : Heard(n)
  /\ UNCHANGED sent

Over == pc \in {"done", "failed"} /\ UNCHANGED vars

Next ==
  \/ Summarize \/ Retry
  \/ DropQuote \/ DropObjection \/ DropThread \/ TrimRaises \/ HandOver
  \/ Build \/ AgentSpeaks \/ BorrowerSpeaks \/ PersonSpeaks
  \/ Refuse \/ CallFails
  \/ Over

(* Every call returns or raises.                                           *)
Fairness == WF_vars(Next)

Spec == Init /\ [][Next]_vars /\ Fairness

-----------------------------------------------------------------------------
(* Properties.                                                             *)

Got == Fit(sent.context, sent.budget)

(* What is sent is within the budget it was cut to, so that the assertion  *)
(* after fit_to_budget never fires; the handoff in it is within its own.   *)
WithinBudget ==
  /\ Within(Got, sent.budget)
  /\ why # "asserted"

(* What is sent of the history is its longest end that fits: no gap, and   *)
(* no message left out that had room.                                      *)
LongestEndSent ==
  LET whole == sent.context.history
      n     == Len(Got.history)
  IN /\ n <= Len(whole)
     /\ Got.history = SubSeq(whole, Len(whole) - n + 1, Len(whole))
     /\ n < Len(whole) => Total(Got) + whole[Len(whole) - n].tokens > sent.budget

(* The provider wants a first message, and from the user, whatever the     *)
(* trimming left at the start of the history.                              *)
StartsWithUser ==
  sent.who # "nobody" => RolesSent(Got) # <<>> /\ RolesSent(Got)[1] = "user"

(* Trimming goes through the fields in order: quotes from the end, then    *)
(* objections from the start, then open threads, each only when the one    *)
(* before is used up, and trimmed_fields counts what is gone.              *)
TrimmedInOrder ==
  LET gone(f) == SubSeq(original[f], 1, trimmed[f])
  IN pc = "trim" =>
       /\ payload.locked = original.locked
       /\ original.quotes = payload.quotes \o
            SubSeq(original.quotes, Len(payload.quotes) + 1, Len(payload.quotes) + trimmed["quotes"])
       /\ original.objections = gone("objections") \o payload.objections
       /\ original.threads = gone("threads") \o payload.threads
       /\ trimmed["objections"] > 0 => payload.quotes = <<>>
       /\ trimmed["threads"] > 0 => payload.quotes = <<>> /\ payload.objections = <<>>

(* The payload as it was before the last item was dropped.                 *)
BeforeLastDrop ==
  IF trimmed["threads"] > 0
  THEN [payload EXCEPT !.threads = <<original.threads[trimmed["threads"]]>> \o @]
  ELSE IF trimmed["objections"] > 0
  THEN [payload EXCEPT !.objections = <<original.objections[trimmed["objections"]]>> \o @]
  ELSE [payload EXCEPT !.quotes = Append(@, original.quotes[Len(@) + 1])]

(* Nothing is dropped that there was room for: with the last dropped item  *)
(* back the payload is over its budget.                                    *)
NothingTrimmedInVain ==
  (pc = "trim" /\ \E f \in Trimmable : trimmed[f] > 0)
    => PayloadTokens(BeforeLastDrop) > HandoffBudget

(* A handoff the summarizer returned is one the next agent's guard takes:  *)
(* a stage is refused only if the two prompts themselves are too long.     *)
RefusedOnlyForPrompts ==
  why = "refused" =>
    \/ prompt + handoff > AgentBudget
    \/ BorrowerPrompt > AgentBudget \/ SummarizerPrompt > AgentBudget
    \/ SummarizerPrompt > MetaBudget
=============================================================================
