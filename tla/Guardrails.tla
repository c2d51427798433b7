----------------------------- MODULE Guardrails ------------------------------
(***************************************************************************)
(* The guardrails of a batch: what it is estimated to take before the      *)
(* first call, and whether it is let through (services/ai_guardrails.py).  *)
(* A text is its number of characters.  A price is in millionths of a      *)
(* dollar, a rate in hundredths of a dollar per million tokens.            *)
(***************************************************************************)
EXTENDS Naturals, FiniteSets, FiniteSetsExt

CONSTANTS
  ProviderCalls,  \* ai_provider_calls_enabled, or the fake backend
  MaxTokens,      \* max_batch_estimated_tokens, 0 when unlimited
  MaxCost,        \* max_batch_estimated_cost_usd, 0 when unlimited
  InputRate,      \* llm_input_cost_per_million_tokens
  OutputRate      \* llm_output_cost_per_million_tokens

ASSUME GuardrailsAssumption ==
  /\ ProviderCalls \in BOOLEAN
  /\ MaxTokens \in Nat /\ MaxCost \in Nat
  /\ InputRate \in Nat /\ OutputRate \in Nat

\* Four characters are a token, and what is left over is one more.
EstimateTokens(chars) == (chars + 3) \div 4

\* Decimal.quantize: the nearest whole number to n / d, the even one of two.
RoundHalfEven(n, d) ==
  LET q == n \div d
      r == n % d
  IN  IF 2 * r > d \/ (2 * r = d /\ q % 2 = 1) THEN q + 1 ELSE q

\* Without a rate a batch has no price.
Priced == InputRate > 0 \/ OutputRate > 0

\* The price before it is rounded, in units of 1 / 100 of what Cost counts.
ExactCost(input, output) == input * InputRate + output * OutputRate
Cost(input, output) == RoundHalfEven(ExactCost(input, output), 100)

Estimate(items, input, output) ==
  [items |-> items, input |-> input, output |-> output]
Tokens(e) == e.input + e.output

\* One call for each text: the profile, the text, and 800 tokens of prompt; an
\* answer of 1024 tokens at most.
EstimateEvaluationBatch(profile, texts) ==
  LET input(i) == EstimateTokens(profile) + EstimateTokens(texts[i]) + 800
      items == Cardinality(DOMAIN texts)
  IN  Estimate(items, MapThenSumSet(input, DOMAIN texts), items * 1024)

\* One call for each job: the profile, the description, the gaps that its
\* analysis found, and 1200 tokens of prompt; an answer of 4096 tokens at most.
EstimateTailoringBatch(profile, jobs) ==
  LET input(i) == EstimateTokens(profile) + EstimateTokens(jobs[i].text)
                    + EstimateTokens(jobs[i].gaps) + 1200
      items == Cardinality(DOMAIN jobs)
  IN  Estimate(items, MapThenSumSet(input, DOMAIN jobs), items * 4096)

WithinItems(e, maxItems) == maxItems > 0 => e.items <= maxItems
WithinTokens(e) == MaxTokens > 0 => Tokens(e) <= MaxTokens
WithinCost(e) == MaxCost > 0 /\ Priced => Cost(e.input, e.output) <= MaxCost

\* A batch with nothing to call is never refused for want of a provider.
CheckBatchGuardrails(e, maxItems) ==
  /\ e.items > 0 => ProviderCalls
  /\ WithinItems(e, maxItems) /\ WithinTokens(e) /\ WithinCost(e)
=============================================================================
