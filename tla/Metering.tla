------------------------------ MODULE Metering ------------------------------
(***************************************************************************)
(* From tokens to US dollars to credits: PricingService.calculate,         *)
(* CreditPolicy.credits_for_cost, quantize_amount and the pre-flight       *)
(* estimate of UsageMeter, and the metering of one LLM call after another. *)
(*                                                                         *)
(* Amounts are whole numbers of the quantum 10^-12. A price is the quanta  *)
(* per pricing unit of TokensPerUnit tokens; CREDITS_PER_DOLLAR is the     *)
(* fraction RateNum / RateDen. Python's Decimal carries 28 digits, enough  *)
(* for every product and quotient here to be exact before it is quantized. *)
(***************************************************************************)
EXTENDS Integers

CONSTANTS
    TokensPerUnit,      \* tokens per pricing unit (1,000,000)
    InputPrice,         \* quanta per pricing unit of prompt tokens
    OutputPrice,        \* quanta per pricing unit of completion tokens
    RateNum, RateDen,   \* CREDITS_PER_DOLLAR
    CharsPerToken,      \* characters per token of the estimate (3)
    OverheadTokens,     \* tokens the estimate adds (100)
    MaxOutputTokens,    \* LLM_MAX_OUTPUT_TOKENS
    MaxChars,           \* bound: the longest prompt, in characters
    MaxCalls            \* bound: the number of LLM calls

ASSUME PricesAssumption ==
    /\ TokensPerUnit \in Nat \ {0}
    /\ InputPrice \in Nat
    /\ OutputPrice \in Nat

ASSUME RateAssumption == RateNum \in Nat \ {0} /\ RateDen \in Nat \ {0}

ASSUME EstimateAssumption ==
    /\ CharsPerToken \in Nat \ {0}
    /\ OverheadTokens \in Nat
    /\ MaxOutputTokens \in Nat
    /\ MaxChars \in Nat
    /\ MaxCalls \in Nat

VARIABLES
    calls,      \* LLM calls metered so far
    totalCost,  \* sum of usage_records.total_cost
    spent,      \* sum of usage_records.credits_consumed
    required,   \* worst-case credits of the last call's pre-flight check
    charged     \* credits the last call was charged

meterVars == <<calls, totalCost, spent, required, charged>>

(* Mutant: ROUND_UP.                                                       *)
QuantizeUp(n, d) == IF n % d = 0 THEN n \div d ELSE n \div d + 1

(* quantize_amount of the fraction n / d: the nearest whole quantum, the   *)
(* even one of two that are equally near.                                  *)
Quantize(n, d) ==
    LET q == n \div d
        r == n % d
    IN  IF 2 * r < d \/ (2 * r = d /\ q % 2 = 0) THEN q ELSE q + 1

(* PricingService.calculate: each direction is quantized by itself.        *)
PartCost(tokens, price) == Quantize(tokens * price, TokensPerUnit)

TotalCost(inputTokens, outputTokens) ==
    PartCost(inputTokens, InputPrice) + PartCost(outputTokens, OutputPrice)

CreditsForCost(cost) == Quantize(cost * RateNum, RateDen)

Credits(inputTokens, outputTokens) == CreditsForCost(TotalCost(inputTokens, outputTokens))

(* Mutant: a floor instead of the ceiling, and no overhead.                *)
EstimateFloor(chars) == chars \div CharsPerToken

(* estimate_prompt_tokens.                                                 *)
EstimatePromptTokens(chars) ==
    (chars + CharsPerToken - 1) \div CharsPerToken + OverheadTokens

MeterTypeOK ==
    /\ calls \in 0..MaxCalls
    /\ totalCost \in Nat
    /\ spent \in Nat
    /\ required \in Nat
    /\ charged \in Nat

MeterInit ==
    /\ calls = 0
    /\ totalCost = 0
    /\ spent = 0
    /\ required = 0
    /\ charged = 0

(* One call: checked against the worst case of its prompt, then metered by *)
(* the usage the provider reports for it, here one that the estimate       *)
(* covers: at most CharsPerToken characters a token and the output capped. *)
Meter(chars, inputTokens, outputTokens) ==
    /\ calls < MaxCalls
    /\ CharsPerToken * inputTokens <= chars + CharsPerToken * OverheadTokens
    /\ calls' = calls + 1
    /\ required' = Credits(EstimatePromptTokens(chars), MaxOutputTokens)
    /\ charged' = Credits(inputTokens, outputTokens)
    /\ totalCost' = totalCost + TotalCost(inputTokens, outputTokens)
    /\ spent' = spent + charged'

MeterNext ==
    \/ \E chars \in 0..MaxChars, inputTokens \in 0..EstimatePromptTokens(MaxChars),
          outputTokens \in 0..MaxOutputTokens : Meter(chars, inputTokens, outputTokens)
    \/ calls = MaxCalls /\ UNCHANGED meterVars

MeterSpec == MeterInit /\ [][MeterNext]_meterVars

(* The affordability check is on the safe side of every rounding: usage    *)
(* that the token estimate covers never costs more credits than the check  *)
(* asked for, although the two directions and the conversion are rounded   *)
(* one by one.                                                             *)
ChargeWithinCheck == charged <= required

(* The user's credits and the dollars of the ledger do not drift apart:    *)
(* after any number of calls the credits deducted are the conversion of    *)
(* the cost recorded, to half a quantum a call.                            *)
CreditsFollowCost ==
    LET drift == RateDen * spent - RateNum * totalCost
    IN  /\ 2 * drift <= RateDen * calls
        /\ -(RateDen * calls) <= 2 * drift
=============================================================================
