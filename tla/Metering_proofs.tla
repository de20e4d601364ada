--------------------------- MODULE Metering_proofs ---------------------------
(***************************************************************************)
(* Theorems about Metering, for every price, rate and estimate.            *)
(***************************************************************************)
EXTENDS Metering, TLAPS

(***************************************************************************)
(* Arithmetic                                                              *)
(***************************************************************************)
(* A product of natural numbers is one.                                    *)
LEMMA Product == \A m, k \in Nat : m * k \in Nat
  OBVIOUS

(* Multiplication keeps the order.                                         *)
LEMMA ProductMonotone ==
  ASSUME NEW m \in Nat, NEW j \in Nat, NEW k \in Nat, j <= k
  PROVE  m * j <= m * k
  <1>1. PICK i \in Nat : k = j + i
    <2>1. k - j \in Nat /\ k = j + (k - j)
      OBVIOUS
    <2> QED
      BY <2>1
  <1>2. m * k = m * j + m * i /\ m * i \in Nat /\ m * j \in Nat
    BY <1>1
  <1> QED
    BY <1>2

(* Quotient and remainder of a natural number.                             *)
LEMMA Division ==
  ASSUME NEW n \in Nat, NEW d \in Nat \ {0}
  PROVE  /\ n \div d \in Nat
         /\ n % d \in 0..(d - 1)
         /\ n = d * (n \div d) + (n % d)
  OBVIOUS

(* A larger multiple of d has a larger factor.                             *)
LEMMA Factors ==
  ASSUME NEW d \in Nat \ {0}, NEW p \in Nat, NEW q \in Nat, d * p < d * q + d
  PROVE  p <= q
  <1> SUFFICES ASSUME p >= q + 1 PROVE FALSE
    OBVIOUS
  <1>1. d * (q + 1) <= d * p
    BY ProductMonotone
  <1>2. d * (q + 1) = d * q + d
    OBVIOUS
  <1>3. d * p \in Nat /\ d * q \in Nat
    BY Product
  <1> QED
    BY <1>1, <1>2, <1>3

(***************************************************************************)
(* quantize_amount                                                         *)
(***************************************************************************)
(* The result is a natural number within half a quantum of the fraction.   *)
LEMMA QuantizeNear ==
  ASSUME NEW n \in Nat, NEW d \in Nat \ {0}
  PROVE  /\ Quantize(n, d) \in Nat
         /\ d * Quantize(n, d) \in Nat
         /\ 2 * (d * Quantize(n, d) - n) <= d
         /\ 2 * (n - d * Quantize(n, d)) <= d
  <1> DEFINE q == n \div d
             r == n % d
  <1>1. q \in Nat /\ r \in Nat /\ r < d /\ n = d * q + r /\ d * q \in Nat
    BY Division, Product
  <1>2. d * (q + 1) = d * q + d
    BY <1>1
  <1>3. CASE 2 * r < d \/ (2 * r = d /\ q % 2 = 0)
    <2>1. Quantize(n, d) = q
      BY <1>3 DEF Quantize
    <2> HIDE DEF q, r
    <2> QED
      BY <1>1, <1>3, <2>1
  <1>4. CASE ~(2 * r < d \/ (2 * r = d /\ q % 2 = 0))
    <2>1. Quantize(n, d) = q + 1
      BY <1>4 DEF Quantize
    <2>2. 2 * r >= d
      BY <1>1, <1>4
    <2> HIDE DEF q, r
    <2> QED
      BY <1>1, <1>2, <2>1, <2>2
  <1> QED
    BY <1>3, <1>4

(* Rounding keeps the order of amounts.                                    *)
LEMMA QuantizeMonotone ==
  ASSUME NEW m \in Nat, NEW n \in Nat, NEW d \in Nat \ {0}, m <= n
  PROVE  Quantize(m, d) <= Quantize(n, d)
  <1> DEFINE p == m \div d
             q == n \div d
             r == m % d
             s == n % d
  <1>1. /\ p \in Nat /\ r \in Nat /\ r < d /\ m = d * p + r
        /\ q \in Nat /\ s \in Nat /\ s < d /\ n = d * q + s
    BY Division
  <1>2. d * p \in Nat /\ d * q \in Nat
    BY <1>1, Product
  <1>3. Quantize(m, d) \in {p, p + 1} /\ Quantize(n, d) \in {q, q + 1}
    BY DEF Quantize
  <1>4. p <= q
    <2>1. d * p < d * q + d
      <3> HIDE DEF p, q, r, s
      <3> QED
        BY <1>1, <1>2
    <2> HIDE DEF p, q, r, s
    <2> QED
      BY <1>1, <2>1, Factors
  <1>5. CASE p < q
    <2> HIDE DEF p, q, r, s
    <2> QED
      BY <1>1, <1>3, <1>5
  <1>6. CASE p = q
    <2>1. r <= s
      <3> HIDE DEF p, q, r, s
      <3> QED
        BY <1>1, <1>2, <1>6
    <2>2. /\ Quantize(m, d) = IF 2 * r < d \/ (2 * r = d /\ p % 2 = 0) THEN p ELSE p + 1
          /\ Quantize(n, d) = IF 2 * s < d \/ (2 * s = d /\ q % 2 = 0) THEN q ELSE q + 1
      BY DEF Quantize
    <2> HIDE DEF p, q, r, s
    <2> QED
      BY <1>1, <1>6, <2>1, <2>2
  <1> QED
    BY <1>1, <1>4, <1>5, <1>6

(***************************************************************************)
(* Costs, credits and the estimate                                         *)
(***************************************************************************)
(* Costs and credits are natural numbers of quanta.                        *)
LEMMA AmountsAreNatural ==
  ASSUME NEW i \in Nat, NEW o \in Nat
  PROVE  /\ TotalCost(i, o) \in Nat
         /\ TotalCost(i, o) * RateNum \in Nat
         /\ Credits(i, o) \in Nat
  <1>1. i * InputPrice \in Nat /\ o * OutputPrice \in Nat
    BY PricesAssumption, Product
  <1>2. TotalCost(i, o) \in Nat
    BY <1>1, PricesAssumption, QuantizeNear DEF TotalCost, PartCost
  <1>3. TotalCost(i, o) * RateNum \in Nat
    BY <1>2, RateAssumption, Product
  <1> QED
    BY <1>2, <1>3, RateAssumption, QuantizeNear DEF Credits, CreditsForCost

(* More tokens never cost fewer credits, whatever is rounded on the way.   *)
LEMMA CreditsMonotone ==
  ASSUME NEW i \in Nat, NEW o \in Nat, NEW j \in Nat, NEW p \in Nat, i <= j, o <= p
  PROVE  Credits(i, o) <= Credits(j, p)
  <1>1. /\ i * InputPrice \in Nat /\ j * InputPrice \in Nat
        /\ o * OutputPrice \in Nat /\ p * OutputPrice \in Nat
    BY PricesAssumption, Product
  <1>2. i * InputPrice <= j * InputPrice /\ o * OutputPrice <= p * OutputPrice
    <2>1. /\ InputPrice * i <= InputPrice * j
          /\ OutputPrice * o <= OutputPrice * p
      BY PricesAssumption, ProductMonotone
    <2>2. /\ InputPrice * i = i * InputPrice /\ InputPrice * j = j * InputPrice
          /\ OutputPrice * o = o * OutputPrice /\ OutputPrice * p = p * OutputPrice
      BY PricesAssumption
    <2> QED
      BY <2>1, <2>2
  <1>3. /\ PartCost(i, InputPrice) <= PartCost(j, InputPrice)
        /\ PartCost(o, OutputPrice) <= PartCost(p, OutputPrice)
    BY <1>1, <1>2, PricesAssumption, QuantizeMonotone DEF PartCost
  <1>4. /\ PartCost(i, InputPrice) \in Nat /\ PartCost(j, InputPrice) \in Nat
        /\ PartCost(o, OutputPrice) \in Nat /\ PartCost(p, OutputPrice) \in Nat
    BY <1>1, PricesAssumption, QuantizeNear DEF PartCost
  <1>5. TotalCost(i, o) <= TotalCost(j, p)
    BY <1>3, <1>4 DEF TotalCost
  <1>6. TotalCost(i, o) * RateNum <= TotalCost(j, p) * RateNum
    <2>1. RateNum * TotalCost(i, o) <= RateNum * TotalCost(j, p)
      BY <1>5, AmountsAreNatural, RateAssumption, ProductMonotone
    <2>2. /\ RateNum * TotalCost(i, o) = TotalCost(i, o) * RateNum
          /\ RateNum * TotalCost(j, p) = TotalCost(j, p) * RateNum
      BY AmountsAreNatural, RateAssumption
    <2> QED
      BY <2>1, <2>2
  <1> QED
    BY <1>6, AmountsAreNatural, RateAssumption, QuantizeMonotone DEF Credits, CreditsForCost

(* The estimate is a natural number, and it is an upper bound on every     *)
(* token count of at most CharsPerToken characters a token, the overhead   *)
(* tokens coming on top.                                                   *)
LEMMA EstimateCovers ==
  ASSUME NEW chars \in Nat
  PROVE  /\ EstimatePromptTokens(chars) \in Nat
         /\ \A i \in Nat :
                CharsPerToken * i <= chars + CharsPerToken * OverheadTokens
                    => i <= EstimatePromptTokens(chars)
  <1> DEFINE n == chars + CharsPerToken - 1
             q == n \div CharsPerToken
             r == n % CharsPerToken
  <1>1. /\ CharsPerToken \in Nat \ {0} /\ OverheadTokens \in Nat
        /\ n \in Nat
    BY EstimateAssumption
  <1>2. q \in Nat /\ r \in 0..(CharsPerToken - 1) /\ n = CharsPerToken * q + r
    <2> HIDE DEF n
    <2> QED
      BY <1>1, Division
  <1>3. EstimatePromptTokens(chars) = q + OverheadTokens
    BY DEF EstimatePromptTokens
  <1>4. ASSUME NEW i \in Nat, CharsPerToken * i <= chars + CharsPerToken * OverheadTokens
        PROVE  i <= q + OverheadTokens
    <2>1. CharsPerToken * (q + OverheadTokens) = CharsPerToken * q + CharsPerToken * OverheadTokens
      <3> HIDE DEF q
      <3> QED
        BY <1>1, <1>2
    <2>2. /\ CharsPerToken * q \in Nat /\ CharsPerToken * OverheadTokens \in Nat
          /\ CharsPerToken * i \in Nat
      <3> HIDE DEF q
      <3> QED
        BY <1>1, <1>2, Product
    <2>3. CharsPerToken * i < CharsPerToken * (q + OverheadTokens) + CharsPerToken
      <3>1. n = chars + CharsPerToken - 1
        OBVIOUS
      <3> HIDE DEF n, q, r
      <3> QED
        BY <1>1, <1>2, <1>4, <2>1, <2>2, <3>1
    <2>4. q + OverheadTokens \in Nat
      BY <1>1, <1>2
    <2> HIDE DEF q
    <2> QED
      BY <1>1, <2>3, <2>4, Factors
  <1> QED
    BY <1>1, <1>2, <1>3, <1>4

(***************************************************************************)
(* The metering of calls                                                   *)
(***************************************************************************)
(* Every amount of the meter is a natural number of quanta.                *)
THEOREM MeterTypeCorrect == MeterSpec => []MeterTypeOK
  <1>1. MeterInit => MeterTypeOK
    BY EstimateAssumption DEF MeterInit, MeterTypeOK
  <1>2. MeterTypeOK /\ [MeterNext]_meterVars => MeterTypeOK'
    <2> SUFFICES ASSUME MeterTypeOK, [MeterNext]_meterVars PROVE MeterTypeOK'
      OBVIOUS
    <2>1. CASE UNCHANGED meterVars
      BY <2>1 DEF MeterTypeOK, meterVars
    <2>2. ASSUME NEW c \in 0..MaxChars, NEW i \in 0..EstimatePromptTokens(MaxChars),
                 NEW o \in 0..MaxOutputTokens, Meter(c, i, o)
          PROVE  MeterTypeOK'
      <3>1. /\ c \in Nat /\ i \in Nat /\ o \in Nat
            /\ EstimatePromptTokens(c) \in Nat /\ MaxOutputTokens \in Nat
        BY EstimateAssumption, EstimateCovers
      <3>2. /\ Credits(i, o) \in Nat /\ TotalCost(i, o) \in Nat
            /\ Credits(EstimatePromptTokens(c), MaxOutputTokens) \in Nat
        BY <3>1, AmountsAreNatural
      <3> QED
        BY <2>2, <3>2, EstimateAssumption DEF Meter, MeterTypeOK
    <2> QED
      BY <2>1, <2>2 DEF MeterNext
  <1> QED
    BY <1>1, <1>2, PTL DEF MeterSpec

(* Whatever the prices, the rate and the rounding, usage that the token    *)
(* estimate covers is charged no more than the pre-flight check asked for: *)
(* UsageMeter.ensure_can_afford is on the safe side of UsageMeter.record.  *)
THEOREM CheckCoversCharge == MeterSpec => []ChargeWithinCheck
  <1>1. MeterInit => ChargeWithinCheck
    BY DEF MeterInit, ChargeWithinCheck
  <1>2. ChargeWithinCheck /\ [MeterNext]_meterVars => ChargeWithinCheck'
    <2> SUFFICES ASSUME ChargeWithinCheck, [MeterNext]_meterVars PROVE ChargeWithinCheck'
      OBVIOUS
    <2>1. CASE UNCHANGED meterVars
      BY <2>1 DEF ChargeWithinCheck, meterVars
    <2>2. ASSUME NEW c \in 0..MaxChars, NEW i \in 0..EstimatePromptTokens(MaxChars),
                 NEW o \in 0..MaxOutputTokens, Meter(c, i, o)
          PROVE  ChargeWithinCheck'
      <3>1. /\ c \in Nat /\ i \in Nat /\ o \in Nat
            /\ EstimatePromptTokens(c) \in Nat /\ MaxOutputTokens \in Nat
        BY EstimateAssumption, EstimateCovers
      <3>2. i <= EstimatePromptTokens(c) /\ o <= MaxOutputTokens
        BY <2>2, <3>1, EstimateAssumption, EstimateCovers DEF Meter
      <3>3. Credits(i, o) <= Credits(EstimatePromptTokens(c), MaxOutputTokens)
        BY <3>1, <3>2, CreditsMonotone
      <3> QED
        BY <2>2, <3>3 DEF Meter, ChargeWithinCheck
    <2> QED
      BY <2>1, <2>2 DEF MeterNext
  <1> QED
    BY <1>1, <1>2, PTL DEF MeterSpec

(* Quantizing call by call never lets the credits deducted and the dollars *)
(* recorded drift apart by more than half a quantum a call.                *)
THEOREM DriftBounded == MeterSpec => []CreditsFollowCost
  <1>1. MeterInit => CreditsFollowCost
    BY RateAssumption DEF MeterInit, CreditsFollowCost
  <1>2. MeterTypeOK /\ CreditsFollowCost /\ [MeterNext]_meterVars => CreditsFollowCost'
    <2> SUFFICES ASSUME MeterTypeOK, CreditsFollowCost, [MeterNext]_meterVars
                 PROVE  CreditsFollowCost'
      OBVIOUS
    <2>1. CASE UNCHANGED meterVars
      BY <2>1 DEF CreditsFollowCost, meterVars
    <2>2. ASSUME NEW c \in 0..MaxChars, NEW i \in 0..EstimatePromptTokens(MaxChars),
                 NEW o \in 0..MaxOutputTokens, Meter(c, i, o)
          PROVE  CreditsFollowCost'
      <3> DEFINE cost == TotalCost(i, o)
                 credits == Credits(i, o)
      <3>1. i \in Nat /\ o \in Nat
        BY EstimateAssumption, EstimateCovers
      <3>2. cost \in Nat /\ credits \in Nat /\ cost * RateNum \in Nat
        BY <3>1, AmountsAreNatural
      <3>3. /\ 2 * (RateDen * credits - cost * RateNum) <= RateDen
            /\ 2 * (cost * RateNum - RateDen * credits) <= RateDen
            /\ RateDen * credits \in Nat
        BY <3>2, RateAssumption, QuantizeNear DEF Credits, CreditsForCost
      <3>4. totalCost' = totalCost + cost /\ spent' = spent + credits /\ calls' = calls + 1
        BY <2>2 DEF Meter
      <3>5. /\ RateDen \in Nat /\ RateNum \in Nat /\ calls \in Nat
            /\ totalCost \in Nat /\ spent \in Nat
        BY RateAssumption, EstimateAssumption DEF MeterTypeOK
      <3> HIDE DEF cost, credits
      <3>6. /\ RateDen * (spent + credits) = RateDen * spent + RateDen * credits
            /\ RateNum * (totalCost + cost) = RateNum * totalCost + cost * RateNum
            /\ RateDen * (calls + 1) = RateDen * calls + RateDen
        BY <3>2, <3>5
      <3>7. /\ RateDen * spent \in Nat /\ RateNum * totalCost \in Nat
            /\ RateDen * calls \in Nat
        BY <3>5, Product
      <3>8. /\ 2 * (RateDen * spent - RateNum * totalCost) <= RateDen * calls
            /\ -(RateDen * calls) <= 2 * (RateDen * spent - RateNum * totalCost)
        BY DEF CreditsFollowCost
      <3>9. /\ 2 * (RateDen * spent' - RateNum * totalCost') <= RateDen * calls'
            /\ -(RateDen * calls') <= 2 * (RateDen * spent' - RateNum * totalCost')
        BY <3>2, <3>3, <3>4, <3>5, <3>6, <3>7, <3>8
      <3> QED
        BY <3>9 DEF CreditsFollowCost
    <2> QED
      BY <2>1, <2>2 DEF MeterNext
  <1> QED
    BY <1>1, <1>2, MeterTypeCorrect, PTL DEF MeterSpec
=============================================================================
