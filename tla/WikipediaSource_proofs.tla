----------------------- MODULE WikipediaSource_proofs -----------------------
(***************************************************************************)
(* WikiInv is inductive, and with it the pacing of requests, the waits     *)
(* that servers ask for and the time a fetch takes hold for any intervals, *)
(* caps, timeouts and headers.                                             *)
(***************************************************************************)
EXTENDS WikipediaSource, TLAPS

(* One more factor is one more summand.                                    *)
LEMMA OneMore == ASSUME NEW a \in Int, NEW b \in Int PROVE (a + 1) * b = a * b + b
  OBVIOUS

(* Factors keep their order.                                               *)
LEMMA Monotone ==
  ASSUME NEW a \in Int, NEW b \in Int, NEW c \in Nat, a <= b
  PROVE  a * c <= b * c
<1>1. b - a \in Nat  OBVIOUS
<1>2. (b - a) * c \in Nat  BY <1>1
<1>3. (b - a) * c = b * c - a * c  OBVIOUS
<1> QED  BY <1>2, <1>3

LEMMA AttemptTimeNat == AttemptTime \in Nat /\ MinInterval + Late <= AttemptTime
  BY TimesAssumption DEF AttemptTime

(* An answer and the sleep after it use up what is left of an attempt.     *)
LEMMA ShareOfAttempt ==
  ASSUME NEW share \in Int, NEW start \in Int, NEW now \in Int, NEW later \in Int,
         now - start <= share + MinInterval + Late,
         later <= now + Timeout + MaxBackoff + Late
  PROVE  later - start <= share + AttemptTime
  BY TimesAssumption DEF AttemptTime

(* A wait is between zero and the cap.                                     *)
LEMMA CappedDelay ==
  ASSUME NEW s \in Int, s >= 0
  PROVE  Capped(s) \in 0 .. MaxBackoff
  BY TimesAssumption DEF Capped

(* A delay is a number.                                                    *)
LEMMA DelayIsInt ==
  ASSUME NEW asked \in RetryAfters \union {NoHeader}, attempt \in 0 .. MaxAttempts - 1
  PROVE  Delay(asked) \in Int
<1>1. attempt \in 0 .. MaxAttempts  BY TimesAssumption
<1>2. 2 ^ attempt \in Nat  BY <1>1, PowersAssumption
<1> QED  BY <1>2, TimesAssumption DEF Delay

(* Sleeping out the delay is sleeping as long as was asked, cap applied.   *)
LEMMA SleepCoversDue ==
  ASSUME NEW asked \in RetryAfters \union {NoHeader}, NEW now \in Nat,
         attempt \in 0 .. MaxAttempts - 1, Delay(asked) >= 0
  PROVE  Due(now, asked) \in Int /\ Due(now, asked) <= now + Capped(Delay(asked))
<1>1. Delay(asked) \in Int  BY DelayIsInt
<1>2. Capped(Delay(asked)) \in 0 .. MaxBackoff  BY <1>1, CappedDelay
<1>3. CASE asked = NoHeader  BY <1>2, <1>3, TimesAssumption DEF Due
<1>4. CASE asked # NoHeader
  <2>1. asked \in Int  BY <1>4, TimesAssumption
  <2>2. Capped(asked) \in Int  BY <2>1, TimesAssumption DEF Capped
  <2>3. CASE asked = 0
    <3>1. Capped(asked) = 0  BY <2>3, TimesAssumption DEF Capped
    <3> QED  BY <1>2, <1>4, <3>1, TimesAssumption DEF Due
  <2>4. CASE asked # 0
    <3>1. Delay(asked) = asked  BY <1>4, <2>4 DEF Delay
    <3> QED  BY <1>4, <2>2, <3>1, TimesAssumption DEF Due
  <2> QED  BY <2>3, <2>4
<1> QED  BY <1>3, <1>4

LEMMA InitInv == Init => WikiInv
<1> SUFFICES ASSUME Init PROVE WikiInv  OBVIOUS
<1>1. WikiTypeOK  BY TimesAssumption DEF Init, WikiTypeOK, Outcomes
<1>2. ClockInv  BY TimesAssumption DEF Init, ClockInv
<1>3. RateInv  BY DEF Init, RateInv
<1>4. TimeInv /\ RetriesWaitAsAsked  BY DEF Init, TimeInv, RetriesWaitAsAsked
<1> QED  BY <1>1, <1>2, <1>3, <1>4 DEF WikiInv

LEMMA FetchInv == ASSUME WikiInv, Fetch PROVE WikiInv'
<1> USE TimesAssumption DEF WikiInv
<1>1. PICK pause \in Pauses : clock' = clock + pause  BY DEF Fetch
<1>2. clock' \in Nat /\ clock <= clock'  BY <1>1 DEF WikiTypeOK
<1>3. WikiTypeOK'  BY <1>2 DEF Fetch, WikiTypeOK, Outcomes
<1>4. ClockInv'  BY <1>2 DEF Fetch, WikiTypeOK, ClockInv
<1>5. RateInv'  BY DEF Fetch, RateInv
<1>6. TimeInv'  BY <1>2, AttemptTimeNat DEF Fetch, TimeInv
<1>7. RetriesWaitAsAsked'  BY DEF Fetch, RetriesWaitAsAsked
<1> QED  BY <1>3, <1>4, <1>5, <1>6, <1>7

LEMMA SendRequestInv == ASSUME WikiInv, SendRequest PROVE WikiInv'
<1> USE TimesAssumption DEF WikiInv
<1> DEFINE wait == MinInterval - (clock - lastRequest)
<1>1. /\ clock' \in Nat
      /\ clock <= clock'
      /\ clock' <= clock + MinInterval + Late
      /\ lastRequest + MinInterval <= clock'
  <2>1. CASE wait > 0
    <3>1. PICK late \in 0 .. Late : clock' = clock + wait + late
      BY <2>1 DEF SendRequest
    <3> QED  BY <2>1, <3>1 DEF WikiTypeOK, ClockInv
  <2>2. CASE ~(wait > 0)
    <3>1. clock' = clock  BY <2>2 DEF SendRequest
    <3> QED  BY <2>2, <3>1 DEF WikiTypeOK, ClockInv
  <2> QED  BY <2>1, <2>2
<1>2. WikiTypeOK'  BY <1>1 DEF SendRequest, WikiTypeOK, Outcomes
<1>3. ClockInv'  BY <1>1 DEF SendRequest, WikiTypeOK, ClockInv
<1>4. RateInv'
  <2>1. requests' = requests + 1 /\ requests \in Nat /\ lastRequest' = clock'
    BY DEF SendRequest, WikiTypeOK
  <2>2. CASE requests = 0
    <3>1. (requests' - 1) * MinInterval = 0  BY <2>1, <2>2
    <3> QED  BY <1>1, <2>1, <2>2, <3>1 DEF RateInv
  <2>3. CASE requests > 0
    <3>1. requests * MinInterval = (requests - 1) * MinInterval + MinInterval
      BY <2>1, OneMore
    <3>2. lastRequest >= (requests - 1) * MinInterval  BY <2>3 DEF RateInv
    <3>3. requests' - 1 = requests  BY <2>1
    <3>4. lastRequest \in Int  BY DEF WikiTypeOK
    <3>5. (requests - 1) * MinInterval \in Int  BY <2>1
    <3>6. clock' >= (requests - 1) * MinInterval + MinInterval
      BY <1>1, <3>2, <3>4, <3>5
    <3> QED  BY <2>1, <3>1, <3>3, <3>6 DEF RateInv
  <2> QED  BY <2>1, <2>2, <2>3
<1>5. TimeInv'
  <2>1. phase = "pacing" /\ phase' = "requesting" /\ attempt' = attempt /\ began' = began
    BY DEF SendRequest
  <2>2. clock - began <= attempt * AttemptTime  BY <2>1 DEF TimeInv
  <2>3. attempt * AttemptTime \in Int  BY AttemptTimeNat DEF WikiTypeOK
  <2>4. clock' - began <= attempt * AttemptTime + MinInterval + Late
    BY <1>1, <2>2, <2>3 DEF WikiTypeOK
  <2> QED  BY <2>1, <2>4 DEF TimeInv
<1>6. RetriesWaitAsAsked'
  BY <1>1 DEF SendRequest, RetriesWaitAsAsked, ClockInv, WikiTypeOK
<1> QED  BY <1>2, <1>3, <1>4, <1>5, <1>6

LEMMA BackOffInv == ASSUME WikiInv, BackOff PROVE WikiInv'
<1> USE TimesAssumption DEF WikiInv
<1>1. PICK took \in 0 .. Timeout, late \in 0 .. Late, asked \in RetryAfters \union {NoHeader} :
         /\ Delay(asked) >= 0
         /\ clock' = clock + took + Capped(Delay(asked)) + late
         /\ notBefore' = Due(clock + took, asked)
  BY DEF BackOff
<1>2. attempt \in 0 .. MaxAttempts - 1 /\ attempt + 1 \in 0 .. MaxAttempts - 1
  BY DEF BackOff, MayRetry, WikiTypeOK
<1>3. Delay(asked) \in Int  BY <1>2, DelayIsInt
<1>4. Capped(Delay(asked)) \in 0 .. MaxBackoff  BY <1>1, <1>3, CappedDelay
<1>5. clock + took \in Nat  BY DEF WikiTypeOK
<1>6. notBefore' \in Int /\ notBefore' <= clock + took + Capped(Delay(asked))
  BY <1>1, <1>2, <1>5, SleepCoversDue
<1>7. /\ clock' \in Nat /\ clock <= clock' /\ notBefore' <= clock'
      /\ clock' <= clock + Timeout + MaxBackoff + Late
  BY <1>1, <1>4, <1>6 DEF WikiTypeOK
<1>8. WikiTypeOK'  BY <1>2, <1>6, <1>7 DEF BackOff, WikiTypeOK, Outcomes
<1>9. ClockInv'  BY <1>7 DEF BackOff, ClockInv, WikiTypeOK
<1>10. RateInv'  BY DEF BackOff, RateInv
<1>11. TimeInv'
  <2>1. phase = "requesting" /\ phase' = "pacing" /\ attempt' = attempt + 1 /\ began' = began
    BY DEF BackOff
  <2>2. clock - began <= attempt * AttemptTime + MinInterval + Late
    BY <2>1 DEF TimeInv
  <2>3. (attempt + 1) * AttemptTime = attempt * AttemptTime + AttemptTime
    BY <1>2, AttemptTimeNat, OneMore
  <2>4. attempt * AttemptTime \in Int  BY <1>2, AttemptTimeNat
  <2>5. clock' - began <= attempt * AttemptTime + AttemptTime
    BY <1>7, <2>2, <2>4, ShareOfAttempt DEF WikiTypeOK
  <2> QED  BY <2>1, <2>3, <2>5 DEF TimeInv
<1>12. RetriesWaitAsAsked'  BY DEF BackOff, RetriesWaitAsAsked
<1> QED  BY <1>8, <1>9, <1>10, <1>11, <1>12

LEMMA EndInv == ASSUME WikiInv, NEW result \in Outcomes, End(result) PROVE WikiInv'
<1> USE TimesAssumption DEF WikiInv
<1>1. PICK took \in 0 .. Timeout : clock' = clock + took  BY DEF End
<1>2. clock' \in Nat /\ clock <= clock' /\ clock' <= clock + Timeout + MaxBackoff + Late
  BY <1>1 DEF WikiTypeOK
<1>3. WikiTypeOK'  BY <1>2 DEF End, fetchVars, WikiTypeOK
<1>4. ClockInv'  BY <1>2 DEF End, fetchVars, ClockInv, WikiTypeOK
<1>5. RateInv'  BY DEF End, fetchVars, RateInv
<1>6. TimeInv'
  <2>1. phase = "requesting" /\ phase' = "idle" /\ attempt' = attempt /\ began' = began
    BY DEF End, fetchVars
  <2>2. clock - began <= attempt * AttemptTime + MinInterval + Late
    BY <2>1 DEF TimeInv
  <2>3. (attempt + 1) * AttemptTime = attempt * AttemptTime + AttemptTime
    BY AttemptTimeNat, OneMore DEF WikiTypeOK
  <2>4. attempt * AttemptTime \in Int  BY AttemptTimeNat DEF WikiTypeOK
  <2>5. clock' - began <= attempt * AttemptTime + AttemptTime
    BY <1>2, <2>2, <2>4, ShareOfAttempt DEF WikiTypeOK
  <2> QED  BY <2>1, <2>3, <2>5 DEF TimeInv
<1>7. RetriesWaitAsAsked'  BY DEF End, RetriesWaitAsAsked
<1> QED  BY <1>3, <1>4, <1>5, <1>6, <1>7

LEMMA NextInv == ASSUME WikiInv, [Next]_vars PROVE WikiInv'
<1>1. CASE Fetch  BY <1>1, FetchInv
<1>2. CASE SendRequest  BY <1>2, SendRequestInv
<1>3. CASE BackOff  BY <1>3, BackOffInv
<1>4. CASE SleepFails \/ Unavailable
  <2>1. "unavailable" \in Outcomes /\ End("unavailable")
    BY <1>4 DEF SleepFails, Unavailable, Outcomes
  <2> QED  BY <2>1, EndInv
<1>5. CASE ParsePage
  <2>1. PICK result \in Outcomes : End(result)  BY <1>5 DEF ParsePage, Outcomes
  <2> QED  BY <2>1, EndInv
<1>6. CASE UNCHANGED vars
  BY <1>6 DEF WikiInv, WikiTypeOK, ClockInv, RateInv, TimeInv, RetriesWaitAsAsked,
              vars, fetchVars
<1> QED  BY <1>1, <1>2, <1>3, <1>4, <1>5, <1>6 DEF Next

(* The invariant behind the three properties below: the clock, the last    *)
(* request and the attempt's share of time fit together at every step of   *)
(* _get_with_backoff.                                                      *)
THEOREM WikiInductive == Spec => []WikiInv
<1>1. Init => WikiInv  BY InitInv
<1>2. WikiInv /\ [Next]_vars => WikiInv'  BY NextInv
<1> QED  BY <1>1, <1>2, PTL DEF Spec

(* Type correctness of the Wikipedia source.                               *)
THEOREM WikiTypeCorrect == Spec => []WikiTypeOK
<1>1. WikiInv => WikiTypeOK  BY DEF WikiInv
<1> QED  BY <1>1, WikiInductive, PTL

(* Wikimedia etiquette: whatever fails and is retried, no more than one    *)
(* request is sent each min_interval_seconds.                              *)
THEOREM Etiquette == Spec => []RateIsBounded
<1>1. WikiInv => RateIsBounded
  <2> SUFFICES ASSUME WikiInv, requests > 0
               PROVE  clock >= (requests - 1) * MinInterval
    BY DEF RateIsBounded
  <2>1. (requests - 1) * MinInterval \in Int
    BY TimesAssumption DEF WikiInv, WikiTypeOK
  <2> QED  BY <2>1 DEF WikiInv, RateInv, ClockInv, WikiTypeOK
<1> QED  BY <1>1, WikiInductive, PTL

(* A retry waits as long as the server's Retry-After asked, up to the cap. *)
THEOREM RetryAfterHonoured == Spec => []RetriesWaitAsAsked
<1>1. WikiInv => RetriesWaitAsAsked  BY DEF WikiInv
<1> QED  BY <1>1, WikiInductive, PTL

(* No sequence of answers makes fetch take longer than its attempts, each  *)
(* with its interval, timeout and capped sleep.                            *)
THEOREM FetchEndsInTime == Spec => []FetchIsTimely
<1>1. WikiInv => FetchIsTimely
  <2> SUFFICES ASSUME WikiInv, phase = "idle", outcome # "none"
               PROVE  clock - began <= MaxAttempts * AttemptTime
    BY DEF FetchIsTimely
  <2>1. clock - began <= (attempt + 1) * AttemptTime  BY DEF WikiInv, TimeInv
  <2>2. attempt + 1 \in Int /\ attempt + 1 <= MaxAttempts /\ MaxAttempts \in Int
    BY TimesAssumption DEF WikiInv, WikiTypeOK
  <2>3. (attempt + 1) * AttemptTime <= MaxAttempts * AttemptTime
    BY <2>2, AttemptTimeNat, Monotone
  <2>4. /\ (attempt + 1) * AttemptTime \in Int /\ MaxAttempts * AttemptTime \in Int
        /\ clock - began \in Int
    BY <2>2, AttemptTimeNat DEF WikiInv, WikiTypeOK
  <2> QED  BY <2>1, <2>3, <2>4
<1> QED  BY <1>1, WikiInductive, PTL
=============================================================================
