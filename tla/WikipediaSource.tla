-------------------------- MODULE WikipediaSource --------------------------
(***************************************************************************)
(* The Wikipedia source of the ingestion CLI: fetches one after the other, *)
(* each up to MaxAttempts requests to the MediaWiki API, spaced and backed *)
(* off against an explicit clock (ingestion/sources/wikipedia.py).         *)
(* Times are whole seconds.                                                *)
(***************************************************************************)
EXTENDS Integers

CONSTANTS
    MaxAttempts,   \* max_attempts
    MinInterval,   \* min_interval_seconds
    MaxBackoff,    \* _MAX_BACKOFF_SECONDS
    Timeout,       \* the longest a whole request takes, its body included
    Late,          \* by how much time.sleep may oversleep
    RetryAfters,   \* numbers a server may send as Retry-After
    NoHeader,      \* no Retry-After, or one that is not a number (a date)
    Pauses,        \* how long the CLI may take between two fetches
    MaxFetches     \* bound on the number of fetches

ASSUME TimesAssumption ==
    /\ MaxAttempts \in Nat \ {0}
    /\ MinInterval \in Nat /\ MaxBackoff \in Nat
    /\ Timeout \in Nat /\ Late \in Nat
    /\ RetryAfters \subseteq Int /\ NoHeader \notin Int
    /\ Pauses \subseteq Nat
    /\ MaxFetches \in Nat

ASSUME PowersAssumption == \A a \in 0 .. MaxAttempts : 2 ^ a \in Nat

VARIABLES
    clock,         \* time.monotonic
    phase,         \* what the source does next
    attempt,       \* of the running fetch
    lastRequest,   \* _last_request
    outcome,       \* of the last fetch that ended
    began,         \* when the running fetch was called
    notBefore,     \* when its next request is due by Retry-After, cap applied
    requests,      \* requests sent so far
    fetches        \* fetches called so far

fetchVars == <<began, notBefore, requests, fetches>>
vars == <<clock, phase, attempt, lastRequest, outcome, fetchVars>>

Outcomes == {"none", "document", "not_found", "unavailable"}

WikiTypeOK ==
    /\ clock \in Nat
    /\ phase \in {"idle", "pacing", "requesting"}
    /\ attempt \in 0 .. MaxAttempts - 1
    /\ lastRequest \in Int
    /\ outcome \in Outcomes
    /\ began \in Nat
    /\ notBefore \in Int
    /\ requests \in Nat
    /\ fetches \in 0 .. MaxFetches

(* _last_request begins at minus infinity: the first request never waits.  *)
Init ==
    /\ clock = 0
    /\ phase = "idle"
    /\ attempt = 0
    /\ lastRequest = -MinInterval
    /\ outcome = "none"
    /\ began = 0
    /\ notBefore = 0
    /\ requests = 0
    /\ fetches = 0

(* fetch is called; the source and its _last_request live through all.     *)
Fetch ==
    /\ phase = "idle"
    /\ fetches < MaxFetches
    /\ \E pause \in Pauses : clock' = clock + pause
    /\ phase' = "pacing"
    /\ attempt' = 0
    /\ outcome' = "none"
    /\ began' = clock'
    /\ notBefore' = clock'
    /\ fetches' = fetches + 1
    /\ UNCHANGED <<lastRequest, requests>>

(* Mutant: the time since the last request is not looked at.               *)
SendUnpaced ==
    /\ phase = "pacing"
    /\ clock' = clock
    /\ lastRequest' = clock'
    /\ phase' = "requesting"
    /\ requests' = requests + 1
    /\ UNCHANGED <<attempt, outcome, began, notBefore, fetches>>

(* Sleep for what is left of the minimum interval, then send.              *)
SendRequest ==
    /\ phase = "pacing"
    /\ LET wait == MinInterval - (clock - lastRequest)
       IN  IF wait > 0 THEN \E late \in 0 .. Late : clock' = clock + wait + late
                       ELSE clock' = clock
    /\ lastRequest' = clock'
    /\ phase' = "requesting"
    /\ requests' = requests + 1
    /\ UNCHANGED <<attempt, outcome, began, notBefore, fetches>>

(* Mutant: Retry-After is not read.                                        *)
DelayIgnoringHeader(asked) == 2 * 2 ^ attempt

(* _retry_after(response) or 2.0 * 2**attempt: a Retry-After of 0 counts   *)
(* as none.                                                                *)
Delay(asked) == IF asked \in {NoHeader, 0} THEN 2 * 2 ^ attempt ELSE asked

(* Mutant: the cap is forgotten.                                           *)
Uncapped(seconds) == seconds

Capped(seconds) == IF seconds > MaxBackoff THEN MaxBackoff ELSE seconds

(* What the server asked for, as far as the source promises to wait.       *)
Due(now, asked) == IF asked = NoHeader THEN now ELSE now + Capped(asked)

MayRetry == attempt < MaxAttempts - 1

(* 429 or 503 with attempts left: sleep, then go on to the next request.   *)
BackOff ==
    /\ phase = "requesting"
    /\ MayRetry
    /\ \E took \in 0 .. Timeout, late \in 0 .. Late, asked \in RetryAfters \union {NoHeader} :
          /\ Delay(asked) >= 0
          /\ clock' = clock + took + Capped(Delay(asked)) + late
          /\ notBefore' = Due(clock + took, asked)
    /\ phase' = "pacing"
    /\ attempt' = attempt + 1
    /\ UNCHANGED <<lastRequest, outcome, began, requests, fetches>>

End(result) ==
    /\ phase = "requesting"
    /\ \E took \in 0 .. Timeout : clock' = clock + took
    /\ phase' = "idle"
    /\ outcome' = result
    /\ UNCHANGED <<attempt, lastRequest, fetchVars>>

(* A negative Retry-After makes time.sleep raise ValueError, which fetch   *)
(* takes for invalid JSON.                                                 *)
SleepFails ==
    /\ MayRetry
    /\ \E asked \in RetryAfters : Delay(asked) < 0
    /\ End("unavailable")

(* The last attempt too was answered 429 or 503, another error status, no  *)
(* answer, or no JSON.                                                     *)
Unavailable == End("unavailable")

(* parse_page: an error of the API, no page, a missing, invalid or         *)
(* disambiguation page, or an article.                                     *)
ParsePage ==
    \E page \in {"error", "none", "missing", "invalid", "disambiguation", "article"} :
        End(IF page = "error" THEN "unavailable"
            ELSE IF page = "article" THEN "document"
            ELSE "not_found")

Next == Fetch \/ SendRequest \/ BackOff \/ SleepFails \/ Unavailable \/ ParsePage

Spec == Init /\ [][Next]_vars

(* Over any number of fetches and retries, however they end, the source    *)
(* has not sent more requests since its first than one each MinInterval    *)
(* (Wikimedia etiquette): an average over the run, however long its sleeps.*)
(* That each two in a row are MinInterval apart is SendRequest's guard.    *)
RateIsBounded == requests > 0 => clock >= (requests - 1) * MinInterval

(* Within a fetch, a request after a 429 or 503 is not sent before the     *)
(* time its Retry-After asked for in seconds, up to the cap, whatever the  *)
(* backoff and the pacing come to. A Retry-After that is a date is not     *)
(* waited for: _retry_after takes it for none (wikipedia.py:104-108).      *)
RetriesWaitAsAsked == phase = "requesting" => lastRequest >= notBefore

(* The longest one attempt can take with the sleep after it.               *)
AttemptTime == MinInterval + Timeout + MaxBackoff + 2 * Late

(* A fetch comes to its end in bounded time, whatever status and headers   *)
(* the server answers with, if each request takes Timeout at most. The     *)
(* client's timeout bounds each read of a response and not their sum, so a *)
(* body that trickles in for longer is outside this.                       *)
FetchIsTimely ==
    phase = "idle" /\ outcome # "none" => clock - began <= MaxAttempts * AttemptTime

(***************************************************************************)
(* The inductive invariant                                                 *)
(***************************************************************************)
ClockInv ==
    /\ lastRequest <= clock
    /\ began <= clock
    /\ phase = "pacing" => notBefore <= clock

(* Requests so far, and the interval after the last of them.               *)
RateInv ==
    /\ requests = 0 => lastRequest = -MinInterval
    /\ requests > 0 => lastRequest >= (requests - 1) * MinInterval

(* Each attempt has its share of time.                                     *)
TimeInv ==
    /\ phase = "pacing" => clock - began <= attempt * AttemptTime
    /\ phase = "requesting" =>
          clock - began <= attempt * AttemptTime + MinInterval + Late
    /\ phase = "idle" /\ outcome # "none" =>
          clock - began <= (attempt + 1) * AttemptTime

WikiInv ==
    /\ WikiTypeOK
    /\ ClockInv
    /\ RateInv
    /\ TimeInv
    /\ RetriesWaitAsAsked
=============================================================================
