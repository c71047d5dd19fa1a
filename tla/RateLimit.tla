----------------------------- MODULE RateLimit -----------------------------
(***************************************************************************)
(* The rate limiter (ratelimit/rateLimit.go) as the gRPC interceptor       *)
(* (handler/interceptors.go) and the HTTP handler                          *)
(* (handler/httphandler/http.go) use it.                                   *)
(*                                                                         *)
(* The token bucket itself is golang.org/x/time/rate.  Time is counted in  *)
(* milliseconds, and so is the credit of the bucket: a token is worth      *)
(* Interval milliseconds of filling, Burst tokens fill it.                 *)
(***************************************************************************)
EXTENDS Integers

CONSTANTS
  RatePerMin,   \* rate_limit_per_minute; 0: not configured
  BurstSize,    \* burst_size; 0: not configured
  Minute,       \* milliseconds of a minute
  DaemonType,   \* daemon_type: "grpc" or "http"
  MaxTime       \* bound: milliseconds that are looked at

ASSUME RateAssumption ==
  /\ RatePerMin \in Nat /\ BurstSize \in Nat
  /\ Minute \in Nat \ {0} /\ MaxTime \in Nat
  /\ DaemonType \in {"grpc", "http"}

VARIABLES
  now,      \* the time
  credit,   \* the limiter's tokens at the time of its last update
  last,     \* the time of its last update
  from,     \* start of the time that is looked at
  passed,   \* calls let through since then
  latest    \* when the last call was let through

rateVars == <<now, credit, last, from, passed, latest>>

\* getLimit: the milliseconds between two tokens, truncated; a limit that is
\* not configured, or an interval of zero (rate.Every), is no limit.  The code
\* truncates a floating-point quotient, which for every rate from 1 to 60000
\* is the integer quotient.
IntervalCoarse == ((Minute \div 4) \div RatePerMin) * 4   \* mutant: truncated to four milliseconds
Interval  == IF RatePerMin = 0 THEN 0 ELSE Minute \div RatePerMin
Unlimited == Interval = 0

\* NewRateLimiter: a bucket that is full; math.MaxInt32 if not configured.
Burst == IF BurstSize = 0 THEN 2147483647 ELSE BurstSize
Full  == Burst * Interval

RateTypeOK ==
  /\ now \in 0 .. MaxTime /\ last \in 0 .. now /\ from \in 0 .. now
  /\ credit \in 0 .. Full
  /\ passed \in Nat
  /\ latest \in 0 .. now

RateInit == now = 0 /\ credit = Full /\ last = 0 /\ from = 0 /\ passed = 0 /\ latest = 0

Least(a, b) == IF a <= b THEN a ELSE b

\* Limiter.advance: what has been filled since the last update, up to Full.
Available == Least(Full, credit + (now - last))

\* Limiter.Allow takes a token if there is one.
Allows == Unlimited \/ Available >= Interval

\* intercept, or ServeHTTP, lets a call through.  The interceptor keeps its
\* limiter; ServeHTTP works on the copy of the handler it was called with,
\* and so on a copy of the limiter as it was made.
KeepsLimiter == DaemonType = "grpc"
Pass ==
  /\ Allows
  /\ IF KeepsLimiter /\ ~Unlimited
     THEN credit' = Available - Interval /\ last' = now ELSE UNCHANGED <<credit, last>>
  /\ passed' = passed + 1 /\ latest' = now
  /\ UNCHANGED <<now, from>>

\* ResourceExhausted, or 429: the limiter brings itself up to date.
ThrottleForgets ==   \* mutant: the time is noted, what was filled is not
  /\ ~Allows
  /\ last' = now
  /\ UNCHANGED <<now, credit, from, passed, latest>>
Throttle ==
  /\ ~Allows
  /\ IF KeepsLimiter THEN credit' = Available /\ last' = now ELSE UNCHANGED <<credit, last>>
  /\ UNCHANGED <<now, from, passed, latest>>

\* Time passes.
Tick ==
  /\ now < MaxTime
  /\ now' = now + 1
  /\ UNCHANGED <<credit, last, from, passed, latest>>

\* History: calls are counted from some moment on, any moment.
Look ==
  /\ from' = now /\ passed' = 0
  /\ UNCHANGED <<now, credit, last, latest>>

RateNext == Pass \/ Throttle \/ Tick \/ Look
RateSpec == RateInit /\ [][RateNext]_rateVars

----------------------------------------------------------------------------
(* Correctness. *)

\* The configuration is "the rate r at which the bucket is filled" per minute
\* and the size b of the bucket (ratelimit/README.md:9-13): in any stretch of
\* time, whatever was let through before, the calls beyond b are no more than
\* r fills the bucket with in that time.  A rate that does not divide the
\* minute is exceeded, but by no more than if each token came a millisecond
\* early; a rate above one per millisecond is no limit at all.
Early == IF RatePerMin * Interval = Minute THEN 0 ELSE 1
TokenBucket ==
  RatePerMin \in 1 .. Minute =>
    (passed - Burst) * Minute <= RatePerMin * ((now - from) + Early * (passed - Burst))

\* Refusals cost nothing: however often calls were refused meanwhile, one
\* that comes an interval after the last that was let through passes.
PacedCallsPass == now - latest >= Interval => Allows

----------------------------------------------------------------------------
\* What is taken and what is left come from a full bucket and what was filled.
BucketInv ==
  /\ RateTypeOK
  /\ ~Unlimited => /\ passed * Interval + Available <= Full + (now - from)
                   /\ Least(Full, now - latest) <= Available
=============================================================================
