---------------------------- MODULE RateLimiter ----------------------------
(***************************************************************************)
(* acceptorwrapper/rate_limiter.go: a connection accepts "limit" messages  *)
(* in any span of "interval" and drops the others.  The limiter keeps only *)
(* the times of the last "limit" messages it accepted.                     *)
(***************************************************************************)
EXTENDS Naturals, Sequences, FiniteSets

CONSTANTS Limit,     \* config.RateLimiting.Limit
          Interval,  \* config.RateLimiting.Interval, in ticks
          MaxTime    \* bound: the last tick

RateConstants == Limit \in Nat \ {0} /\ Interval \in Nat /\ MaxTime \in Nat

VARIABLES now,       \* the clock
          times,     \* the list of the limiter
          accepted,  \* when messages were let through (history)
          arrivals   \* messages of the current tick, bounded by Limit + 1

rateVars == <<now, times, accepted, arrivals>>

RateInit == now = 0 /\ times = << >> /\ accepted = << >> /\ arrivals = 0

Tick ==
  /\ now < MaxTime /\ now' = now + 1 /\ arrivals' = 0
  /\ UNCHANGED <<times, accepted>>

(* shouldRateLimit, and the list afterwards: a free slot is taken, the     *)
(* oldest one is used again when it is old enough.                         *)
shouldRateLimit == Len(times) >= Limit /\ now - Head(times) < Interval

TakenInPlace == IF Len(times) < Limit THEN Append(times, now) ELSE <<now>> \o Tail(times)

Taken == Append(IF Len(times) < Limit THEN times ELSE Tail(times), now)

(* GetNextMessage passes a message on or drops it.                         *)
GetNextMessage ==
  /\ arrivals <= Limit /\ arrivals' = arrivals + 1
  /\ IF shouldRateLimit THEN UNCHANGED <<times, accepted>>
     ELSE times' = Taken /\ accepted' = Append(accepted, now)
  /\ UNCHANGED now

RateNext == Tick \/ GetNextMessage

RateSpec == RateInit /\ [][RateNext]_rateVars
-----------------------------------------------------------------------------
(* Every variable keeps its type.                                          *)
RateTypeOK ==
  /\ now \in 0 .. MaxTime /\ arrivals \in 0 .. Limit + 1
  /\ times \in Seq(0 .. MaxTime) /\ Len(times) <= Limit /\ accepted \in Seq(0 .. MaxTime)

Recent == {i \in DOMAIN accepted : now - accepted[i] < Interval}

(* '"limit" is the number of requests it accepts during an "interval"':    *)
(* the list decides as counting every message of the last interval would,  *)
(* so no span of an interval gets more, and no message is dropped while    *)
(* the span has room.                                                      *)
LimitExact ==
  /\ shouldRateLimit <=> Cardinality(Recent) >= Limit
  /\ \A i \in DOMAIN accepted : i + Limit \in DOMAIN accepted => accepted[i + Limit] - accepted[i] >= Interval

=============================================================================
