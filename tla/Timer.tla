------------------------------- MODULE Timer -------------------------------
(***************************************************************************)
(* The timers of timer/timer.go as pitaya.NewTimer and NewCountTimer       *)
(* (timer.go) create them.  The logic goroutine (HandlerService.Dispatch)  *)
(* alternates between a Cron round and the two channels, in any order;     *)
(* other goroutines create timers and stop them.  Channels are unordered   *)
(* here: Dispatch treats their messages independently of each other.       *)
(***************************************************************************)
EXTENDS Integers, FiniteSets

CONSTANTS Timers,      \* timer ids
          Count,       \* the count each is created with, LoopForever or more
          None,        \* no timer
          Capacity,    \* capacity of the two channels
          Backlog      \* timerBacklog, which SetTimerBacklog changes alone

LoopForever == -1

VARIABLES
  timers,    \* Manager.timers
  created,   \* copies of a timer in ChCreatedTimer
  enqueued,  \* how often the creator has put a timer into ChCreatedTimer
  closing,   \* copies of a timer's id in ChClosingTimer
  closed,    \* Timer.closed
  counter,   \* Timer.counter
  logic,     \* what the logic goroutine is doing, and with which timer
  round,     \* timers the current Cron round has still to visit
  caller     \* where the call of Stop by another goroutine is

vars == <<timers, created, enqueued, closing, closed, counter, logic, round, caller>>

(* The number of messages in a channel of one or two copies per timer.     *)
Size(ch) == Cardinality({<<t, n>> \in Timers \X (1..4) : n <= ch[t]})

Init ==
  /\ timers = {} /\ created = [t \in Timers |-> 0] /\ enqueued = [t \in Timers |-> 0]
  /\ closing = [t \in Timers |-> 0] /\ closed = [t \in Timers |-> FALSE]
  /\ counter = Count
  /\ logic = [at |-> "select", t |-> None] /\ round = {}
  /\ caller = [t \in Timers |-> "none"]
-----------------------------------------------------------------------------
(* pitaya.NewCountTimer: timer.NewTimer puts the timer into the channel,   *)
(* and NewCountTimer puts it there again.                                  *)
NewCountTimer(t) ==
  /\ enqueued[t] < 2 /\ Size(created) < Capacity
  /\ enqueued' = [enqueued EXCEPT ![t] = @ + 1]
  /\ created' = [created EXCEPT ![t] = @ + 1]
  /\ UNCHANGED <<timers, closing, closed, counter, logic, round, caller>>

(* Stop, called by the goroutine that created the timer: a test of the     *)
(* channel's length, then the send, then the flag.                         *)
StopBegin(t) ==
  /\ caller[t] = "none" /\ enqueued[t] = 2
  /\ \/ closed[t] /\ caller' = [caller EXCEPT ![t] = "returned"] /\ UNCHANGED counter
     \/ /\ ~closed[t] /\ Size(closing) < Backlog
        /\ caller' = [caller EXCEPT ![t] = "send"] /\ UNCHANGED counter
     \/ /\ ~closed[t] /\ Size(closing) >= Backlog
        /\ counter' = [counter EXCEPT ![t] = 0]
        /\ caller' = [caller EXCEPT ![t] = "returned"]
  /\ UNCHANGED <<timers, created, enqueued, closing, closed, logic, round>>

StopSend(t) ==
  /\ caller[t] = "send" /\ Size(closing) < Capacity
  /\ closing' = [closing EXCEPT ![t] = @ + 1]
  /\ closed' = [closed EXCEPT ![t] = TRUE]
  /\ caller' = [caller EXCEPT ![t] = "returned"]
  /\ UNCHANGED <<timers, created, enqueued, counter, logic, round>>
-----------------------------------------------------------------------------
(* The logic goroutine.                                                    *)

AddTimer(t) ==
  /\ logic.at = "select" /\ created[t] > 0
  /\ created' = [created EXCEPT ![t] = @ - 1]
  /\ timers' = timers \cup {t}
  /\ UNCHANGED <<enqueued, closing, closed, counter, logic, round, caller>>

RemoveTimer(t) ==
  /\ logic.at = "select" /\ closing[t] > 0
  /\ closing' = [closing EXCEPT ![t] = @ - 1]
  /\ timers' = timers \ {t}
  /\ UNCHANGED <<created, enqueued, closed, counter, logic, round, caller>>

Cron ==
  /\ logic.at = "select"
  /\ logic' = [logic EXCEPT !.at = "cron"] /\ round' = timers
  /\ UNCHANGED <<timers, created, enqueued, closing, closed, counter, caller>>

CronEnds ==
  /\ logic.at = "cron" /\ round = {}
  /\ logic' = [logic EXCEPT !.at = "select"]
  /\ UNCHANGED <<timers, created, enqueued, closing, closed, counter, round, caller>>

(* A timer that has used up its count is stopped, unless it is already     *)
(* closed or the channel is full.                                          *)
CronExpired(t) ==
  /\ logic.at = "cron" /\ t \in round /\ counter[t] = 0
  /\ round' = round \ {t}
  /\ logic' = IF Size(closing) < Backlog /\ ~closed[t]
              THEN [at |-> "send", t |-> t] ELSE logic
  /\ UNCHANGED <<timers, created, enqueued, closing, closed, counter, caller>>

CronSend ==
  /\ logic.at = "send" /\ Size(closing) < Capacity
  /\ closing' = [closing EXCEPT ![logic.t] = @ + 1]
  /\ closed' = [closed EXCEPT ![logic.t] = TRUE]
  /\ logic' = [at |-> "cron", t |-> None]
  /\ UNCHANGED <<timers, created, enqueued, counter, round, caller>>

(* A timer that is not due yet, or whose condition does not hold.          *)
CronSkip(t) ==
  /\ logic.at = "cron" /\ t \in round /\ counter[t] # 0
  /\ round' = round \ {t}
  /\ UNCHANGED <<timers, created, enqueued, closing, closed, counter, logic, caller>>

(* A timer that is due: fn is called, and then the count is tested and     *)
(* lowered; closed is not looked at.                                       *)
CronFire(t) ==
  /\ logic.at = "cron" /\ t \in round /\ counter[t] # 0
  /\ round' = round \ {t}
  /\ logic' = [at |-> "fired", t |-> t]
  /\ UNCHANGED <<timers, created, enqueued, closing, closed, counter, caller>>

(* The test and the decrement are two accesses of a field that Stop writes *)
(* without synchronisation.                                                *)
CronTest ==
  /\ logic.at = "fired"
  /\ logic' = IF counter[logic.t] > 0 THEN [logic EXCEPT !.at = "lower"]
              ELSE [at |-> "cron", t |-> None]
  /\ UNCHANGED <<timers, created, enqueued, closing, closed, counter, round, caller>>

CronLower ==
  /\ logic.at = "lower"
  /\ counter' = [counter EXCEPT ![logic.t] = @ - 1]
  /\ logic' = [at |-> "cron", t |-> None]
  /\ UNCHANGED <<timers, created, enqueued, closing, closed, round, caller>>
-----------------------------------------------------------------------------
Logic ==
  \/ \E t \in Timers : AddTimer(t) \/ RemoveTimer(t) \/ CronExpired(t) \/ CronSkip(t) \/ CronFire(t)
  \/ Cron \/ CronEnds \/ CronSend \/ CronTest \/ CronLower

Next ==
  \/ \E t \in Timers : NewCountTimer(t) \/ StopBegin(t) \/ StopSend(t)
  \/ Logic

(* The ticker ticks, a select chooses every ready case again and again, a  *)
(* due timer is executed, and a goroutine inside Stop runs.                *)
FairSpec ==
  /\ Init /\ [][Next]_vars
  /\ WF_vars(Logic) /\ SF_vars(Cron)
  /\ \A t \in Timers : /\ SF_vars(AddTimer(t)) /\ SF_vars(RemoveTimer(t))
                       /\ SF_vars(CronFire(t)) /\ WF_vars(StopSend(t))
-----------------------------------------------------------------------------
(* What the comment of Timer.Stop promises: "After Stop, fn will not be    *)
(* called forever".  Once Stop has returned, Cron sooner or later never    *)
(* calls fn again.                                                         *)
StopIsFinal ==
  \A t \in Timers :
    caller[t] = "returned" ~> [](~(logic.at = "fired" /\ logic.t = t))


(* Timers that pitaya.NewTimer creates: all loop for ever.                 *)
LoopCount == [t \in Timers |-> LoopForever]
=============================================================================
