------------------------------- MODULE Timers -------------------------------
(***************************************************************************)
(* The timers of Common/Timer.h, one of each class, moved by one loop that *)
(* tells all of them the time a turn took, as WorldUpdateLoop tells        *)
(* World::Update.  The loop looks at a timer and resets it when it likes;  *)
(* a PeriodicTimer resets itself.  int32 and uint32 have W values here and *)
(* wrap; time_t has no bound.                                              *)
(***************************************************************************)
EXTENDS Integers

CONSTANTS W,          \* values of an int32
          Diff,       \* what a turn may take, a uint32
          Interval,   \* intervals of an IntervalTimer
          Expiry,     \* expiries of a tracker, a uint32
          Period,     \* periods and start times of a PeriodicTimer, an int32
          MaxTime     \* bound: time that passes in all

(* Assumed of the constants.                                               *)
Constants == /\ W \in Nat \ {0} /\ W % 2 = 0
             /\ Diff \subseteq 0..W-1 /\ Interval \subseteq Nat
             /\ Expiry \subseteq 0..W-1 /\ Period \subseteq 1 .. W \div 2 - 1
             /\ MaxTime \in Nat

Int32(n)  == ((n + W \div 2) % W) - W \div 2
Larger(m, n) == IF m > n THEN m ELSE n

VARIABLES
  up,         \* the process runs (FALSE: a division by zero ended it)
  interval,   \* IntervalTimer: [_interval, _current]
  tracker,    \* TimeTracker::i_expiryTime
  small,      \* TimeTrackerSmall::i_expiryTime
  periodic,   \* PeriodicTimer: [i_period, i_expireTime]
  time,       \* history: the time that passed, and since and with what
  since       \*   each timer was set, how often `periodic` expired, and
              \*   the longest turn it saw

timers == <<interval, tracker, small, periodic>>
vars   == <<up, timers, time, since>>

Int32s == -(W \div 2) .. W \div 2 - 1

TypeOK == /\ up \in BOOLEAN
          /\ interval \in [_interval : Nat, _current : Nat]
          /\ tracker \in Int /\ small \in Int32s
          /\ periodic \in [i_period : Period, i_expireTime : Int32s]
          /\ time \in 0..MaxTime
          /\ since \in [interval : Nat, tracker : Nat, expiry : Expiry, periodic : Nat,
                        start : Period, expired : Nat, longest : Nat]

(* The constructors; an interval timer has no interval yet.                *)
NewInterval       == [_interval |-> 0, _current |-> 0]
NewTracker(e)     == e
NewSmall(e)       == Int32(e)
NewPeriodic(p, s) == [i_period |-> p, i_expireTime |-> s]

Init == \E e \in Expiry, p, s \in Period :
  /\ up = TRUE
  /\ interval = NewInterval
  /\ tracker = NewTracker(e)
  /\ small = NewSmall(e)
  /\ periodic = NewPeriodic(p, s)
  /\ time = 0
  /\ since = [interval |-> 0, tracker |-> 0, expiry |-> e,
              periodic |-> 0, start |-> s, expired |-> 0, longest |-> 0]

-----------------------------------------------------------------------------
IntervalPassed == interval._current >= interval._interval
TrackerPassed  == tracker <= 0
SmallPassed    == small <= 0

(* IntervalTimer::Update.                                                  *)
IntervalUpdate(diff) ==
  [interval EXCEPT !._current = IF @ + diff < 0 THEN 0 ELSE @ + diff]

(* What a PeriodicTimer that expired is set forward by.                    *)
Forward(timer, diff) == IF timer.i_period > Int32(diff) THEN timer.i_period ELSE diff

(* Fault: a late turn starts a whole period.                               *)
PeriodicUpdateRestarts(diff) ==
  LET left == Int32(periodic.i_expireTime - diff)
  IN  [timer |-> [periodic EXCEPT !.i_expireTime = IF left > 0 THEN left ELSE Int32(left + @)],
       passed |-> left <= 0]

(* PeriodicTimer::Update: the timer after it, and what it returns.         *)
PeriodicUpdate(diff) ==
  LET left == Int32(periodic.i_expireTime - diff)
  IN  [timer |-> [periodic EXCEPT !.i_expireTime =
                    IF left > 0 THEN left ELSE Int32(left + Forward(periodic, diff))],
       passed |-> left <= 0]

(* The tracker interface of a PeriodicTimer, as a caller uses it: TUpdate, *)
(* then TReset with its period if TPassed.                                 *)
TUpdate(timer, diff) == [timer EXCEPT !.i_expireTime = Int32(@ - diff)]
TPassed(timer)       == timer.i_expireTime <= 0
TReset(timer, diff)  == [timer EXCEPT !.i_expireTime = Int32(@ + Forward(timer, diff))]

TrackedUpdate(diff) ==
  LET timer == TUpdate(periodic, diff)
  IN  [timer |-> IF TPassed(timer) THEN TReset(timer, diff) ELSE timer, passed |-> TPassed(timer)]

TrackerUpdate(diff) == tracker - diff
SmallUpdate(diff)   == Int32(small - diff)

(* A turn of the loop that took diff; p is what became of the PeriodicTimer*)
Update(diff, p) ==
  /\ up /\ time + diff <= MaxTime
  /\ interval' = IntervalUpdate(diff)
  /\ tracker' = TrackerUpdate(diff)
  /\ small' = SmallUpdate(diff)
  /\ periodic' = p.timer
  /\ time' = time + diff
  /\ since' = [since EXCEPT !.interval = @ + diff, !.tracker = @ + diff, !.periodic = @ + diff,
                            !.expired = IF p.passed THEN @ + 1 ELSE @,
                            !.longest = Larger(@, diff)]
  /\ UNCHANGED up

(* Fault: what the last turn took too long is lost.                        *)
IntervalResetDrops ==
  /\ up /\ IntervalPassed /\ interval._interval # 0
  /\ interval' = [interval EXCEPT !._current = 0]
  /\ UNCHANGED <<up, tracker, small, periodic, time, since>>

(* IntervalTimer::Reset, which leaves a timer alone that has not passed.   *)
IntervalReset ==
  /\ up /\ IntervalPassed /\ interval._interval # 0
  /\ interval' = [interval EXCEPT !._current = @ % interval._interval]
  /\ UNCHANGED <<up, tracker, small, periodic, time, since>>

(* Of a timer without an interval, as it is constructed, it takes the      *)
(* remainder by zero.                                                      *)
DivideByZero ==
  /\ up /\ IntervalPassed /\ interval._interval = 0
  /\ up' = FALSE
  /\ UNCHANGED <<timers, time, since>>

(* SetInterval leaves _current; SetCurrent starts over.                    *)
SetInterval(i) ==
  /\ up
  /\ interval' = [interval EXCEPT !._interval = i]
  /\ since' = [since EXCEPT !.interval = interval._current]
  /\ UNCHANGED <<up, tracker, small, periodic, time>>

SetCurrent ==
  /\ up
  /\ interval' = [interval EXCEPT !._current = 0]
  /\ since' = [since EXCEPT !.interval = 0]
  /\ UNCHANGED <<up, tracker, small, periodic, time>>

SmallReset(i) == Int32(i)

(* TimeTracker::Reset and TimeTrackerSmall::Reset, at any time.            *)
TrackerReset(i) ==
  /\ up
  /\ tracker' = i
  /\ small' = SmallReset(i)
  /\ since' = [since EXCEPT !.tracker = 0, !.expiry = i]
  /\ UNCHANGED <<up, interval, periodic, time>>

SetPeriodic(p, s) ==
  /\ up
  /\ periodic' = [i_period |-> p, i_expireTime |-> s]
  /\ since' = [since EXCEPT !.periodic = 0, !.start = s, !.expired = 0, !.longest = 0]
  /\ UNCHANGED <<up, interval, tracker, small, time>>

Next == \/ \E diff \in Diff : \E p \in {PeriodicUpdate(diff), TrackedUpdate(diff)} :
             Update(diff, p)
        \/ IntervalReset \/ DivideByZero \/ SetCurrent
        \/ \E i \in Interval : SetInterval(i)
        \/ \E i \in Expiry : TrackerReset(i)
        \/ \E p, s \in Period : SetPeriodic(p, s)

Spec == Init /\ [][Next]_vars

-----------------------------------------------------------------------------
(* The resets of an IntervalTimer do not shift its ticks: however late the *)
(* turns are, it is where the time since SetInterval says.                 *)
InPhase == interval._interval # 0 =>
             interval._current % interval._interval = since.interval % interval._interval

(* A tracker has passed exactly when its time is over; the 32-bit one too, *)
(* while what is left, or over, is an int32: an expiry of 2^31 or more has *)
(* passed from the start.                                                  *)
PassedInTime ==
  LET rest == since.expiry - since.tracker
  IN  /\ TrackerPassed <=> rest <= 0
      /\ rest \in Int32s => (SmallPassed <=> rest <= 0)
      /\ rest \in W \div 2 .. W - 1 => SmallPassed

(* A PeriodicTimer is never left expired, and however late the turns are,  *)
(* it expires no more often than once per period, and waits no longer than *)
(* for a period or for the longest turn; unless a turn took 2^31 or more.  *)
Periodic ==
  LET p == periodic.i_period
  IN  since.longest < W \div 2 =>
        /\ periodic.i_expireTime > 0
        /\ since.expired > 0 => (since.expired - 1) * p + since.start <= since.periodic
        /\ periodic.i_expireTime <= Larger(since.start, Larger(p, since.longest))
=============================================================================
