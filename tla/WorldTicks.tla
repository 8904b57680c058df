----------------------------- MODULE WorldTicks -----------------------------
(***************************************************************************)
(* WorldUpdateLoop of the server (Server.cpp) on the clock of Timer.h: the *)
(* loop measures each tick, runs World::Update and sleeps, so that ticks   *)
(* begin WORLD_SLEEP_CONST milliseconds apart.  getMSTime is a uint32 of   *)
(* milliseconds of system_clock: it wraps at W, and may be set back while  *)
(* the program runs.                                                       *)
(***************************************************************************)
EXTENDS Integers

CONSTANTS W,                  \* values of a uint32: 2^32 in the code
          WORLD_SLEEP_CONST,  \* 50 in the code
          MaxWork,            \* bound: milliseconds of one World::Update
          MaxLate,            \* bound: milliseconds a sleep takes too long
          MaxBack             \* bound: milliseconds the clock is set back during a tick

(* Assumed of the constants: a clock goes through several ticks before it  *)
(* wraps.                                                                  *)
Constants ==
  /\ W \in Nat /\ WORLD_SLEEP_CONST \in Nat \ {0}
  /\ MaxWork \in Nat /\ MaxLate \in Nat /\ MaxBack \in Nat
  /\ 2 * WORLD_SLEEP_CONST + MaxWork + MaxLate + 3 * MaxBack + 4 < W

Clock == 0..W-1

VARIABLES
  pc,             \* "loop", "update" or "sleep"
  clock,          \* getMSTime()
  realPrevTime,
  diff,
  prevSleepTime,
  elapsed,        \* history: milliseconds since the tick began
  back,           \* history: of them, how many the clock was set back
  planned,        \* history: the sleep planned in the tick before
  lastElapsed, lastBack   \* history: elapsed and back of the tick before

history == <<planned, lastElapsed, lastBack>>
vars == <<pc, clock, realPrevTime, diff, prevSleepTime, elapsed, back, history>>

TypeOK == /\ pc \in {"loop", "update", "sleep"}
          /\ clock \in Clock /\ realPrevTime \in Clock
          /\ diff \in Clock /\ prevSleepTime \in Clock
          /\ elapsed \in Nat /\ back \in 0..MaxBack
          /\ planned \in Clock /\ lastElapsed \in Nat /\ lastBack \in 0..MaxBack

Init == /\ pc = "loop"
        /\ clock = 0 /\ realPrevTime = 0
        /\ diff = 0 /\ prevSleepTime = 0
        /\ elapsed = 0 /\ back = 0
        /\ planned = 0 /\ lastElapsed = 0 /\ lastBack = 0

-----------------------------------------------------------------------------
(* uint32 arithmetic, for 0 <= n < W.                                      *)
Plus(t, n)  == IF t + n >= W THEN t + n - W ELSE t + n
Minus(t, n) == IF t >= n THEN t - n ELSE t - n + W

(* Fault: a clock behind the last reading counts as no time.               *)
getMSTimeDiffPlain(oldMSTime, newMSTime) ==
  IF oldMSTime > newMSTime THEN 0 ELSE newMSTime - oldMSTime

(* The overflow costs a millisecond: from W - 1 to 0 it counts none.       *)
getMSTimeDiff(oldMSTime, newMSTime) ==
  IF oldMSTime > newMSTime THEN (W - 1 - oldMSTime) + newMSTime
                           ELSE newMSTime - oldMSTime

-----------------------------------------------------------------------------
BeginTick == /\ pc = "loop" /\ pc' = "update"
             /\ diff' = getMSTimeDiff(realPrevTime, clock)
             /\ realPrevTime' = clock
             /\ elapsed' = 0 /\ back' = 0
             /\ planned' = prevSleepTime /\ lastElapsed' = elapsed /\ lastBack' = back
             /\ UNCHANGED <<clock, prevSleepTime>>

(* Fault: the previous sleep is counted as work.                           *)
UpdateForgetsSleep == /\ pc = "update" /\ pc' = "sleep"
                      /\ \E t \in 0..MaxWork : clock' = Plus(clock, t) /\ elapsed' = elapsed + t
                      /\ prevSleepTime' = IF diff <= WORLD_SLEEP_CONST
                                          THEN WORLD_SLEEP_CONST - diff ELSE 0
                      /\ UNCHANGED <<realPrevTime, diff, back, history>>

(* Fault: the length of the sleep is not checked for an underflow.         *)
UpdateUnguarded == /\ pc = "update" /\ pc' = "sleep"
                   /\ \E t \in 0..MaxWork : clock' = Plus(clock, t) /\ elapsed' = elapsed + t
                   /\ prevSleepTime' = WORLD_SLEEP_CONST + prevSleepTime - diff
                   /\ UNCHANGED <<realPrevTime, diff, back, history>>

(* World::Update, and the length of the sleep after it.                    *)
Update == /\ pc = "update" /\ pc' = "sleep"
          /\ \E t \in 0..MaxWork : clock' = Plus(clock, t) /\ elapsed' = elapsed + t
          /\ prevSleepTime' = IF diff <= WORLD_SLEEP_CONST + prevSleepTime
                              THEN WORLD_SLEEP_CONST + prevSleepTime - diff ELSE 0
          /\ UNCHANGED <<realPrevTime, diff, back, history>>

(* sleep_for sleeps as long as it is told, or longer.                      *)
Sleep == /\ pc = "sleep" /\ pc' = "loop"
         /\ \E t \in prevSleepTime .. prevSleepTime + MaxLate :
              clock' = Plus(clock, t) /\ elapsed' = elapsed + t
         /\ UNCHANGED <<realPrevTime, diff, prevSleepTime, back, history>>

(* system_clock is adjusted.                                               *)
SetBack == /\ \E b \in 1 .. MaxBack - back : clock' = Minus(clock, b) /\ back' = back + b
           /\ UNCHANGED <<pc, realPrevTime, diff, prevSleepTime, elapsed, history>>

Next == BeginTick \/ Update \/ Sleep \/ SetBack

Spec == Init /\ [][Next]_vars

-----------------------------------------------------------------------------
(* The millisecond that is not counted when the clock wrapped in the tick  *)
(* before.                                                                 *)
Overflow == IF realPrevTime + lastBack < lastElapsed THEN 1 ELSE 0

(* The loop never sleeps longer than a tick should take, but for what the  *)
(* clock was set back in the tick before and the millisecond of an         *)
(* overflow, whatever the updates took: long sleeps do not add up          *)
(* (Server.cpp:77-84).                                                     *)
SleepBounded == pc # "update" => prevSleepTime <= WORLD_SLEEP_CONST + lastBack + Overflow

(* "We want (t0 + d1) == WORLD_SLEEP_CONST" (Server.cpp:73-76): the sleep  *)
(* makes up for exactly the time the tick before took beyond its planned   *)
(* sleep, work and late wake-up, unless that is too long already, or the   *)
(* clock was touched.  After an overflow the sum is one too many.          *)
Balanced ==
  pc = "sleep" /\ lastBack = 0 =>
    LET t0 == lastElapsed - planned
    IN IF t0 <= WORLD_SLEEP_CONST
       THEN prevSleepTime + t0 = WORLD_SLEEP_CONST + Overflow
       ELSE prevSleepTime = 0

(* "getMSTime() have limited data range and this is case when it overflow  *)
(* in this tick" (Timer.h:16): the difference is the time that passed.     *)
DiffIsElapsed == pc = "update" /\ lastBack = 0 => diff = lastElapsed
=============================================================================
