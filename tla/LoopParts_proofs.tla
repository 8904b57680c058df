--------------------------- MODULE LoopParts_proofs ---------------------------
(***************************************************************************)
(* The parts of LoopParts keep what they promise for every value of their  *)
(* constants: the world loop never sleeps much longer than a tick and its  *)
(* sleeps make up for what its turns took; timers tell the time that       *)
(* passed; a LockedQueue is a queue for a taker that goes about it in      *)
(* several calls; a player is where the server was told and no faster than *)
(* it should be; the view follows the cursor; and everything is drawn      *)
(* where it is.                                                            *)
(*                                                                         *)
(* Each part has an inductive invariant of its own; the last section puts  *)
(* them together.                                                          *)
(***************************************************************************)
EXTENDS LoopParts, SequenceTheorems, TLAPS

-----------------------------------------------------------------------------
(* What the clock shows, whether or not it wrapped since the tick began.   *)
ClockInv == \/ clock = realPrevTime + elapsed - back
            \/ clock = realPrevTime + elapsed - back - W
            \/ clock = realPrevTime + elapsed - back + W

(* How long the tick has lasted: at its end no less than its sleep.        *)
ElapsedInv ==
  /\ pc = "update" => elapsed = 0
  /\ pc = "sleep"  => elapsed <= MaxWork
  /\ pc = "loop"   => prevSleepTime <= elapsed /\ elapsed <= MaxWork + prevSleepTime + MaxLate

(* The previous sleep is contained in the difference that is to be         *)
(* subtracted from it, but for what the clock lost.                        *)
DiffInv == pc = "update" => prevSleepTime <= diff + lastBack + Ticks!Overflow

SleepInv == prevSleepTime <= WORLD_SLEEP_CONST + MaxBack + 1

(* What Update works with: the sleep planned in the tick before, and a      *)
(* difference that is the length of that tick or, after an overflow, one   *)
(* millisecond less.                                                       *)
MeasuredInv ==
  pc = "update" => /\ planned = prevSleepTime
                   /\ lastBack = 0 => diff = lastElapsed - Ticks!Overflow

TicksInv == Ticks!TypeOK /\ ClockInv /\ ElapsedInv /\ DiffInv /\ SleepInv /\ Ticks!SleepBounded

(* Additions and subtractions of uint32 stay in range.                     *)
LEMMA UintArithmetic ==
  ASSUME NEW t \in Ticks!Clock, NEW n \in Nat, n < W
  PROVE  /\ Ticks!Plus(t, n) \in Ticks!Clock /\ Ticks!Plus(t, n) \in {t + n, t + n - W}
         /\ Ticks!Minus(t, n) \in Ticks!Clock /\ Ticks!Minus(t, n) \in {t - n, t - n + W}
BY ConstantsAssumption DEF Ticks!Constants, Ticks!Plus, Ticks!Minus, Ticks!Clock

(* The first tick: nothing measured, nothing slept.                        *)
LEMMA TicksInit == Ticks!Init => TicksInv
BY ConstantsAssumption
   DEF Ticks!Constants, Ticks!Init, TicksInv, Ticks!TypeOK, ClockInv, ElapsedInv, DiffInv,
       SleepInv, Ticks!SleepBounded, Ticks!Overflow, Ticks!Clock

LEMMA TicksNext == TicksInv /\ [Ticks!Next]_ticksVars => TicksInv'
<1> SUFFICES ASSUME TicksInv, [Ticks!Next]_ticksVars PROVE TicksInv'
  OBVIOUS
<1> USE ConstantsAssumption DEF Ticks!Constants, TicksInv, Ticks!TypeOK, ClockInv,
                               ElapsedInv, DiffInv, SleepInv, Ticks!SleepBounded, Ticks!Clock,
                               Ticks!Overflow
<1>1. CASE Ticks!BeginTick
  <2>1. diff' \in Ticks!Clock
    BY <1>1 DEF Ticks!BeginTick, Ticks!getMSTimeDiff
  <2>2. prevSleepTime <= diff' + back + Ticks!Overflow'
    BY <1>1 DEF Ticks!BeginTick, Ticks!getMSTimeDiff
  <2>3. Ticks!TypeOK'
    BY <1>1, <2>1 DEF Ticks!BeginTick, Ticks!history
  <2>4. ClockInv' /\ ElapsedInv' /\ DiffInv' /\ SleepInv' /\ Ticks!SleepBounded'
    BY <1>1, <2>2 DEF Ticks!BeginTick, Ticks!history
  <2> QED BY <2>3, <2>4
<1>2. CASE Ticks!Update
  <2>1. PICK t \in 0..MaxWork : clock' = Ticks!Plus(clock, t) /\ elapsed' = elapsed + t
    BY <1>2 DEF Ticks!Update
  <2>2. t \in Nat /\ t < W
    BY <2>1
  <2>3. clock' \in Ticks!Clock /\ clock' \in {clock + t, clock + t - W}
    BY <2>1, <2>2, UintArithmetic
  <2>4. /\ pc = "update" /\ pc' = "sleep" /\ UNCHANGED <<realPrevTime, diff, back, Ticks!history>>
        /\ prevSleepTime' = IF diff <= WORLD_SLEEP_CONST + prevSleepTime
                            THEN WORLD_SLEEP_CONST + prevSleepTime - diff ELSE 0
    BY <1>2 DEF Ticks!Update
  <2>5. /\ prevSleepTime' \in Nat
        /\ prevSleepTime' <= WORLD_SLEEP_CONST + lastBack + Ticks!Overflow
    BY <2>4
  <2>6. Ticks!TypeOK'
    BY <2>1, <2>3, <2>4, <2>5 DEF Ticks!history
  <2>7. ClockInv'
    BY <2>1, <2>3, <2>4
  <2>8. ElapsedInv' /\ DiffInv' /\ SleepInv' /\ Ticks!SleepBounded'
    BY <2>1, <2>4, <2>5 DEF Ticks!history
  <2> QED BY <2>6, <2>7, <2>8
<1>3. CASE Ticks!Sleep
  <2>1. PICK t \in prevSleepTime .. prevSleepTime + MaxLate :
               clock' = Ticks!Plus(clock, t) /\ elapsed' = elapsed + t
    BY <1>3 DEF Ticks!Sleep
  <2>2. t \in Nat /\ t < W
    BY <2>1
  <2>3. clock' \in Ticks!Clock /\ clock' \in {clock + t, clock + t - W}
    BY <2>1, <2>2, UintArithmetic
  <2>4. /\ pc = "sleep" /\ pc' = "loop"
        /\ UNCHANGED <<realPrevTime, diff, prevSleepTime, back, Ticks!history>>
    BY <1>3 DEF Ticks!Sleep
  <2>5. Ticks!TypeOK'
    BY <2>1, <2>2, <2>3, <2>4 DEF Ticks!history
  <2>6. ClockInv'
    BY <2>1, <2>2, <2>3, <2>4
  <2>7. ElapsedInv' /\ DiffInv' /\ SleepInv' /\ Ticks!SleepBounded'
    BY <2>1, <2>4 DEF Ticks!history
  <2> QED BY <2>5, <2>6, <2>7
<1>4. CASE Ticks!SetBack
  <2>1. PICK b \in 1 .. MaxBack - back : clock' = Ticks!Minus(clock, b) /\ back' = back + b
    BY <1>4 DEF Ticks!SetBack
  <2>2. clock' \in Ticks!Clock /\ clock' \in {clock - b, clock - b + W}
    BY <2>1, UintArithmetic
  <2>3. UNCHANGED <<pc, realPrevTime, diff, prevSleepTime, elapsed, Ticks!history>>
    BY <1>4 DEF Ticks!SetBack
  <2>4. Ticks!TypeOK' /\ ElapsedInv' /\ DiffInv' /\ SleepInv' /\ Ticks!SleepBounded'
    BY <2>1, <2>2, <2>3 DEF Ticks!history
  <2>5. ClockInv'
    BY <2>1, <2>2, <2>3
  <2> QED BY <2>4, <2>5
<1>5. CASE UNCHANGED ticksVars
  BY <1>5 DEF ticksVars
<1> QED
  BY <1>1, <1>2, <1>3, <1>4, <1>5 DEF Ticks!Next

LEMMA TicksMeasured ==
  TicksInv /\ MeasuredInv /\ Ticks!Balanced /\ [Ticks!Next]_ticksVars => MeasuredInv' /\ Ticks!Balanced'
<1> SUFFICES ASSUME TicksInv, MeasuredInv, Ticks!Balanced, [Ticks!Next]_ticksVars
             PROVE  MeasuredInv' /\ Ticks!Balanced'
  OBVIOUS
<1> USE ConstantsAssumption DEF Ticks!Constants, TicksInv, Ticks!TypeOK, MeasuredInv, Ticks!Balanced, Ticks!Clock,
                               Ticks!Overflow
<1>1. CASE Ticks!BeginTick
  <2>1. /\ pc = "loop" /\ pc' = "update" /\ diff' = Ticks!getMSTimeDiff(realPrevTime, clock)
        /\ planned' = prevSleepTime /\ prevSleepTime' = prevSleepTime
        /\ lastElapsed' = elapsed /\ lastBack' = back /\ realPrevTime' = clock
    BY <1>1 DEF Ticks!BeginTick
  <2>2. elapsed + 1 < W
    BY <2>1 DEF ElapsedInv, Ticks!SleepBounded
  <2>3. ASSUME back = 0 PROVE diff' = elapsed - Ticks!Overflow'
    BY <2>1, <2>2, <2>3 DEF ClockInv, Ticks!getMSTimeDiff
  <2> QED BY <2>1, <2>3
<1>2. CASE Ticks!Update
  <2>1. /\ pc = "update" /\ pc' = "sleep" /\ UNCHANGED <<planned, lastElapsed, lastBack>>
        /\ prevSleepTime' = IF diff <= WORLD_SLEEP_CONST + planned
                            THEN WORLD_SLEEP_CONST + planned - diff ELSE 0
    BY <1>2 DEF Ticks!Update, Ticks!history
  <2>2. CASE lastBack # 0
    BY <2>1, <2>2
  <2>3. CASE lastBack = 0
    <3>1. diff = lastElapsed - Ticks!Overflow /\ Ticks!Overflow \in {0, 1}
      BY <2>1, <2>3
    <3>2. Ticks!Overflow' = Ticks!Overflow
      BY <1>2 DEF Ticks!Update, Ticks!history
    <3> QED BY <2>1, <2>3, <3>1, <3>2
  <2> QED BY <2>1, <2>2, <2>3
<1>3. CASE Ticks!Sleep
  BY <1>3 DEF Ticks!Sleep
<1>4. CASE Ticks!SetBack
  BY <1>4 DEF Ticks!SetBack, Ticks!history
<1>5. CASE UNCHANGED ticksVars
  BY <1>5 DEF ticksVars
<1> QED
  BY <1>1, <1>2, <1>3, <1>4, <1>5 DEF Ticks!Next
-----------------------------------------------------------------------------
(* The locked queue. An item goes from the front of one sequence to the    *)
(* end of the other, or is added at the end of both, and what the two have *)
(* together stays, or grows by the item.                                   *)
LEMMA HeadMoves ==
  ASSUME NEW S, NEW s \in Seq(S), NEW t \in Seq(S), t # << >>
  PROVE  /\ Head(t) \in S /\ Append(s, Head(t)) \in Seq(S) /\ Tail(t) \in Seq(S)
         /\ Append(s, Head(t)) \o Tail(t) = s \o t
<1>1. Head(t) \in S /\ Tail(t) \in Seq(S) /\ <<Head(t)>> \in Seq(S)
  BY HeadTailProperties
<1>2. <<Head(t)>> \o Tail(t) = t
  <2>1. <<Head(t)>> \o Tail(t) \in Seq(S)
    BY <1>1, ConcatProperties
  <2>2. Len(<<Head(t)>> \o Tail(t)) = Len(t)
    BY <1>1, ConcatProperties, HeadTailProperties
  <2>3. ASSUME NEW i \in 1..Len(t) PROVE (<<Head(t)>> \o Tail(t))[i] = t[i]
    BY <1>1, ConcatProperties, HeadTailProperties
  <2> QED BY <2>1, <2>2, <2>3, SeqEqual
<1>3. Append(s, Head(t)) = s \o <<Head(t)>> /\ Append(s, Head(t)) \in Seq(S)
  BY <1>1, AppendIsConcat, AppendProperties
<1>4. (s \o <<Head(t)>>) \o Tail(t) = s \o (<<Head(t)>> \o Tail(t))
  BY <1>1, ConcatAssociative
<1> QED BY <1>1, <1>2, <1>3, <1>4

LEMMA EndGrows ==
  ASSUME NEW S, NEW s \in Seq(S), NEW t \in Seq(S), NEW e \in S
  PROVE  /\ Append(t, e) \in Seq(S) /\ Append(t, e) # << >>
         /\ t # << >> => Head(Append(t, e)) = Head(t)
         /\ s \o Append(t, e) = Append(s \o t, e)
<1>1. Append(t, e) = t \o <<e>> /\ <<e>> \in Seq(S) /\ s \o t \in Seq(S)
  BY AppendIsConcat, ConcatProperties
<1>2. Append(s \o t, e) = (s \o t) \o <<e>>
  BY <1>1, AppendIsConcat
<1>3. s \o (t \o <<e>>) = (s \o t) \o <<e>>
  BY <1>1, ConcatAssociative
<1>4. Append(t, e) \in Seq(S) /\ Append(t, e) # << >>
  BY AppendProperties
<1>5. t # << >> => Head(Append(t, e)) = Head(t)
  BY HeadTailAppend
<1> QED BY <1>1, <1>2, <1>3, <1>4, <1>5

LEMMA CountGrows ==
  ASSUME NEW n \in Nat
  PROVE  Append([i \in 1..n |-> i], n + 1) = [i \in 1..n + 1 |-> i]
<1> DEFINE s == [i \in 1..n |-> i]
           t == [i \in 1..n + 1 |-> i]
<1>1. s \in Seq(Nat) /\ Len(s) = n /\ t \in Seq(Nat) /\ Len(t) = n + 1
  OBVIOUS
<1>2. /\ Append(s, n + 1) \in Seq(Nat) /\ Len(Append(s, n + 1)) = n + 1
      /\ \A i \in 1..n : Append(s, n + 1)[i] = s[i]
      /\ Append(s, n + 1)[n + 1] = n + 1
  BY <1>1, AppendProperties
<1>3. ASSUME NEW i \in 1..n + 1 PROVE Append(s, n + 1)[i] = t[i]
  <2>1. CASE i = n + 1
    BY <2>1, <1>2
  <2>2. CASE i # n + 1
    <3>1. i \in 1..n
      BY <2>2
    <3> QED BY <3>1, <1>2
  <2> QED BY <2>1, <2>2
<1> QED BY <1>1, <1>2, <1>3, SeqEqual

QueueInv == Queue!TypeOK /\ Queue!Fifo

LEMMA QueueInit == Queue!Init => QueueInv
<1> SUFFICES ASSUME Queue!Init PROVE QueueInv
  OBVIOUS
<1>1. taken \o _queue = [i \in 1..added |-> i]
  <2>1. taken = << >> /\ _queue = << >> /\ added = 0
    BY DEF Queue!Init
  <2>2. << >> \o << >> = << >>
    OBVIOUS
  <2>3. [i \in 1..0 |-> i] = << >>
    OBVIOUS
  <2> QED BY <2>1, <2>2, <2>3
<1>2. Queue!TypeOK
  <2>1. << >> \in Seq(Queue!Item)
    OBVIOUS
  <2>2. 0 \in 0..MaxItems
    BY ConstantsAssumption DEF Queue!Constants
  <2>3. _queue \in Seq(Queue!Item) /\ taken \in Seq(Queue!Item)
    BY <2>1 DEF Queue!Init
  <2> QED BY <2>2, <2>3 DEF Queue!Init, Queue!TypeOK
<1> QED BY <1>1, <1>2 DEF Queue!Init, QueueInv, Queue!Fifo

(* Each way of taking an item that is not a mere look.                     *)
LEMMA ItemTaken ==
  ASSUME Queue!TypeOK, taken' = Append(taken, Head(_queue)), _queue' = Tail(_queue), _queue # << >>
  PROVE  /\ taken' \in Seq(Queue!Item) /\ _queue' \in Seq(Queue!Item)
         /\ taken' \o _queue' = taken \o _queue
<1>1. taken \in Seq(Queue!Item) /\ _queue \in Seq(Queue!Item)
  BY DEF Queue!TypeOK
<1> QED BY <1>1, HeadMoves

LEMMA ItemAdded ==
  ASSUME Queue!TypeOK, Queue!add
  PROVE  /\ _queue' \in Seq(Queue!Item) /\ _queue' # << >>
         /\ _queue # << >> => Head(_queue') = Head(_queue)
         /\ taken' \o _queue' = Append(taken \o _queue, added + 1)
         /\ added' = added + 1 /\ added' \in 0..MaxItems /\ added \in Nat
<1>1. /\ _queue' = Append(_queue, added + 1) /\ added' = added + 1 /\ taken' = taken
      /\ added \in Nat /\ added + 1 \in Queue!Item /\ added + 1 \in 0..MaxItems
      /\ _queue \in Seq(Queue!Item) /\ taken \in Seq(Queue!Item)
  BY ConstantsAssumption DEF Queue!Constants, Queue!TypeOK, Queue!add, Queue!Item
<1>2. /\ Append(_queue, added + 1) \in Seq(Queue!Item) /\ Append(_queue, added + 1) # << >>
      /\ _queue # << >> => Head(Append(_queue, added + 1)) = Head(_queue)
      /\ taken \o Append(_queue, added + 1) = Append(taken \o _queue, added + 1)
  BY <1>1, EndGrows
<1> QED BY <1>1, <1>2

LEMMA QueueNext == QueueInv /\ [Queue!Next]_queueVars => QueueInv'
<1> SUFFICES ASSUME QueueInv, [Queue!Next]_queueVars PROVE QueueInv'
  OBVIOUS
<1> USE DEF QueueInv, Queue!TypeOK, Queue!Fifo
<1>1. CASE Queue!add
  <2>1. taken' \o _queue' = [i \in 1..added' |-> i]
    BY <1>1, ItemAdded, CountGrows
  <2> QED BY <1>1, <2>1, ItemAdded DEF Queue!add
<1>2. CASE Queue!next
  BY <1>2, ItemTaken DEF Queue!next
<1>3. CASE \E Process \in BOOLEAN : Queue!nextIf(Process)
  BY <1>3, ItemTaken DEF Queue!nextIf
<1>4. CASE \E autoUnlock \in BOOLEAN : Queue!peek(autoUnlock)
  <2>1. Head(_queue) \in 0..MaxItems
    BY <1>4, HeadTailProperties, ConstantsAssumption DEF Queue!peek, Queue!Item, Queue!Constants
  <2> QED BY <1>4, <2>1 DEF Queue!peek
<1>5. CASE Queue!pop_front
  <2>1. /\ _queue # << >> /\ item = Head(_queue) /\ taken' = Append(taken, Head(_queue))
        /\ _queue' = Tail(_queue) /\ taker' = "idle"
        /\ UNCHANGED <<_canceled, _lock, item, added>>
    BY <1>5 DEF Queue!pop_front
  <2> QED BY <2>1, ItemTaken
<1>6. CASE Queue!cancel \/ Queue!cancelled \/ Queue!empty \/ Queue!unlock
  BY <1>6 DEF Queue!cancel, Queue!cancelled, Queue!empty, Queue!unlock
<1>7. CASE UNCHANGED queueVars
  BY <1>7 DEF queueVars
<1> QED
  BY <1>1, <1>2, <1>3, <1>4, <1>5, <1>6, <1>7 DEF Queue!Next
-----------------------------------------------------------------------------
(* The player.  The way covered by the end of the next frame, which moves  *)
(* by m_dTime, is no longer than the time since.                           *)
InTimeInv == IF from = -1 THEN moved = 0 ELSE moved + m_dTime <= fTime - from

PlayerInv == Player!TypeOK /\ Player!Reported /\ InTimeInv

(* A frame moves by whole units, and turns to an angle of the circle; with *)
(* no bit of the status set, it does neither.                              *)
LEMMA WayAndTurn ==
  ASSUME Player!TypeOK, NEW status
  PROVE  /\ Player!Way(status) \in Int
         /\ Player!Way(status) * Player!Cos(m_fAngle) \in Int
         /\ Player!Way(status) * Player!Sin(m_fAngle) \in Int
         /\ Player!Turn(status) \in 0..Player!Full
         /\ status = {} => /\ Player!Turn(status) = m_fAngle
                           /\ Player!Way(status) * Player!Cos(m_fAngle) = 0
                           /\ Player!Way(status) * Player!Sin(m_fAngle) = 0
<1>1. m_dTime \in Nat /\ m_fAngle \in 0..4
  BY DEF Player!TypeOK, Player!Here, Player!Position, Player!Full
<1>2. Player!Way(status) \in Int /\ (status = {} => Player!Way(status) = 0)
  BY <1>1 DEF Player!Way
<1>3. Player!Turn(status) \in 0..Player!Full /\ (status = {} => Player!Turn(status) = m_fAngle)
  BY <1>1 DEF Player!Turn, Player!TurnLeft, Player!TrunRight, Player!Full
<1>4. Player!Cos(m_fAngle) \in Int /\ Player!Sin(m_fAngle) \in Int
  BY DEF Player!Cos, Player!Sin
<1> QED BY <1>2, <1>3, <1>4

LEMMA PlayerInit == Player!Init => PlayerInv
BY ConstantsAssumption
   DEF Player!Constants, Player!Init, PlayerInv, Player!TypeOK, Player!Reported, InTimeInv,
       Player!Here, Player!Position, Player!Origin, Player!Move, Player!Full

LEMMA PlayerNext == PlayerInv /\ [Player!Next]_avatarVars => PlayerInv'
<1> SUFFICES ASSUME PlayerInv, [Player!Next]_avatarVars PROVE PlayerInv'
  OBVIOUS
<1>1. CASE Player!Next
  <2>1. PICK now \in fTime + Rate .. fTime + Rate + MaxLate, pressed \in SUBSET Player!Key :
               Player!Run(now, pressed)
    BY <1>1 DEF Player!Next
  <2> DEFINE status == Player!CheckInput(pressed)
  <2>2. /\ m_nMoveStatus' = status /\ Player!CalcActor(status)
        /\ m_dTime' = now - fTime /\ fTime' = now
        /\ moved' = IF from = -1 THEN 0 ELSE moved + (IF Player!Way(status) = 0 THEN 0 ELSE m_dTime)
        /\ from' = IF from = -1 THEN fTime ELSE from
    BY <2>1 DEF Player!Run, Player!Draw
  <2>3. /\ fTime \in Nat /\ m_dTime \in Nat /\ moved \in Nat /\ from \in Nat \cup {-1}
        /\ now \in Nat /\ now >= fTime
    BY ConstantsAssumption DEF Player!Constants, PlayerInv, Player!TypeOK
  <2>4. /\ m_dTime' \in Nat /\ fTime' \in Nat /\ moved' \in Nat /\ from' \in Nat \cup {-1}
        /\ InTimeInv'
    BY <2>2, <2>3 DEF PlayerInv, InTimeInv
  <2>5. m_nMoveStatus' \subseteq Player!Move \cup {Player!Other}
    BY <2>2 DEF PlayerInv, Player!TypeOK, Player!CheckInput, Player!StatusOf, Player!Key, Player!Move
  <2>6. m_fX \in Int /\ m_fY \in Int /\ m_fAngle \in 0..Player!Full
    BY DEF PlayerInv, Player!TypeOK, Player!Here, Player!Position
  <2> HIDE DEF status
  <2>7. /\ m_fX' = m_fX + Player!Way(status) * Player!Cos(m_fAngle)
        /\ m_fY' = m_fY + Player!Way(status) * Player!Sin(m_fAngle)
        /\ m_fAngle' = Player!Turn(status)
        /\ sent' = IF status # {} THEN Player!Here' ELSE sent
    BY <2>2 DEF Player!CalcActor, Player!Here
  <2>8. /\ m_fX' \in Int /\ m_fY' \in Int /\ m_fAngle' \in 0..Player!Full
        /\ status = {} => m_fX' = m_fX /\ m_fY' = m_fY /\ m_fAngle' = m_fAngle
    BY <2>6, <2>7, WayAndTurn DEF PlayerInv
  <2>9. Player!Here' \in Player!Position /\ sent' = Player!Here'
    BY <2>7, <2>8 DEF PlayerInv, Player!Reported, Player!Here, Player!Position
  <2> QED BY <2>4, <2>5, <2>9 DEF PlayerInv, Player!TypeOK, Player!Reported
<1>2. CASE UNCHANGED avatarVars
  BY <1>2 DEF avatarVars, PlayerInv, Player!TypeOK, Player!Reported, InTimeInv, Player!Here
<1> QED BY <1>1, <1>2
-----------------------------------------------------------------------------
(* The view.  Between two callbacks of a drag the cursor is where the last *)
(* one saw it.                                                             *)
ViewInv == View!TypeOK /\ View!Drag /\ (bRClick = 1 => fMousePos = cursor)

LEMMA ViewInit == View!Init => ViewInv
<1> SUFFICES ASSUME View!Init PROVE ViewInv
  OBVIOUS
<1>1. 0 \in Place /\ 0 \in View!Angle /\ 0 \in -MaxScroll .. MaxScroll /\ Place \subseteq Nat
  BY ConstantsAssumption DEF View!Constants, View!Angle
<1>2. viewport \in Place \X (Place \ {0})
  BY <1>1 DEF View!Init
<1>3. drag \in [eye : View!Angle \X View!Angle, at : Place \X Place]
  BY <1>1 DEF View!Init
<1>4. cursor \in Place \X Place /\ fMousePos \in Place \X Place /\ fEyeAngle \in View!Angle \X View!Angle
  BY <1>1 DEF View!Init
<1>5. held = {} /\ bRClick = 0 /\ fTransZ = 0 /\ bTrack = FALSE /\ shouldClose = FALSE
  BY DEF View!Init
<1>6. /\ held \subseteq View!Button /\ bRClick \in {0, 1}
      /\ fTransZ \in -MaxScroll .. MaxScroll /\ bTrack \in BOOLEAN /\ shouldClose \in BOOLEAN
  BY <1>1, <1>5
<1>7. View!TypeOK
  BY <1>2, <1>3, <1>4, <1>6 DEF View!TypeOK
<1> QED BY <1>5, <1>7 DEF ViewInv, View!Drag

LEMMA ViewNext == ViewInv /\ [View!Next]_viewerVars => ViewInv'
<1> SUFFICES ASSUME ViewInv, [View!Next]_viewerVars PROVE ViewInv'
  OBVIOUS
<1> USE DEF ViewInv, View!TypeOK, View!Drag
<1>1. /\ Place \subseteq Nat
      /\ cursor[1] \in Nat /\ cursor[2] \in Nat /\ drag.at[1] \in Nat /\ drag.at[2] \in Nat
      /\ fEyeAngle[1] \in Int /\ fEyeAngle[2] \in Int
      /\ drag.eye[1] \in Int /\ drag.eye[2] \in Int
      /\ fEyeAngle = <<fEyeAngle[1], fEyeAngle[2]>>
  <2>1. Place \subseteq Nat /\ View!Angle \subseteq Int
    BY ConstantsAssumption DEF View!Constants, View!Angle
  <2>2. cursor[1] \in Place /\ cursor[2] \in Place /\ drag.at[1] \in Place /\ drag.at[2] \in Place
    OBVIOUS
  <2>3. /\ fEyeAngle[1] \in View!Angle /\ fEyeAngle[2] \in View!Angle
        /\ drag.eye[1] \in View!Angle /\ drag.eye[2] \in View!Angle
        /\ fEyeAngle = <<fEyeAngle[1], fEyeAngle[2]>>
    OBVIOUS
  <2> QED BY <2>1, <2>2, <2>3
<1>2. ASSUME NEW button \in View!Button, View!Press(button) PROVE ViewInv'
  BY <1>1, <1>2 DEF View!Press, View!Pressed, View!Button
<1>3. ASSUME NEW button \in View!Button, View!Release(button) PROVE ViewInv'
  BY <1>3 DEF View!Release
<1>4. ASSUME NEW pos \in Place \X Place, View!MoveCursor(pos) PROVE ViewInv'
  <2>1. View!TypeOK'
    BY <1>4 DEF View!MoveCursor
  <2>2. CASE bRClick = 1
    <3>1. /\ fEyeAngle' = <<fEyeAngle[1] + 2 * (pos[1] - cursor[1]), fEyeAngle[2] + (pos[2] - cursor[2])>>
          /\ cursor' = pos /\ fMousePos' = pos /\ UNCHANGED <<held, bRClick, drag>>
      BY <1>4, <2>2 DEF View!MoveCursor
    <3>2. /\ fEyeAngle[1] = drag.eye[1] + 2 * (cursor[1] - drag.at[1])
          /\ fEyeAngle[2] = drag.eye[2] + (cursor[2] - drag.at[2])
      BY <2>2
    <3>3. pos[1] \in Nat /\ pos[2] \in Nat
      BY <1>1
    <3>4. /\ fEyeAngle[1] + 2 * (pos[1] - cursor[1]) = drag.eye[1] + 2 * (pos[1] - drag.at[1])
          /\ fEyeAngle[2] + (pos[2] - cursor[2]) = drag.eye[2] + (pos[2] - drag.at[2])
      BY <1>1, <3>2, <3>3
    <3> QED BY <2>1, <2>2, <3>1, <3>4
  <2>3. CASE bRClick = 0
    BY <1>4, <2>1, <2>3 DEF View!MoveCursor
  <2> QED BY <2>2, <2>3
<1>5. ASSUME NEW yoffset \in {-1, 1}, View!Scroll(yoffset) PROVE ViewInv'
  BY <1>5 DEF View!Scroll
<1>6. CASE View!KeyC \/ View!KeyEscape
  BY <1>6 DEF View!KeyC, View!KeyEscape
<1>7. ASSUME NEW size \in Place \X Place, View!WinSize(size[1], size[2]) PROVE ViewInv'
  <2>1. viewport' \in Place \X (Place \ {0})
    BY <1>1, <1>7 DEF View!WinSize, View!CalcView
  <2> QED BY <1>7, <2>1 DEF View!WinSize
<1>8. CASE UNCHANGED viewerVars
  BY <1>8 DEF viewerVars
<1> QED
  BY <1>2, <1>3, <1>4, <1>5, <1>6, <1>7, <1>8 DEF View!Next
-----------------------------------------------------------------------------
(* The timers.  Their arithmetic: a remainder is not changed by whole      *)
(* multiples, and an int32 holds whatever lies in its range.               *)
LEMMA DivMod ==
  ASSUME NEW a \in Nat, NEW m \in Nat \ {0}
  PROVE  (a % m) \in 0..m-1 /\ (a \div m) \in Nat /\ a = m * (a \div m) + (a % m)
OBVIOUS

LEMMA WholeStep ==
  ASSUME NEW m \in Nat \ {0}, NEW q \in Int, NEW r \in Int, q < r
  PROVE  m * q + m <= m * r
<1>1. r = q + 1 + (r - q - 1) /\ (r - q - 1) \in Nat
  OBVIOUS
<1>2. ASSUME NEW d \in Nat PROVE m * (q + 1 + d) = m * q + m + m * d /\ m * d \in Nat
  OBVIOUS
<1> QED BY <1>1, <1>2

LEMMA RemainderUnique ==
  ASSUME NEW m \in Nat \ {0}, NEW q1 \in Int, NEW q2 \in Int,
         NEW r1 \in 0..m-1, NEW r2 \in 0..m-1, m * q1 + r1 = m * q2 + r2
  PROVE  r1 = r2
<1>1. m * q1 \in Int /\ m * q2 \in Int
  OBVIOUS
<1>2. CASE q1 < q2
  BY <1>1, <1>2, WholeStep
<1>3. CASE q2 < q1
  BY <1>1, <1>3, WholeStep
<1>4. CASE q1 = q2
  BY <1>1, <1>4
<1> QED BY <1>2, <1>3, <1>4

LEMMA RemainderOfSum ==
  ASSUME NEW a \in Nat, NEW m \in Nat \ {0}, NEW k \in Nat
  PROVE  (a + k * m) % m = a % m
<1>1. k * m \in Nat /\ a + k * m \in Nat
  OBVIOUS
<1>2. PICK q1 \in Nat, r1 \in 0..m-1 : a = m * q1 + r1 /\ a % m = r1
  BY DivMod
<1>3. PICK q2 \in Nat, r2 \in 0..m-1 : a + k * m = m * q2 + r2 /\ (a + k * m) % m = r2
  BY <1>1, DivMod
<1>4. m * (q1 + k) = m * q1 + k * m
  OBVIOUS
<1>5. m * (q1 + k) + r1 = m * q2 + r2
  BY <1>1, <1>2, <1>3, <1>4
<1>6. q1 + k \in Int /\ q2 \in Int
  OBVIOUS
<1>7. r1 = r2
  BY <1>5, <1>6, RemainderUnique
<1> QED BY <1>2, <1>3, <1>7

LEMMA Half ==
  /\ TimerW \in Nat \ {0} /\ (TimerW \div 2) \in Nat /\ TimerW = 2 * (TimerW \div 2)
  /\ Diff \subseteq 0..TimerW-1 /\ Interval \subseteq Nat /\ Expiry \subseteq 0..TimerW-1
  /\ Period \subseteq 1 .. TimerW \div 2 - 1 /\ TimerTime \in Nat
BY ConstantsAssumption DEF Timer!Constants

(* A conversion to int32 changes a number by whole multiples of W, and not *)
(* at all if it is one.                                                    *)
LEMMA Wraps ==
  ASSUME NEW n \in Int
  PROVE  Timer!Int32(n) \in Timer!Int32s /\ \E k \in Int : Timer!Int32(n) = n + k * TimerW
<1> DEFINE a == n + TimerW \div 2
<1>1. a \in Int /\ TimerW \in Nat \ {0}
  BY Half
<1>2. ASSUME NEW i \in Int, NEW m \in Nat \ {0}
      PROVE  (i % m) \in 0..m-1 /\ (i \div m) \in Int /\ i = m * (i \div m) + (i % m)
  BY <1>2
<1>3. (a % TimerW) \in 0..TimerW-1 /\ (a \div TimerW) \in Int
      /\ a = TimerW * (a \div TimerW) + (a % TimerW)
  <2> HIDE DEF a
  <2> QED BY <1>1, <1>2
<1>4. PICK q \in Int : a = TimerW * q + (a % TimerW)
  BY <1>3
<1>5. Timer!Int32(n) = (a % TimerW) - TimerW \div 2
  BY DEF Timer!Int32
<1>6. TimerW * q \in Int /\ (-q) * TimerW = -(TimerW * q) /\ (-q) \in Int
  BY <1>1, <1>4
<1>7. Timer!Int32(n) = n + (-q) * TimerW
  <2>1. n = TimerW * q + (a % TimerW) - TimerW \div 2
    BY <1>3, <1>4, <1>6, Half
  <2> HIDE DEF a
  <2> QED BY <1>3, <1>5, <1>6, <2>1, Half
<1>8. Timer!Int32(n) \in Timer!Int32s
  <2> HIDE DEF a
  <2> QED BY <1>3, <1>5, Half DEF Timer!Int32s
<1> QED BY <1>6, <1>7, <1>8

LEMMA SameInt32 ==
  ASSUME NEW a \in Timer!Int32s, NEW b \in Timer!Int32s, NEW k \in Int, a = b + k * TimerW
  PROVE  a = b
<1>1. a \in Int /\ b \in Int /\ TimerW \in Nat \ {0}
      /\ a + TimerW \div 2 \in 0..TimerW-1 /\ b + TimerW \div 2 \in 0..TimerW-1
  BY Half DEF Timer!Int32s
<1>2. TimerW * 0 = 0 /\ k * TimerW = TimerW * k /\ TimerW * k \in Int
  BY <1>1
<1>3. TimerW * 0 + (a + TimerW \div 2) = TimerW * k + (b + TimerW \div 2)
  BY <1>1, <1>2, Half
<1>4. a + TimerW \div 2 = b + TimerW \div 2
  BY <1>1, <1>3, RemainderUnique
<1> QED BY <1>1, <1>4, Half

LEMMA InRange ==
  ASSUME NEW n \in Int, -(TimerW \div 2) <= n, n < TimerW \div 2
  PROVE  Timer!Int32(n) = n /\ n \in Timer!Int32s
<1>1. n \in Timer!Int32s
  BY Half DEF Timer!Int32s
<1>2. PICK k \in Int : Timer!Int32(n) = n + k * TimerW
  BY Wraps
<1>3. Timer!Int32(n) = n
  BY <1>1, <1>2, Wraps, SameInt32
<1> QED BY <1>1, <1>3

(* An interval timer is whole intervals behind the time since it was set.  *)
IntervalInv == interval._interval # 0 =>
                 \E k \in Nat : since.interval = interval._current + k * interval._interval

(* The trackers hold what is left of their time, the 32-bit one but for    *)
(* how often it wrapped.                                                   *)
TrackerInv == /\ tracker = since.expiry - since.tracker
              /\ \E k \in Int : small = tracker + k * TimerW

(* Each expiry of the periodic timer costs it a period at least.           *)
PeriodicInv ==
  since.longest < TimerW \div 2 =>
    /\ periodic.i_expireTime > 0
    /\ since.expired > 0 => (since.expired - 1) * periodic.i_period + since.start <= since.periodic
    /\ periodic.i_expireTime <= Timer!Larger(since.start, Timer!Larger(periodic.i_period, since.longest))
    /\ since.expired * periodic.i_period + since.start <= since.periodic + periodic.i_expireTime

TimerInv == Timer!TypeOK /\ IntervalInv /\ TrackerInv /\ PeriodicInv

LEMMA InPhaseHolds == TimerInv => Timer!InPhase
<1> SUFFICES ASSUME TimerInv, interval._interval # 0
             PROVE  interval._current % interval._interval = since.interval % interval._interval
  BY DEF Timer!InPhase
<1>1. PICK k \in Nat : since.interval = interval._current + k * interval._interval
  BY DEF TimerInv, IntervalInv
<1>2. interval._current \in Nat /\ interval._interval \in Nat \ {0}
  BY DEF TimerInv, Timer!TypeOK
<1> QED BY <1>1, <1>2, RemainderOfSum

(* The fields of the timers and of their history.                          *)
LEMMA TimerFields ==
  ASSUME Timer!TypeOK
  PROVE  /\ interval._interval \in Nat /\ interval._current \in Nat
         /\ tracker \in Int /\ small \in Int
         /\ periodic.i_period \in 1 .. TimerW \div 2 - 1 /\ periodic.i_expireTime \in Timer!Int32s
         /\ periodic.i_expireTime \in Int /\ periodic.i_expireTime < TimerW \div 2
         /\ time \in 0..TimerTime
         /\ since.interval \in Nat /\ since.tracker \in Nat
         /\ since.expiry \in 0..TimerW-1 /\ since.periodic \in Nat
         /\ since.start \in 1 .. TimerW \div 2 - 1 /\ since.expired \in Nat /\ since.longest \in Nat
<1>1. /\ interval \in [_interval : Nat, _current : Nat]
      /\ tracker \in Int /\ small \in Timer!Int32s /\ time \in 0..TimerTime
      /\ periodic \in [i_period : Period, i_expireTime : Timer!Int32s]
      /\ since \in [interval : Nat, tracker : Nat, expiry : Expiry, periodic : Nat,
                    start : Period, expired : Nat, longest : Nat]
  BY DEF Timer!TypeOK
<1>2. \A i \in Timer!Int32s : i \in Int /\ i < TimerW \div 2
  BY Half DEF Timer!Int32s
<1>3. /\ periodic.i_period \in Period /\ periodic.i_expireTime \in Timer!Int32s
      /\ since.interval \in Nat /\ since.tracker \in Nat /\ since.expiry \in Expiry
      /\ since.periodic \in Nat /\ since.start \in Period /\ since.expired \in Nat
      /\ since.longest \in Nat /\ interval._interval \in Nat /\ interval._current \in Nat
  BY <1>1
<1> QED BY <1>1, <1>2, <1>3, Half

LEMMA PassedInTimeHolds == TimerInv => Timer!PassedInTime
<1> SUFFICES ASSUME TimerInv PROVE Timer!PassedInTime
  OBVIOUS
<1>1. PICK k \in Int : small = tracker + k * TimerW
  BY DEF TimerInv, TrackerInv
<1>2. tracker = since.expiry - since.tracker /\ tracker \in Int /\ small \in Timer!Int32s
  BY DEF TimerInv, TrackerInv, Timer!TypeOK
<1>3. tracker \in Timer!Int32s => small = tracker
  BY <1>1, <1>2, SameInt32
<1>4. ASSUME tracker \in TimerW \div 2 .. TimerW - 1 PROVE small <= 0
  <2>1. tracker - TimerW \in Timer!Int32s /\ tracker - TimerW <= 0
    BY <1>4, Half DEF Timer!Int32s
  <2>2. small = (tracker - TimerW) + (k + 1) * TimerW /\ k + 1 \in Int
    <3>1. (k + 1) * TimerW = k * TimerW + TimerW /\ k * TimerW \in Int
      BY Half
    <3> QED BY <1>1, <1>2, <3>1, Half
  <2>3. small = tracker - TimerW
    BY <1>2, <2>1, <2>2, SameInt32
  <2> QED BY <2>1, <2>3
<1> QED BY <1>2, <1>3, <1>4 DEF Timer!PassedInTime, Timer!TrackerPassed, Timer!SmallPassed

(* Both interfaces of a PeriodicTimer do the same.                         *)
LEMMA PeriodicTurn ==
  ASSUME Timer!TypeOK, NEW d \in Diff,
         NEW p \in {Timer!PeriodicUpdate(d), Timer!TrackedUpdate(d)}
  PROVE  LET rest == Timer!Int32(periodic.i_expireTime - d)
         IN  /\ p.timer \in [i_period : Period, i_expireTime : Timer!Int32s]
             /\ p.timer.i_period = periodic.i_period
             /\ p.timer.i_expireTime =
                  IF rest > 0 THEN rest ELSE Timer!Int32(rest + Timer!Forward(periodic, d))
             /\ p.passed = (rest <= 0)
<1> DEFINE rest == Timer!Int32(periodic.i_expireTime - d)
           on == Timer!Int32(rest + Timer!Forward(periodic, d))
           With(x) == [periodic EXCEPT !.i_expireTime = x]
<1>1. /\ periodic \in [i_period : Period, i_expireTime : Timer!Int32s]
      /\ periodic.i_expireTime \in Int /\ periodic.i_period \in Int /\ d \in Int
  BY TimerFields, Half DEF Timer!TypeOK
<1>2. rest \in Timer!Int32s /\ rest \in Int
  <2>1. periodic.i_expireTime - d \in Int
    BY <1>1
  <2> QED BY <2>1, Wraps, Half DEF Timer!Int32s
<1>3. on \in Timer!Int32s
  <2>1. Timer!Forward(periodic, d) \in Int
    BY <1>1 DEF Timer!Forward
  <2>2. rest + Timer!Forward(periodic, d) \in Int
    BY <1>2, <2>1
  <2> QED BY <2>2, Wraps
<1>4. ASSUME NEW x
      PROVE  /\ With(x).i_expireTime = x /\ With(x).i_period = periodic.i_period
             /\ x \in Timer!Int32s => With(x) \in [i_period : Period, i_expireTime : Timer!Int32s]
             /\ \A y : [With(x) EXCEPT !.i_expireTime = y] = With(y)
  BY <1>1
<1>5. p = [timer |-> With(IF rest > 0 THEN rest ELSE on), passed |-> rest <= 0]
  <2>1. CASE p = Timer!PeriodicUpdate(d)
    BY <2>1 DEF Timer!PeriodicUpdate
  <2>2. CASE p = Timer!TrackedUpdate(d)
    <3>1. Timer!TUpdate(periodic, d) = With(rest)
      BY DEF Timer!TUpdate
    <3>2. Timer!TPassed(With(rest)) = (rest <= 0)
      BY <1>4 DEF Timer!TPassed
    <3>3. Timer!TReset(With(rest), d) = With(on)
      <4>1. /\ With(rest).i_expireTime = rest /\ With(rest).i_period = periodic.i_period
            /\ \A y : [With(rest) EXCEPT !.i_expireTime = y] = With(y)
        BY <1>4
      <4>2. Timer!Forward(With(rest), d) = Timer!Forward(periodic, d)
        BY <4>1 DEF Timer!Forward
      <4>3. Timer!TReset(With(rest), d)
              = [With(rest) EXCEPT !.i_expireTime = Timer!Int32(rest + Timer!Forward(periodic, d))]
        <5> HIDE DEF With, rest
        <5> QED BY <4>1, <4>2 DEF Timer!TReset
      <4> HIDE DEF With
      <4> QED BY <4>1, <4>3
    <3>4. p = [timer |-> IF rest <= 0 THEN With(on) ELSE With(rest), passed |-> rest <= 0]
      <4> HIDE DEF With, rest, on
      <4> QED BY <2>2, <3>1, <3>2, <3>3 DEF Timer!TrackedUpdate
    <3>5. (rest > 0) = ~(rest <= 0)
      <4> HIDE DEF rest
      <4> QED BY <1>2
    <3> HIDE DEF With, rest, on
    <3> QED BY <3>4, <3>5
  <2> QED BY <2>1, <2>2
<1>6. (IF rest > 0 THEN rest ELSE on) \in Timer!Int32s
  BY <1>2, <1>3
<1>7. /\ p.timer = With(IF rest > 0 THEN rest ELSE on) /\ p.passed = (rest <= 0)
  <2> HIDE DEF With, rest, on
  <2> QED BY <1>5
<1> HIDE DEF With, rest, on
<1>8. /\ p.timer \in [i_period : Period, i_expireTime : Timer!Int32s]
      /\ p.timer.i_period = periodic.i_period
      /\ p.timer.i_expireTime = IF rest > 0 THEN rest ELSE on
      /\ p.passed = (rest <= 0)
  BY <1>4, <1>6, <1>7
<1> QED BY <1>8 DEF rest, on

(* A turn that fits an int32 overflows nothing.                            *)
LEMMA ShortTurn ==
  ASSUME Timer!TypeOK, periodic.i_expireTime > 0, NEW d \in Diff, d < TimerW \div 2,
         NEW p \in {Timer!PeriodicUpdate(d), Timer!TrackedUpdate(d)}
  PROVE  /\ p.timer.i_expireTime =
              IF periodic.i_expireTime > d THEN periodic.i_expireTime - d
              ELSE periodic.i_expireTime - d + Timer!Larger(periodic.i_period, d)
         /\ p.passed = (periodic.i_expireTime <= d)
<1> DEFINE e == periodic.i_expireTime
           l == Timer!Larger(periodic.i_period, d)
<1>1. /\ e \in 1 .. TimerW \div 2 - 1 /\ periodic.i_period \in 1 .. TimerW \div 2 - 1
      /\ d \in 0 .. TimerW \div 2 - 1
  BY TimerFields, Half
<1>2. Timer!Int32(d) = d /\ Timer!Forward(periodic, d) = l
  <2>1. Timer!Int32(d) = d
    BY <1>1, Half, InRange
  <2> QED BY <2>1 DEF Timer!Forward, Timer!Larger
<1>3. l \in 1 .. TimerW \div 2 - 1 /\ d <= l
  BY <1>1, Half DEF Timer!Larger
<1>4. Timer!Int32(e - d) = e - d
  <2> HIDE DEF e
  <2> QED BY <1>1, Half, InRange
<1>5. ~(e > d) => Timer!Int32(e - d + l) = e - d + l
  <2> HIDE DEF e, l
  <2> QED BY <1>1, <1>3, Half, InRange
<1>6. /\ p.timer.i_expireTime = IF e - d > 0 THEN e - d ELSE Timer!Int32(e - d + l)
      /\ p.passed = (e - d <= 0)
  BY <1>2, <1>4, PeriodicTurn
<1>7. (e - d <= 0) = (e <= d) /\ (e - d > 0) = (e > d)
  <2> HIDE DEF e
  <2> QED BY <1>1, Half
<1> HIDE DEF e, l
<1>8. p.timer.i_expireTime = (IF e > d THEN e - d ELSE e - d + l) /\ p.passed = (e <= d)
  BY <1>5, <1>6, <1>7
<1> QED BY <1>8 DEF e, l

LEMMA TimerInit == Timer!Init => TimerInv
<1> SUFFICES ASSUME Timer!Init PROVE TimerInv
  OBVIOUS
<1>1. PICK e \in Expiry, p \in Period, s \in Period :
        /\ up = TRUE
        /\ interval = [_interval |-> 0, _current |-> 0]
        /\ tracker = e /\ small = Timer!Int32(e)
        /\ periodic = [i_period |-> p, i_expireTime |-> s]
        /\ time = 0
        /\ since = [interval |-> 0, tracker |-> 0, expiry |-> e,
                    periodic |-> 0, start |-> s, expired |-> 0, longest |-> 0]
  BY DEF Timer!Init, Timer!NewInterval, Timer!NewTracker, Timer!NewSmall, Timer!NewPeriodic
<1>2. e \in Int /\ s \in Int /\ p \in Int /\ s > 0 /\ p > 0 /\ s \in Timer!Int32s
  BY Half DEF Timer!Int32s
<1>3. Timer!Int32(e) \in Timer!Int32s /\ \E k \in Int : Timer!Int32(e) = e + k * TimerW
  BY <1>2, Wraps
<1>4. Timer!TypeOK
  BY <1>1, <1>2, <1>3, Half DEF Timer!TypeOK
<1>5. IntervalInv /\ TrackerInv
  BY <1>1, <1>2, <1>3 DEF IntervalInv, TrackerInv
<1>6. PeriodicInv
  BY <1>1, <1>2, Half DEF PeriodicInv, Timer!Larger
<1> QED BY <1>4, <1>5, <1>6 DEF TimerInv

LEMMA TimerUpdate ==
  ASSUME TimerInv, NEW d \in Diff,
         NEW p \in {Timer!PeriodicUpdate(d), Timer!TrackedUpdate(d)}, Timer!Update(d, p)
  PROVE  TimerInv'
<1> DEFINE e == periodic.i_expireTime
           n == since.expired
           m == periodic.i_period
           w == TimerW \div 2
<1>1. /\ interval' = [interval EXCEPT !._current = IF @ + d < 0 THEN 0 ELSE @ + d]
      /\ tracker' = tracker - d /\ small' = Timer!Int32(small - d)
      /\ periodic' = p.timer
      /\ time' = time + d /\ time + d <= TimerTime /\ up' = up
      /\ since' = [since EXCEPT !.interval = @ + d, !.tracker = @ + d, !.periodic = @ + d,
                                !.expired = IF p.passed THEN @ + 1 ELSE @,
                                !.longest = Timer!Larger(@, d)]
  BY DEF Timer!Update, Timer!IntervalUpdate, Timer!TrackerUpdate, Timer!SmallUpdate
<1>2. /\ TrackerInv /\ IntervalInv /\ PeriodicInv /\ Timer!TypeOK
      /\ d \in Nat
  BY Half DEF TimerInv
<1>3. /\ since'.interval = since.interval + d /\ since'.tracker = since.tracker + d
      /\ since'.periodic = since.periodic + d /\ since'.expiry = since.expiry
      /\ since'.start = since.start /\ since'.expired = (IF p.passed THEN n + 1 ELSE n)
      /\ since'.longest = Timer!Larger(since.longest, d)
  BY <1>1, <1>2 DEF Timer!TypeOK
<1>4. /\ interval'._current = interval._current + d /\ interval'._interval = interval._interval
      /\ interval' \in [_interval : Nat, _current : Nat]
  BY <1>1, <1>2 DEF Timer!TypeOK
<1>5. Timer!TypeOK'
  <2>1. /\ since.interval + d \in Nat /\ since.tracker + d \in Nat /\ since.periodic + d \in Nat
        /\ (IF p.passed THEN since.expired + 1 ELSE since.expired) \in Nat
        /\ Timer!Larger(since.longest, d) \in Nat
    BY <1>2, TimerFields DEF Timer!Larger
  <2>2. since' \in [interval : Nat, tracker : Nat, expiry : Expiry, periodic : Nat,
                    start : Period, expired : Nat, longest : Nat]
    BY <1>1, <1>2, <2>1 DEF Timer!TypeOK
  <2>3. tracker' \in Int /\ time' \in 0..TimerTime /\ small - d \in Int
    BY <1>1, <1>2, TimerFields
  <2>4. small' \in Timer!Int32s
    BY <1>1, <2>3, Wraps
  <2> QED BY <2>2, <2>3, <2>4, <1>1, <1>2, <1>4, PeriodicTurn DEF Timer!TypeOK
<1>6. IntervalInv'
  <2> SUFFICES ASSUME interval'._interval # 0
               PROVE  \E k \in Nat : since'.interval = interval'._current + k * interval'._interval
    BY DEF IntervalInv
  <2>1. PICK k \in Nat : since.interval = interval._current + k * interval._interval
    BY <1>2, <1>4 DEF IntervalInv
  <2>2. k * interval._interval \in Nat
    BY <1>2, TimerFields
  <2>3. since'.interval = interval'._current + k * interval'._interval
    BY <1>2, <1>3, <1>4, <2>1, <2>2, TimerFields
  <2> QED BY <2>3
<1>7. TrackerInv'
  <2>1. PICK k \in Int : small = tracker + k * TimerW
    BY <1>2 DEF TrackerInv
  <2>2. tracker \in Int /\ small \in Int /\ small - d \in Int /\ k * TimerW \in Int
    BY <1>2, TimerFields, Half
  <2>3. PICK j \in Int : small' = (small - d) + j * TimerW
    BY <1>1, <2>2, Wraps
  <2>4. (k + j) * TimerW = k * TimerW + j * TimerW /\ j * TimerW \in Int /\ k + j \in Int
    BY Half
  <2>5. small' = tracker' + (k + j) * TimerW
    BY <1>1, <1>2, <2>1, <2>2, <2>3, <2>4
  <2>6. tracker' = since'.expiry - since'.tracker
    BY <1>1, <1>2, <1>3, TimerFields DEF TrackerInv
  <2> QED BY <2>4, <2>5, <2>6 DEF TrackerInv
<1>8. PeriodicInv'
  <2> SUFFICES ASSUME since'.longest < w
               PROVE  /\ periodic'.i_expireTime > 0
                      /\ since'.expired > 0 =>
                           (since'.expired - 1) * periodic'.i_period + since'.start <= since'.periodic
                      /\ periodic'.i_expireTime <=
                           Timer!Larger(since'.start, Timer!Larger(periodic'.i_period, since'.longest))
                      /\ since'.expired * periodic'.i_period + since'.start
                           <= since'.periodic + periodic'.i_expireTime
    BY DEF PeriodicInv, Timer!Larger
  <2>1. /\ m \in Nat /\ m > 0 /\ n \in Nat /\ since.periodic \in Nat /\ since.start \in Nat
        /\ e \in Int /\ since.longest \in Nat
    BY <1>2, TimerFields, Half
  <2>2. since.longest < w /\ d < w /\ since.longest <= since'.longest /\ d <= since'.longest
        /\ since'.longest \in Nat
    BY <1>2, <1>3, <2>1, Half DEF Timer!Larger
  <2>3. /\ n * m \in Int /\ (n - 1) * m = n * m - m /\ (n + 1) * m = n * m + m /\ (n + 1) - 1 = n
    BY <2>1
  <2>4. /\ e > 0
        /\ n * m + since.start <= since.periodic + e
        /\ n > 0 => n * m - m + since.start <= since.periodic
        /\ e <= Timer!Larger(since.start, Timer!Larger(m, since.longest))
    BY <1>2, <2>2, <2>3 DEF PeriodicInv
  <2>5. /\ periodic'.i_period = m
        /\ periodic'.i_expireTime = IF e > d THEN e - d ELSE e - d + Timer!Larger(m, d)
        /\ p.passed = (e <= d)
    BY <1>1, <1>2, <2>2, <2>4, PeriodicTurn, ShortTurn
  <2>6. since'.expired = IF e <= d THEN n + 1 ELSE n
    BY <1>3, <2>5, Zenon
  <2> HIDE DEF e, n, m, w
  <2>7. CASE e > d
    <3>1. /\ periodic'.i_expireTime = e - d /\ since'.expired = n
      BY <2>1, <2>5, <2>6, <2>7, <1>2
    <3>2. /\ n * m + since.start <= since.periodic + d + (e - d) /\ e - d > 0
          /\ n > 0 => n * m - m + since.start <= since.periodic + d
          /\ e - d <= Timer!Larger(since.start, Timer!Larger(m, since'.longest))
      BY <1>2, <2>1, <2>2, <2>3, <2>4, <2>7 DEF Timer!Larger
    <3> QED BY <1>3, <2>3, <2>5, <3>1, <3>2
  <2>8. CASE ~(e > d)
    <3>1. /\ periodic'.i_expireTime = e - d + Timer!Larger(m, d) /\ since'.expired = n + 1
      BY <2>1, <2>5, <2>6, <2>8, <1>2
    <3>2. /\ n * m + m + since.start <= since.periodic + d + (e - d + Timer!Larger(m, d))
          /\ e - d + Timer!Larger(m, d) > 0
          /\ n * m + since.start <= since.periodic + d
          /\ e - d + Timer!Larger(m, d) <= Timer!Larger(since.start, Timer!Larger(m, since'.longest))
      BY <1>2, <2>1, <2>2, <2>3, <2>4, <2>8 DEF Timer!Larger
    <3> QED BY <1>3, <2>3, <2>5, <3>1, <3>2
  <2> QED BY <2>7, <2>8
<1> QED BY <1>5, <1>6, <1>7, <1>8 DEF TimerInv

LEMMA IntervalResets ==
  ASSUME TimerInv, Timer!IntervalReset
  PROVE  TimerInv'
<1> DEFINE c == interval._current
           m == interval._interval
<1>1. /\ interval' = [interval EXCEPT !._current = @ % m] /\ m # 0
      /\ UNCHANGED <<up, tracker, small, periodic, time, since>>
  BY DEF Timer!IntervalReset
<1>2. /\ c \in Nat /\ m \in Nat \ {0} /\ since.interval \in Nat
      /\ interval \in [_interval : Nat, _current : Nat]
  BY <1>1, TimerFields DEF TimerInv, Timer!TypeOK
<1>3. (c % m) \in Nat /\ (c \div m) \in Nat /\ c = m * (c \div m) + (c % m)
  <2> HIDE DEF c, m
  <2>1. c \in Nat /\ m \in Nat \ {0}
    BY <1>2
  <2>2. (c % m) \in 0..m-1 /\ (c \div m) \in Nat /\ c = m * (c \div m) + (c % m)
    BY <2>1, DivMod
  <2> QED BY <2>1, <2>2
<1>4. /\ interval'._current = c % m /\ interval'._interval = m
      /\ interval' \in [_interval : Nat, _current : Nat]
  BY <1>1, <1>2, <1>3
<1>5. Timer!TypeOK'
  BY <1>1, <1>4 DEF TimerInv, Timer!TypeOK
<1>6. IntervalInv'
  <2>1. PICK k \in Nat : since.interval = c + k * m
    BY <1>1 DEF TimerInv, IntervalInv
  <2>2. k + (c \div m) \in Nat /\ (k + (c \div m)) * m = k * m + m * (c \div m)
    BY <1>2, <1>3
  <2>3. k * m \in Nat /\ m * (c \div m) \in Nat
    BY <1>2, <1>3
  <2>4. since.interval = (c % m) + (k + (c \div m)) * m
    BY <1>2, <1>3, <2>1, <2>2, <2>3
  <2>5. since'.interval = interval'._current + (k + (c \div m)) * interval'._interval
    BY <1>1, <1>4, <2>4
  <2> QED BY <2>2, <2>5 DEF IntervalInv
<1>7. TrackerInv' /\ PeriodicInv'
  BY <1>1 DEF TimerInv, TrackerInv, PeriodicInv, Timer!Periodic
<1> QED BY <1>5, <1>6, <1>7 DEF TimerInv

(* A timer that is set anew owes nothing to what came before.              *)
LEMMA IntervalSets ==
  ASSUME TimerInv, (\E i \in Interval : Timer!SetInterval(i)) \/ Timer!SetCurrent
  PROVE  TimerInv'
<1>1. /\ UNCHANGED <<up, tracker, small, periodic, time>>
      /\ since' = [since EXCEPT !.interval = interval'._current]
      /\ interval' \in [_interval : Nat, _current : Nat]
  BY Half DEF TimerInv, Timer!TypeOK, Timer!SetInterval, Timer!SetCurrent
<1>2. /\ since'.interval = interval'._current /\ since'.tracker = since.tracker
      /\ since'.expiry = since.expiry /\ since'.periodic = since.periodic
      /\ since'.start = since.start /\ since'.expired = since.expired
      /\ since'.longest = since.longest
      /\ since' \in [interval : Nat, tracker : Nat, expiry : Expiry, periodic : Nat,
                     start : Period, expired : Nat, longest : Nat]
  BY <1>1 DEF TimerInv, Timer!TypeOK
<1>3. Timer!TypeOK'
  BY <1>1, <1>2 DEF TimerInv, Timer!TypeOK
<1>4. IntervalInv'
  <2>1. since'.interval = interval'._current + 0 * interval'._interval
    BY <1>1, <1>2
  <2> QED BY <2>1 DEF IntervalInv
<1>5. TrackerInv' /\ PeriodicInv'
  BY <1>1, <1>2 DEF TimerInv, TrackerInv, PeriodicInv, Timer!Larger
<1> QED BY <1>3, <1>4, <1>5 DEF TimerInv

LEMMA TrackerResets ==
  ASSUME TimerInv, NEW i \in Expiry, Timer!TrackerReset(i)
  PROVE  TimerInv'
<1>1. /\ tracker' = i /\ small' = Timer!Int32(i)
      /\ since' = [since EXCEPT !.tracker = 0, !.expiry = i]
      /\ UNCHANGED <<up, interval, periodic, time>>
  BY DEF Timer!TrackerReset, Timer!SmallReset
<1>2. i \in Int
  BY Half
<1>3. Timer!Int32(i) \in Timer!Int32s /\ \E k \in Int : Timer!Int32(i) = i + k * TimerW
  BY <1>2, Wraps
<1>4. /\ since'.interval = since.interval /\ since'.tracker = 0
      /\ since'.expiry = i /\ since'.periodic = since.periodic
      /\ since'.start = since.start /\ since'.expired = since.expired
      /\ since'.longest = since.longest
      /\ since' \in [interval : Nat, tracker : Nat, expiry : Expiry, periodic : Nat,
                     start : Period, expired : Nat, longest : Nat]
  BY <1>1 DEF TimerInv, Timer!TypeOK
<1>5. Timer!TypeOK' /\ TrackerInv'
  BY <1>1, <1>2, <1>3, <1>4 DEF TimerInv, Timer!TypeOK, TrackerInv
<1>6. IntervalInv' /\ PeriodicInv'
  BY <1>1, <1>4 DEF TimerInv, IntervalInv, PeriodicInv, Timer!Larger
<1> QED BY <1>5, <1>6 DEF TimerInv

LEMMA PeriodicSets ==
  ASSUME TimerInv, NEW p \in Period, NEW s \in Period, Timer!SetPeriodic(p, s)
  PROVE  TimerInv'
<1>1. /\ periodic' = [i_period |-> p, i_expireTime |-> s]
      /\ since' = [since EXCEPT !.periodic = 0, !.start = s, !.expired = 0, !.longest = 0]
      /\ UNCHANGED <<up, interval, tracker, small, time>>
  BY DEF Timer!SetPeriodic
<1>2. s \in Nat /\ p \in Nat /\ s > 0 /\ s \in Timer!Int32s
  BY Half DEF Timer!Int32s
<1>3. /\ since'.interval = since.interval /\ since'.tracker = since.tracker
      /\ since'.expiry = since.expiry /\ since'.periodic = 0
      /\ since'.start = s /\ since'.expired = 0 /\ since'.longest = 0
      /\ since' \in [interval : Nat, tracker : Nat, expiry : Expiry, periodic : Nat,
                     start : Period, expired : Nat, longest : Nat]
  BY <1>1 DEF TimerInv, Timer!TypeOK
<1>4. Timer!TypeOK' /\ TrackerInv' /\ IntervalInv'
  BY <1>1, <1>2, <1>3 DEF TimerInv, Timer!TypeOK, TrackerInv, IntervalInv
<1>5. PeriodicInv'
  <2>1. periodic'.i_expireTime = s /\ periodic'.i_period = p
    BY <1>1
  <2>2. s > 0 /\ s <= Timer!Larger(s, Timer!Larger(p, 0)) /\ 0 * p + s <= 0 + s
    BY <1>2 DEF Timer!Larger
  <2> QED BY <1>3, <2>1, <2>2 DEF PeriodicInv, Timer!Larger
<1> QED BY <1>4, <1>5 DEF TimerInv

LEMMA TimerNext == TimerInv /\ [Timer!Next]_timerVars => TimerInv'
<1> SUFFICES ASSUME TimerInv, [Timer!Next]_timerVars PROVE TimerInv'
  OBVIOUS
<1>1. ASSUME NEW d \in Diff,
             NEW p \in {Timer!PeriodicUpdate(d), Timer!TrackedUpdate(d)}, Timer!Update(d, p)
      PROVE  TimerInv'
  BY <1>1, TimerUpdate
<1>2. CASE Timer!IntervalReset
  BY <1>2, IntervalResets
<1>3. CASE (\E i \in Interval : Timer!SetInterval(i)) \/ Timer!SetCurrent
  BY <1>3, IntervalSets
<1>4. ASSUME NEW i \in Expiry, Timer!TrackerReset(i) PROVE TimerInv'
  BY <1>4, TrackerResets
<1>5. ASSUME NEW p \in Period, NEW s \in Period, Timer!SetPeriodic(p, s)
      PROVE  TimerInv'
  BY <1>5, PeriodicSets
<1>6. ASSUME Timer!DivideByZero \/ UNCHANGED timerVars PROVE TimerInv'
  <2>1. /\ UNCHANGED <<interval, tracker, small, periodic, time, since>>
        /\ up' \in BOOLEAN
    BY <1>6 DEF timerVars, Timer!DivideByZero, Timer!timers, TimerInv, Timer!TypeOK
  <2> QED BY <2>1 DEF TimerInv, Timer!TypeOK, IntervalInv, TrackerInv, PeriodicInv, Timer!Larger
<1> QED
  BY <1>1, <1>2, <1>3, <1>4, <1>5, <1>6 DEF Timer!Next
-----------------------------------------------------------------------------
(* The picture. A matrix pushed on the stack is its top until it is popped,*)
(* which leaves what was below.                                            *)
LEMMA TopOfStack ==
  ASSUME NEW M, NEW s \in Seq(M), NEW m
  PROVE  Picture!Last(Append(s, m)) = m /\ Picture!Front(Append(s, m)) = s
<1>1. s \in Seq(M \cup {m}) /\ m \in M \cup {m}
  BY SeqMonotonic
<1>2. /\ Append(s, m) \in Seq(M \cup {m}) /\ Len(Append(s, m)) = Len(s) + 1
      /\ Append(s, m)[Len(s) + 1] = m
      /\ \A i \in 1..Len(s) : Append(s, m)[i] = s[i]
  BY <1>1, AppendProperties
<1>3. Len(s) \in Nat
  BY LenProperties
<1>4. SubSeq(Append(s, m), 1, Len(s)) = s
  BY <1>1, <1>2, <1>3
<1> QED BY <1>2, <1>3, <1>4 DEF Picture!Last, Picture!Front

(* What the commands of OpenGL make of a stack with a matrix on top.       *)
LEMMA Pushed ==
  ASSUME NEW s, NEW d
  PROVE  Picture!Push([stack |-> s, drawn |-> d]) = [stack |-> Append(s, Picture!Last(s)), drawn |-> d]
BY DEF Picture!Push

LEMMA Multiplied ==
  ASSUME NEW M, NEW s \in Seq(M), NEW m, NEW by, NEW d
  PROVE  Picture!Multiply([stack |-> Append(s, m), drawn |-> d], by) = [stack |-> Append(s, Picture!After(m, by)), drawn |-> d]
<1> DEFINE gl  == [stack |-> Append(s, m), drawn |-> d]
           top == Append(Picture!Front(gl.stack), Picture!After(Picture!Last(gl.stack), by))
<1>1. gl.stack = Append(s, m)
  OBVIOUS
<1>2. Picture!Last(gl.stack) = m /\ Picture!Front(gl.stack) = s
  BY <1>1, TopOfStack
<1>3. top = Append(s, Picture!After(m, by))
  BY <1>2, Zenon
<1>4. Picture!Multiply(gl, by) = [gl EXCEPT !.stack = top]
  BY Zenon DEF Picture!Multiply
<1> HIDE DEF top
<1>5. [gl EXCEPT !.stack = top] = [stack |-> top, drawn |-> d]
  OBVIOUS
<1> QED BY <1>3, <1>4, <1>5, Zenon

LEMMA Shaped ==
  ASSUME NEW M, NEW s \in Seq(M), NEW m, NEW d, NEW who, NEW what
  PROVE  Picture!Shape([stack |-> Append(s, m), drawn |-> d], who, what)
           = [stack |-> Append(s, m), drawn |-> d \cup {<<who, what, m>>}]
<1> DEFINE gl    == [stack |-> Append(s, m), drawn |-> d]
           all   == gl.drawn \cup {<<who, what, Picture!Last(gl.stack)>>}
<1>1. gl.stack = Append(s, m) /\ gl.drawn = d
  OBVIOUS
<1>2. Picture!Last(gl.stack) = m
  BY <1>1, TopOfStack
<1>3. all = d \cup {<<who, what, m>>}
  BY <1>1, <1>2, Zenon
<1>4. Picture!Shape(gl, who, what) = [gl EXCEPT !.drawn = all]
  BY Zenon DEF Picture!Shape
<1> HIDE DEF all
<1>5. [gl EXCEPT !.drawn = all] = [stack |-> Append(s, m), drawn |-> all]
  OBVIOUS
<1> QED BY <1>3, <1>4, <1>5, Zenon

LEMMA Popped ==
  ASSUME NEW M, NEW s \in Seq(M), NEW m, NEW d
  PROVE  Picture!Pop([stack |-> Append(s, m), drawn |-> d]) = [stack |-> s, drawn |-> d]
<1>1. Picture!Front(Append(s, m)) = s
  BY TopOfStack
<1> QED BY <1>1 DEF Picture!Pop

(* The spheres of a player drawn with a matrix on top of the stack.        *)
Two(matrix, who, pos) ==
  LET front == Picture!After(matrix, Picture!Pose(pos))
  IN  {<<who, "front", front>>, <<who, "back", Picture!After(front, Picture!Back)>>}

(* Player::Draw leaves the stack as it was and draws the two spheres with  *)
(* the top of it, the player's place and nothing else.                     *)
LEMMA PlayerDrawn ==
  ASSUME NEW M, NEW s \in Seq(M), NEW d, NEW who, NEW pos
  PROVE  Picture!DrawPlayer([stack |-> s, drawn |-> d], who, pos)
           = [stack |-> s, drawn |-> d \cup Two(Picture!Last(s), who, pos)]
<1> DEFINE m      == Picture!Last(s)
           pose   == Picture!Pose(pos)
           front  == Picture!After(m, pose)
           behind == Picture!After(front, Picture!Back)
           d1     == d \cup {<<who, "front", front>>}
           d2     == d1 \cup {<<who, "back", behind>>}
<1>1. Picture!Push([stack |-> s, drawn |-> d]) = [stack |-> Append(s, m), drawn |-> d]
  BY Pushed
<1> HIDE DEF m, pose
<1>2. Picture!Multiply([stack |-> Append(s, m), drawn |-> d], pose) = [stack |-> Append(s, front), drawn |-> d]
  BY Multiplied
<1> HIDE DEF front
<1>3. Picture!Shape([stack |-> Append(s, front), drawn |-> d], who, "front") = [stack |-> Append(s, front), drawn |-> d1]
  BY Shaped
<1> HIDE DEF d1
<1>4. Picture!Multiply([stack |-> Append(s, front), drawn |-> d1], Picture!Back) = [stack |-> Append(s, behind), drawn |-> d1]
  BY Multiplied
<1> HIDE DEF behind
<1>5. Picture!Shape([stack |-> Append(s, behind), drawn |-> d1], who, "back") = [stack |-> Append(s, behind), drawn |-> d2]
  BY Shaped
<1> HIDE DEF d2
<1>6. Picture!Pop([stack |-> Append(s, behind), drawn |-> d2]) = [stack |-> s, drawn |-> d2]
  BY Popped
<1>7. Picture!DrawPlayer([stack |-> s, drawn |-> d], who, pos) = [stack |-> s, drawn |-> d2]
  BY <1>1, <1>2, <1>3, <1>4, <1>5, <1>6, Zenon DEF Picture!DrawPlayer, pose
<1>8. d2 = d \cup {<<who, "front", front>>, <<who, "back", behind>>}
  BY DEF d1, d2
<1>9. Two(m, who, pos) = {<<who, "front", front>>, <<who, "back", behind>>}
  BY Zenon DEF Two, front, behind, pose
<1>10. d2 = d \cup Two(m, who, pos)
  BY <1>8, <1>9, Zenon
<1> QED BY <1>7, <1>10, Zenon DEF m

(* World::Draw.                                                            *)
LEMMA GroundDrawn ==
  ASSUME NEW M, NEW s \in Seq(M), NEW d
  PROVE  Picture!Ground([stack |-> s, drawn |-> d]) =
           [stack |-> s, drawn |-> d \cup {<<"world", "ground", Picture!Last(s)>>}]
<1> DEFINE m   == Picture!Last(s)
           all == d \cup {<<"world", "ground", m>>}
<1>1. Picture!Push([stack |-> s, drawn |-> d]) = [stack |-> Append(s, m), drawn |-> d]
  BY Pushed
<1> HIDE DEF m
<1>2. Picture!Shape([stack |-> Append(s, m), drawn |-> d], "world", "ground") = [stack |-> Append(s, m), drawn |-> all]
  BY Shaped
<1> HIDE DEF all
<1>3. Picture!Pop([stack |-> Append(s, m), drawn |-> all]) = [stack |-> s, drawn |-> all]
  BY Popped
<1> QED BY <1>1, <1>2, <1>3, Zenon DEF Picture!Ground, m, all

-----------------------------------------------------------------------------
(* What is drawn of the others while a frame is drawn.                     *)
Others == UNION {Two(Picture!View, uid, m_otherPlayers[uid]) : uid \in DOMAIN m_otherPlayers \ left}

(* While the others are drawn the view is twice on the stack, and those    *)
(* drawn are where they should be; between frames the stack is as at first.*)
SceneInv ==
  /\ Picture!TypeOK /\ Picture!Placed
  /\ frame # "drawing" => stack = << << >> >> /\ left = {}
  /\ frame = "moved" => drawn = {}
  /\ frame = "drawing" =>
       /\ stack = Append(Append(<< << >> >>, Picture!View), Picture!View)
       /\ drawn = Two(Picture!View, "me", m_player) \cup Others

LEMMA ViewIsSeq ==
  /\ Picture!View \in Seq({Picture!Zoomed, Picture!Rotate("y", -m_cam.a - 90), Picture!LookAt(m_cam)})
  /\ Picture!After(<< >>, Picture!View) = Picture!View
<1> DEFINE zoomed == Picture!Zoomed
           turned == Picture!Rotate("y", -m_cam.a - 90)
           looked == Picture!LookAt(m_cam)
           S      == {zoomed, turned, looked}
<1>1. Picture!View = <<zoomed>> \o (IF eye.bTrack THEN <<turned>> ELSE << >>) \o <<looked>>
  BY Zenon DEF Picture!View
<1> HIDE DEF zoomed, turned, looked
<1>2. <<zoomed>> \in Seq(S) /\ <<turned>> \in Seq(S) /\ << >> \in Seq(S) /\ <<looked>> \in Seq(S)
  OBVIOUS
<1> HIDE DEF S
<1>3. Picture!View \in Seq(S)
  <2> DEFINE turn == IF eye.bTrack THEN <<turned>> ELSE << >>
  <2>1. turn \in Seq(S)
    BY <1>2
  <2> HIDE DEF turn
  <2>2. <<zoomed>> \o turn \in Seq(S)
    BY <1>2, <2>1, ConcatProperties
  <2>3. (<<zoomed>> \o turn) \o <<looked>> \in Seq(S)
    BY <1>2, <2>2, ConcatProperties
  <2> QED BY <1>1, <2>3, Zenon DEF turn
<1>4. << >> \o Picture!View = Picture!View
  BY <1>3, ConcatEmptySeq
<1> QED BY <1>3, <1>4, Zenon DEF Picture!After, S, zoomed, turned, looked

LEMMA Views ==
  /\ << << >> >> \in Seq({<< >>, Picture!View})
  /\ Append(<< << >> >>, Picture!View) \in Seq({<< >>, Picture!View})
  /\ Append(Append(<< << >> >>, Picture!View), Picture!View) \in Seq({<< >>, Picture!View})
  /\ Picture!Last(<< << >> >>) = << >>
<1> DEFINE V == Picture!View
<1> HIDE DEF V
<1>1. << << >> >> \in Seq({<< >>, V}) /\ V \in {<< >>, V}
  OBVIOUS
<1>2. Append(<< << >> >>, V) \in Seq({<< >>, V})
  BY <1>1, AppendProperties
<1>3. Append(Append(<< << >> >>, V), V) \in Seq({<< >>, V})
  BY <1>1, <1>2, AppendProperties
<1>4. Picture!Last(<< << >> >>) = << >>
  BY DEF Picture!Last
<1> QED BY <1>1, <1>2, <1>3, <1>4 DEF V

LEMMA SceneInit == Picture!Init => SceneInv
<1> SUFFICES ASSUME Picture!Init PROVE SceneInv
  OBVIOUS
<1>1. DOMAIN m_otherPlayers = {} /\ stack # << >>
  BY DEF Picture!Init
<1>2. Picture!TypeOK
  BY <1>1 DEF Picture!Init, Picture!TypeOK
<1> QED BY <1>2 DEF Picture!Init, SceneInv, Picture!Placed

LEMMA SpheresAreTwo == \A who, pos : Picture!Spheres(who, pos) = Two(Picture!View, who, pos)
BY Zenon DEF Picture!Spheres, Two

(* Player::Draw with the view on top of the stack.                         *)
LEMMA PlayerShown ==
  ASSUME NEW d, NEW who, NEW pos
  PROVE  LET s == Append(Append(<< << >> >>, Picture!View), Picture!View)
         IN  Picture!DrawPlayer([stack |-> s, drawn |-> d], who, pos)
               = [stack |-> s, drawn |-> d \cup Two(Picture!View, who, pos)]
<1> DEFINE V == Picture!View
           s == Append(Append(<< << >> >>, V), V)
<1>1. s \in Seq({<< >>, V}) /\ Picture!Last(s) = V
  BY Views, TopOfStack
<1> HIDE DEF s, V
<1>2. Picture!DrawPlayer([stack |-> s, drawn |-> d], who, pos)
        = [stack |-> s, drawn |-> d \cup Two(Picture!Last(s), who, pos)]
  BY <1>1, PlayerDrawn
<1> QED BY <1>1, <1>2, Zenon DEF s, V

LEMMA FrameStarts == SceneInv /\ Picture!Render => SceneInv'
<1> SUFFICES ASSUME SceneInv, Picture!Render PROVE SceneInv'
  OBVIOUS
<1> DEFINE V  == Picture!View
           s0 == << << >> >>
           s1 == Append(s0, V)
           s2 == Append(s1, V)
           me == Two(V, "me", m_player)
           nothing == {}
<1>1. stack = s0 /\ drawn = nothing
  BY DEF SceneInv, Picture!Render
<1>2. Picture!Gl = [stack |-> s0, drawn |-> nothing]
  BY <1>1 DEF Picture!Gl
<1>3. /\ s0 \in Seq({<< >>, V}) /\ s1 \in Seq({<< >>, V}) /\ s2 \in Seq({<< >>, V})
      /\ Picture!Last(s0) = << >> /\ Picture!After(<< >>, V) = V
  BY Views, ViewIsSeq, Zenon
<1>4. Picture!DrawPlayer([stack |-> s2, drawn |-> nothing], "me", m_player) = [stack |-> s2, drawn |-> nothing \cup me]
  BY PlayerShown, Zenon
<1> HIDE DEF V, s0, nothing
<1>5. Picture!Push([stack |-> s0, drawn |-> nothing]) = [stack |-> Append(s0, << >>), drawn |-> nothing]
  BY <1>3, Pushed
<1>6. Picture!Multiply([stack |-> Append(s0, << >>), drawn |-> nothing], V) = [stack |-> s1, drawn |-> nothing]
  BY <1>3, Multiplied
<1>7. Picture!Last(s1) = V
  BY <1>3, TopOfStack
<1> HIDE DEF s1, me
<1>8. Picture!Push([stack |-> s1, drawn |-> nothing]) = [stack |-> s2, drawn |-> nothing]
  BY <1>7, Pushed
<1> HIDE DEF s2
<1>9. Picture!Becomes([stack |-> s2, drawn |-> nothing \cup me])
  BY <1>2, <1>4, <1>5, <1>6, <1>8, Zenon DEF Picture!Render, V
<1>10. stack' = s2 /\ drawn' = me
  BY <1>9 DEF Picture!Becomes, nothing
<1>11. /\ left' = DOMAIN m_otherPlayers /\ frame' = "drawing"
       /\ m_player' = m_player /\ m_cam' = m_cam /\ m_otherPlayers' = m_otherPlayers /\ eye' = eye
  BY DEF Picture!Render
<1>12. Picture!View' = V
  BY <1>11 DEF V, Picture!View, Picture!Zoomed
<1>13. Others' = {}
  BY <1>11 DEF Others
<1>14. s2 # << >>
  BY <1>3, AppendProperties DEF s2
<1>15. Picture!TypeOK'
  BY <1>10, <1>11, <1>14 DEF SceneInv, Picture!TypeOK
<1>16. Two(Picture!View, "me", m_player)' = me
  BY <1>11, <1>12 DEF Two, me, Picture!After
<1>17. stack' = Append(Append(<< << >> >>, Picture!View'), Picture!View')
  BY <1>10, <1>12, Zenon DEF s2, s1, s0
<1>18. drawn' = Two(Picture!View, "me", m_player)' \cup Others'
  BY <1>10, <1>13, <1>16
<1> QED BY <1>11, <1>15, <1>17, <1>18 DEF SceneInv, Picture!Placed

LEMMA OtherDrawn == ASSUME NEW uid \in Uid PROVE SceneInv /\ Picture!DrawOther(uid) => SceneInv'
<1> SUFFICES ASSUME SceneInv, Picture!DrawOther(uid) PROVE SceneInv'
  OBVIOUS
<1> DEFINE V   == Picture!View
           s   == Append(Append(<< << >> >>, V), V)
           own == Two(V, uid, m_otherPlayers[uid])
<1>1. stack = s /\ drawn = Two(V, "me", m_player) \cup Others
  BY DEF SceneInv, Picture!DrawOther
<1>2. Picture!Gl = [stack |-> s, drawn |-> drawn]
  BY <1>1, Zenon DEF Picture!Gl
<1>3. Picture!DrawPlayer([stack |-> s, drawn |-> drawn], uid, m_otherPlayers[uid])
        = [stack |-> s, drawn |-> drawn \cup own]
  BY PlayerShown, Zenon
<1> HIDE DEF V, s, own
<1>4. Picture!Becomes([stack |-> s, drawn |-> drawn \cup own])
  BY <1>2, <1>3, Zenon DEF Picture!DrawOther
<1>5. stack' = s /\ drawn' = drawn \cup own
  BY <1>4 DEF Picture!Becomes
<1>6. /\ frame = "drawing" /\ frame' = "drawing" /\ uid \in left /\ left' = left \ {uid}
      /\ m_player' = m_player /\ m_cam' = m_cam /\ m_otherPlayers' = m_otherPlayers /\ eye' = eye
  BY DEF Picture!DrawOther
<1>7. Picture!View' = V
  BY <1>6 DEF V, Picture!View, Picture!Zoomed
<1>8. Two(Picture!View, "me", m_player)' = Two(V, "me", m_player)
  BY <1>6, <1>7 DEF Two
<1>9. Others' = Others \cup own
  <2> DEFINE T(u) == Two(V, u, m_otherPlayers[u])
  <2>1. Others = UNION {T(u) : u \in DOMAIN m_otherPlayers \ left}
    BY Zenon DEF Others, V
  <2>2. Others' = UNION {T(u) : u \in DOMAIN m_otherPlayers \ (left \ {uid})}
    BY <1>6, <1>7, Zenon DEF Others
  <2>3. own = T(uid)
    BY Zenon DEF own
  <2>4. uid \in DOMAIN m_otherPlayers
    BY <1>6 DEF SceneInv, Picture!TypeOK
  <2> HIDE DEF T
  <2> QED BY <1>6, <2>1, <2>2, <2>3, <2>4
<1>10. stack # << >>
  BY DEF SceneInv, Picture!TypeOK
<1>11. Picture!TypeOK'
  BY <1>1, <1>5, <1>6, <1>10 DEF SceneInv, Picture!TypeOK
<1>12. stack' = Append(Append(<< << >> >>, Picture!View'), Picture!View')
  BY <1>5, <1>7, Zenon DEF s
<1>13. drawn' = Two(Picture!View, "me", m_player)' \cup Others'
  BY <1>1, <1>5, <1>8, <1>9
<1> QED BY <1>6, <1>11, <1>12, <1>13 DEF SceneInv, Picture!Placed

LEMMA FrameEnds == SceneInv /\ Picture!DrawWorld => SceneInv'
<1> SUFFICES ASSUME SceneInv, Picture!DrawWorld PROVE SceneInv'
  OBVIOUS
<1> DEFINE V      == Picture!View
           s0     == << << >> >>
           s1     == Append(s0, V)
           s2     == Append(s1, V)
           ground == {<<"world", "ground", V>>}
<1>1. stack = s2 /\ drawn = Two(V, "me", m_player) \cup Others
  BY DEF SceneInv, Picture!DrawWorld
<1>2. /\ s0 \in Seq({<< >>, V}) /\ s1 \in Seq({<< >>, V}) /\ s2 \in Seq({<< >>, V})
  BY Views, Zenon
<1> HIDE DEF V, s0
<1>3. Picture!Last(s2) = V
  BY <1>2, TopOfStack
<1> HIDE DEF s2
<1>4. Picture!Gl = [stack |-> s2, drawn |-> drawn]
  BY <1>1 DEF Picture!Gl
<1>5. Picture!Ground([stack |-> s2, drawn |-> drawn]) = [stack |-> s2, drawn |-> drawn \cup ground]
  BY <1>2, <1>3, GroundDrawn, Zenon
<1> HIDE DEF ground
<1>6. Picture!Pop([stack |-> s2, drawn |-> drawn \cup ground]) = [stack |-> s1, drawn |-> drawn \cup ground]
  BY <1>2, Popped DEF s2
<1>7. Picture!Pop([stack |-> s1, drawn |-> drawn \cup ground]) = [stack |-> s0, drawn |-> drawn \cup ground]
  BY <1>2, Popped
<1> HIDE DEF s1
<1>8. Picture!Becomes([stack |-> s0, drawn |-> drawn \cup ground])
  BY <1>4, <1>5, <1>6, <1>7, Zenon DEF Picture!DrawWorld
<1>9. stack' = s0 /\ drawn' = drawn \cup ground
  BY <1>8 DEF Picture!Becomes
<1>10. /\ left = {} /\ left' = {} /\ frame' = "shown"
       /\ m_player' = m_player /\ m_cam' = m_cam /\ m_otherPlayers' = m_otherPlayers /\ eye' = eye
  BY DEF Picture!DrawWorld
<1>11. Picture!View' = V
  BY <1>10 DEF V, Picture!View, Picture!Zoomed
<1>12. Picture!TypeOK'
  BY <1>9, <1>10 DEF SceneInv, Picture!TypeOK, s0
<1>13. \A who, pos : Picture!Spheres(who, pos)' = Two(V, who, pos)
  BY <1>11, Zenon DEF Picture!Spheres, Two
<1>14. Others = UNION {Two(V, uid, m_otherPlayers[uid]) : uid \in DOMAIN m_otherPlayers}
  BY <1>10 DEF Others, V
<1>15. Picture!Placed'
  <2> DEFINE T(u) == Two(V, u, m_otherPlayers[u])
             all  == {<<"world", "ground", V>>} \cup Two(V, "me", m_player)
                     \cup UNION {T(u) : u \in DOMAIN m_otherPlayers}
  <2>1. drawn' = all
    BY <1>1, <1>9, <1>14 DEF ground
  <2> QED BY <1>9, <1>10, <1>11, <1>13, <2>1, Zenon DEF Picture!Placed, s0
<1> QED BY <1>9, <1>10, <1>12, <1>15 DEF SceneInv, s0

LEMMA ActorsMoved ==
  ASSUME NEW pos \in Spot, NEW uids \in SUBSET Uid, NEW looks \in [bTrack : BOOLEAN, zoom : Zoom],
         NEW others \in [uids -> Spot]
  PROVE  SceneInv /\ Picture!CalcActor(pos, others, looks) => SceneInv'
<1> SUFFICES ASSUME SceneInv, Picture!CalcActor(pos, others, looks) PROVE SceneInv'
  OBVIOUS
<1>1. /\ frame = "shown" /\ frame' = "moved" /\ left' = left /\ stack' = stack /\ drawn' = {}
      /\ m_cam' = m_player /\ m_player' = pos /\ m_otherPlayers' = others /\ eye' = looks
  BY DEF Picture!CalcActor
<1>2. left = {} /\ stack = << << >> >>
  BY <1>1 DEF SceneInv
<1>3. Picture!TypeOK'
  BY <1>1, <1>2 DEF SceneInv, Picture!TypeOK
<1> QED BY <1>1, <1>2, <1>3 DEF SceneInv, Picture!Placed

LEMMA SceneNext == SceneInv /\ [Picture!Next]_sceneVars => SceneInv'
<1>1. ASSUME SceneInv, UNCHANGED sceneVars PROVE SceneInv'
  <2>1. /\ m_player' = m_player /\ m_cam' = m_cam /\ m_otherPlayers' = m_otherPlayers /\ eye' = eye
        /\ stack' = stack /\ drawn' = drawn /\ frame' = frame /\ left' = left
    BY <1>1 DEF sceneVars
  <2>2. Picture!View' = Picture!View
    BY <2>1 DEF Picture!View, Picture!Zoomed
  <2>3. Others' = Others /\ \A who, pos : Picture!Spheres(who, pos)' = Picture!Spheres(who, pos)
    BY <2>1, <2>2, Zenon DEF Others, Picture!Spheres
  <2>4. Picture!TypeOK' /\ Picture!Placed'
    BY <1>1, <2>1, <2>2, <2>3 DEF SceneInv, Picture!TypeOK, Picture!Placed
  <2> QED BY <1>1, <2>1, <2>2, <2>3, <2>4 DEF SceneInv
<1> QED BY <1>1, FrameStarts, OtherDrawn, FrameEnds, ActorsMoved DEF Picture!Next

-----------------------------------------------------------------------------
(* The parts together: the one that was chosen keeps its invariant.        *)
PartInv ==
  /\ part \in {"ticks", "timer", "queue", "player", "view", "scene"}
  /\ part = "ticks"  => TicksInv /\ MeasuredInv /\ Ticks!Balanced
  /\ part = "timer"  => TimerInv
  /\ part = "queue"  => QueueInv
  /\ part = "player" => PlayerInv
  /\ part = "view"   => ViewInv
  /\ part = "scene"  => SceneInv

LEMMA PartsInit == Init => PartInv
<1>1. Ticks!Init => MeasuredInv /\ Ticks!Balanced
  BY DEF Ticks!Init, MeasuredInv, Ticks!Balanced
<1> QED BY <1>1, TicksInit, TimerInit, QueueInit, PlayerInit, ViewInit, SceneInit DEF Init, PartInv

LEMMA PartsNext == PartInv /\ [Next]_vars => PartInv'
<1> SUFFICES ASSUME PartInv, [Next]_vars PROVE PartInv'
  OBVIOUS
<1>1. CASE TicksStep
  BY <1>1, TicksNext, TicksMeasured DEF PartInv, TicksStep
<1>2. CASE TimerStep
  BY <1>2, TimerNext DEF PartInv, TimerStep
<1>3. CASE QueueStep
  BY <1>3, QueueNext DEF PartInv, QueueStep
<1>4. CASE PlayerStep
  BY <1>4, PlayerNext DEF PartInv, PlayerStep
<1>5. CASE ViewStep
  BY <1>5, ViewNext DEF PartInv, ViewStep
<1>6. CASE SceneStep
  BY <1>6, SceneNext DEF PartInv, SceneStep
<1>7. CASE UNCHANGED vars
  <2>1. /\ part' = part /\ UNCHANGED ticksVars /\ UNCHANGED timerVars /\ UNCHANGED queueVars
        /\ UNCHANGED avatarVars /\ UNCHANGED viewerVars /\ UNCHANGED sceneVars
    BY <1>7 DEF vars
  <2> QED BY <2>1, TicksNext, TicksMeasured, TimerNext, QueueNext, PlayerNext, ViewNext,
              SceneNext DEF PartInv
<1> QED BY <1>1, <1>2, <1>3, <1>4, <1>5, <1>6, <1>7 DEF Next

LEMMA Invariance == Spec => []PartInv
BY PartsInit, PartsNext, PTL DEF Spec

(* No part leaves its types: in particular the world loop's sleep does not *)
(* underflow its uint32 (Server.cpp:77-79), a player's angle stays on the  *)
(* circle (Player.cpp:67-84), and no window is fitted without a height     *)
(* (GLApp.cpp:153).                                                        *)
THEOREM TypeCorrect == Spec => []TypeOK
<1>1. PartInv => TypeOK
  BY DEF PartInv, TypeOK, TicksInv, TimerInv, QueueInv, PlayerInv, ViewInv, SceneInv
<1> QED BY <1>1, Invariance, PTL

(* No sleep exceeds WORLD_SLEEP_CONST by more than the clock was set back  *)
(* and one millisecond; a sleep and the time the tick before took beyond   *)
(* its own sleep make up WORLD_SLEEP_CONST, whatever the tick's length and *)
(* wherever the clock wrapped (Server.cpp:73-84).                          *)
THEOREM SleepsMakeUp == Spec => []Sleeps
<1>1. PartInv => Sleeps
  BY DEF PartInv, Sleeps, TicksInv
<1> QED BY <1>1, Invariance, PTL

(* However late the turns are, the timers of Timer.h tell the time: an     *)
(* interval timer keeps its phase; both trackers pass when their time is   *)
(* over, the 32-bit one while an int32 holds what is left, and it passes   *)
(* at once what is no int32; and a periodic timer expires once per period  *)
(* at the most, as long as its turns fit an int32.                         *)
THEOREM TimersKeepTime == Spec => []KeepTime
<1>1. PartInv => KeepTime
  BY InPhaseHolds, PassedInTimeHolds DEF PartInv, KeepTime, TimerInv, PeriodicInv, Timer!Periodic
<1> QED BY <1>1, Invariance, PTL

(* Items leave a LockedQueue once and in order, though its taker looks,    *)
(* peeks and pops in calls of their own (LockedQueue.h:71-123).            *)
THEOREM QueueIsFifo == Spec => []Fifo
<1>1. PartInv => Fifo
  BY DEF PartInv, Fifo, QueueInv
<1> QED BY <1>1, Invariance, PTL

(* Every frame of a client reports where it moved its player, and moves it *)
(* no further than the time since the first frame (NWApp.cpp:38-68), for   *)
(* frames of any length.                                                   *)
THEOREM PlayerTravels == Spec => []Travel
<1>1. ASSUME PlayerInv PROVE Player!InTime
  BY <1>1 DEF PlayerInv, InTimeInv, Player!TypeOK, Player!InTime
<1>2. PartInv => Travel
  BY <1>1 DEF PartInv, Travel, PlayerInv
<1> QED BY <1>2, Invariance, PTL

(* In whatever order buttons, cursor, wheel, keys and window sizes come,   *)
(* the view turns with the drag of the right button (GLApp.cpp:70-149).    *)
(* Every frame shows every player where it is, for any number of players   *)
(* drawn in any order, and leaves the matrix stack as it found it          *)
(* (GLApp.cpp:169-194, NWApp.cpp:159-171, Player.cpp:23-40).               *)
THEOREM ShownAsItIs == Spec => []Shows
<1>1. PartInv => Shows
  BY DEF PartInv, Shows, ViewInv, SceneInv
<1> QED BY <1>1, Invariance, PTL
=============================================================================
