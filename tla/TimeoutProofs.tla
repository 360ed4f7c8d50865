--------------------------- MODULE TimeoutProofs ---------------------------
(***************************************************************************)
(* Theorems about Timeout, for any clock, limits and timers.               *)
(***************************************************************************)
EXTENDS Timeout, TLAPS

(* The inductive invariant, in parts. *)

\* A call has its outcome when it is over, and only then; a timeout is one of the phase.
OutcomeInv ==
    /\ outcome # "none" <=> pc = "done"
    /\ TimedOut => timeout <= 0
    /\ outcome = "connectTimeout" <=> TimedOut /\ headerPairCount = 0

\* No more has been counted off since the countdown began than the clock shows.
CountedInv == (limit - timeout) * Milli <= (IF TimedOut THEN now ELSE timeoutTimestamp) - started

\* Where the timestamp is: it is taken at the end of a countdown, and a restart leaves
\* it where it was; a wait that was not cut short has lasted a millisecond.
StampInv ==
    /\ timeoutTimestamp >= started
    /\ pc = "top" /\ ~fdEvents => timeoutTimestamp = now
    /\ fdEvents /\ pc \notin {"after", "done"} => timeout = limit /\ timeoutTimestamp <= since
    /\ pc = "after" /\ ~spun /\ ~fdEvents => now - timeoutTimestamp >= Milli

\* Every second that has ended since the countdown began took off a millisecond.
SecondsInv ==
    ~spun /\ ~fdEvents /\ pc # "done" =>
        limit - timeout >= timeoutTimestamp \div Second - since \div Second

\* The limit is the one of connecting until headers come and events tell of them.
PhaseInv ==
    /\ headerPairCount = 0 => limit = connTimeout /\ ~told
    /\ told => limit = readTimeout \/ (pc = "after" /\ fdEvents)

\* After an interruption one wait may have begun, and no look has been passed since.
InterruptInv ==
    /\ lateWaits \in {0, 1}
    /\ lateWaits # 0 => interrupted /\ pc \in {"waiting", "after", "top", "done"}

IInv ==
    /\ TypeOK /\ OutcomeInv /\ CountedInv /\ StampInv /\ SecondsInv /\ PhaseInv /\ InterruptInv
-----------------------------------------------------------------------------
(* The arithmetic of a timespec. *)

\* Products of integers.
LEMMA Rearranged ==
    ASSUME NEW x \in Int, NEW y \in Int, NEW z \in Int
    PROVE  (x * y) * z = (y * z) * x
  OBVIOUS

\* Multiplication distributes.
LEMMA Distributed ==
    ASSUME NEW x \in Int, NEW y \in Int, NEW z \in Int
    PROVE  (x + y) * z = x * z + y * z
  OBVIOUS

\* Products of natural numbers are natural.
LEMMA ProductNat ==
    ASSUME NEW x \in Nat, NEW y \in Nat
    PROVE  x * y \in Nat
  OBVIOUS

\* The seconds and nanoseconds of a time.
LEMMA ClockSplit ==
    ASSUME NEW a \in Nat
    PROVE  /\ a \div Second \in Nat /\ a % Second \in 0..(Second - 1)
           /\ a = Second * (a \div Second) + (a % Second)
  <1>1. Second \in Nat \ {0}
    BY ClockAssumption
  <1>2. a \div Second \in Nat
    BY ONLY <1>1
  <1>3. a % Second \in 0..(Second - 1)
    BY ONLY <1>1
  <1>4. a = Second * (a \div Second) + (a % Second)
    BY ONLY <1>1
  <1> QED
    BY <1>2, <1>3, <1>4

\* The seconds of a clock do not go back.
LEMMA SecondsMonotonic ==
    ASSUME NEW a \in Nat, NEW b \in Nat, a <= b
    PROVE  a \div Second <= b \div Second
  <1>1. Second \in Nat \ {0}
    BY ClockAssumption
  <1> DEFINE m == a \div Second
             n == b \div Second
  <1>2. m \in Nat /\ n \in Nat /\ a >= Second * m /\ b < Second * n + Second
    BY <1>1, ClockSplit
  <1> HIDE DEF m, n
  <1>3. ASSUME n + 1 <= m PROVE Second * m >= Second * n + Second
    <2>1. Second * m >= Second * (n + 1)
      BY ONLY <1>1, <1>2, <1>3
    <2> QED
      BY <1>1, <1>2, <2>1
  <1>4. m <= n
    BY <1>1, <1>2, <1>3
  <1> QED
    BY <1>4 DEF m, n

\* A second is a whole number of milliseconds, and more than one.
LEMMA SecondSplit ==
    /\ Second \div Milli \in Nat /\ Second \div Milli >= 2
    /\ Second = (Second \div Milli) * Milli
  <1>1. Second \div Milli \in Nat /\ Second = (Second \div Milli) * Milli
    BY ClockAssumption
  <1>2. Second \div Milli # 0 /\ Second \div Milli # 1
    BY <1>1, ClockAssumption
  <1> QED
    BY <1>1, <1>2

\* What is taken off between two times a and b, computed from the differences of their
\* seconds and of their nanoseconds: no more than has passed, and a millisecond or more
\* for every second that has ended.
LEMMA OffBounds ==
    ASSUME NEW a \in Nat, NEW b \in Nat, a <= b,
           NEW sec \in Int, sec = b \div Second - a \div Second,
           NEW diff \in Int, diff = (b % Second) - (a % Second),
           NEW off, off = IF diff < 0
                            THEN (sec - 1) * (Second \div Milli) + (diff + Second) \div Milli
                            ELSE sec * (Second \div Milli)
    PROVE  /\ off \in Nat
           /\ off * Milli <= b - a
           /\ b - a >= Milli => off >= sec
  <1> DEFINE q == Second \div Milli
  <1>1. q \in Nat /\ q >= 2 /\ Second = q * Milli /\ Milli \in Nat \ {0} /\ Second \in Nat \ {0}
    BY SecondSplit, ClockAssumption
  <1>2. /\ b - a = Second * (b \div Second) - Second * (a \div Second) + diff
        /\ diff > -Second /\ diff < Second
    BY ClockSplit, ClockAssumption
  <1>3. b - a = Second * sec + diff
    <2>1. /\ b \div Second \in Nat /\ a \div Second \in Nat
      BY ClockSplit
    <2>2. Second * sec = Second * (b \div Second) - Second * (a \div Second)
      BY <1>1, <2>1
    <2> QED
      BY <1>2, <2>2
  <1> HIDE DEF q
  <1>4. sec >= 0
    <2>1. ASSUME sec <= -1 PROVE Second * sec <= -Second
      BY <1>1, <2>1
    <2> QED
      BY <1>1, <1>2, <1>3, <2>1
  <1>5. CASE diff >= 0
    <2>1. off = sec * q /\ off \in Nat
      BY <1>1, <1>4, <1>5 DEF q
    <2>2. off * Milli = Second * sec
      <3>1. (sec * q) * Milli = (q * Milli) * sec
        <4>1. sec \in Int /\ q \in Int /\ Milli \in Int
          BY <1>1
        <4> QED
          BY ONLY <4>1, Rearranged
      <3> QED
        BY ONLY <1>1, <2>1, <3>1, Zenon
    <2>3. off >= sec
      BY <1>1, <1>4, <2>1
    <2> QED
      BY <1>1, <1>3, <1>5, <2>1, <2>2, <2>3
  <1>6. CASE diff < 0
    <2> DEFINE x == diff + Second
               y == x \div Milli
    <2>1. sec >= 1
      <3>1. sec = 0 => Second * sec = 0
        BY <1>1
      <3> QED
        BY <1>3, <1>4, <1>6, <3>1
    <2>2. x \in Nat /\ y \in Nat /\ y * Milli <= x /\ (x >= Milli => y >= 1)
      <3>1. x \in Nat
        BY <1>1, <1>2
      <3> HIDE DEF x
      <3>2. y \in Nat /\ y * Milli <= x /\ x < y * Milli + Milli
        BY <1>1, <3>1
      <3> HIDE DEF y
      <3>3. x >= Milli => y # 0
        BY <1>1, <3>1, <3>2
      <3> QED
        BY <3>1, <3>2, <3>3
    <2>3. off = (sec - 1) * q + y
      BY <1>6 DEF q
    <2>4. b - a = Second * (sec - 1) + x
      BY <1>1, <1>3
    <2> HIDE DEF x, y
    <2>5. (sec - 1) * q \in Nat /\ ((sec - 1) * q) * Milli = Second * (sec - 1)
      <3>1. sec - 1 \in Nat
        BY <2>1
      <3>2. ((sec - 1) * q) * Milli = (q * Milli) * (sec - 1)
        <4>1. sec - 1 \in Int /\ q \in Int /\ Milli \in Int
          BY <1>1, <3>1
        <4> QED
          BY ONLY <4>1, Rearranged
      <3>3. (sec - 1) * q \in Nat
        BY ONLY <1>1, <3>1, ProductNat
      <3> QED
        BY ONLY <1>1, <3>2, <3>3, Zenon
    <2>6. off \in Nat /\ off * Milli = ((sec - 1) * q) * Milli + y * Milli
      <3>1. (sec - 1) * q \in Int /\ y \in Int /\ Milli \in Int
        BY <1>1, <2>2, <2>5
      <3>2. ((sec - 1) * q + y) * Milli = ((sec - 1) * q) * Milli + y * Milli
        BY ONLY <3>1, Distributed
      <3>3. off \in Nat
        BY <2>2, <2>3, <2>5
      <3> QED
        BY ONLY <2>3, <3>2, <3>3, Zenon
    <2>7. off * Milli <= b - a
      BY <1>1, <2>2, <2>4, <2>5, <2>6
    <2>8. ASSUME b - a >= Milli PROVE off >= sec
      <3>1. CASE sec = 1
        <4>1. (sec - 1) * q = 0 /\ Second * (sec - 1) = 0
          BY <1>1, <3>1
        <4>2. x = b - a /\ off = y
          BY <2>2, <2>3, <2>4, <4>1
        <4> QED
          BY <2>2, <2>8, <3>1, <4>2
      <3>2. CASE sec >= 2
        <4>1. (sec - 1) * q >= (sec - 1) * 2
          BY <1>1, <3>2
        <4> QED
          BY <2>2, <2>3, <2>5, <3>2, <4>1
      <3> QED
        BY <2>1, <3>1, <3>2
    <2> QED
      BY <2>6, <2>7, <2>8
  <1> QED
    BY <1>5, <1>6

\* The countdown of a round.
LEMMA CountedOffBounds ==
    ASSUME TypeOK
    PROVE  /\ CountedOff \in Nat
           /\ CountedOff * Milli <= now - timeoutTimestamp
           /\ now - timeoutTimestamp >= Milli =>
                 CountedOff >= now \div Second - timeoutTimestamp \div Second
  <1>1. now \in Nat /\ timeoutTimestamp \in Nat /\ timeoutTimestamp <= now
    BY ClockAssumption DEF TypeOK
  <1>2. /\ now \div Second - timeoutTimestamp \div Second \in Int
        /\ (now % Second) - (timeoutTimestamp % Second) \in Int
    BY <1>1, ClockSplit
  <1> QED
    BY <1>1, <1>2, OffBounds DEF CountedOff

-----------------------------------------------------------------------------
(* The invariant is inductive. *)

\* The limits that the code can set lie between 1 and Forever.
LEMMA Constants ==
    /\ Milli \in Nat \ {0} /\ Second \in Nat \ {0} /\ Forever \in Nat \ {0}
    /\ \A t \in Timeouts : Limit(t) \in 1..Forever
  BY ClockAssumption DEF Forever, Limit

\* Before the first call nothing has waited.
LEMMA InitInv ==
    ASSUME Init
    PROVE  IInv
  <1>1. connTimeout \in 1..Forever /\ readTimeout \in 1..Forever
    BY Constants DEF Init
  <1>2. now \in 0..MaxNow
    BY ClockAssumption DEF Init
  <1>3. TypeOK
    <2>1. timeout \in 1..Forever /\ limit = timeout /\ limit \in {connTimeout, readTimeout}
      BY <1>1 DEF Init, PhaseLimit
    <2>2. timeout \in Int /\ timeout > 0
      BY <2>1, Constants
    <2>3. timeoutTimestamp \in 0..now /\ {started, since} \subseteq 0..now
      BY <1>2 DEF Init
    <2>4. {fdEvents, interrupted, spun, told} \subseteq BOOLEAN
      BY DEF Init
    <2>5. /\ waitTime = 0 /\ pc = "top" /\ outcome = "none" /\ lateWaits = 0
          /\ headerPairCount \in {0, 1}
      BY DEF Init
    <2> QED
      BY ONLY <1>1, <1>2, <2>1, <2>2, <2>3, <2>4, <2>5 DEF TypeOK
  <1>4. CountedInv /\ SecondsInv
    <2>1. timeout \in Int /\ limit = timeout /\ since = now /\ timeoutTimestamp = now
          /\ started = now /\ ~TimedOut /\ now \in Nat
      BY <1>3 DEF Init, TypeOK, TimedOut
    <2>2. limit - timeout = 0 /\ 0 * Milli = 0 /\ now \div Second \in Nat
      BY <2>1, Constants, ClockSplit
    <2> QED
      BY <2>1, <2>2 DEF CountedInv, SecondsInv
  <1>5. OutcomeInv /\ StampInv /\ PhaseInv /\ InterruptInv
    BY <1>3 DEF Init, TypeOK, OutcomeInv, TimedOut, StampInv, PhaseInv, PhaseLimit, InterruptInv
  <1> QED
    BY <1>3, <1>4, <1>5 DEF IInv

\* A look at the flag, an end without a timeout, and the interruption itself leave the
\* clock and the countdown alone.
LEMMA LookSteps ==
    ASSUME IInv, LoopTop \/ Finishes \/ Check \/ WaitFails \/ Interrupt
    PROVE  IInv'
  <1>1. /\ UNCHANGED <<now, connTimeout, readTimeout, headerPairCount, timing, hist>>
        /\ (pc # "done" /\ pc # "after") \/ (pc # "done" /\ pc' = pc)
        /\ \/ pc' = pc /\ outcome' = outcome
           \/ pc' = "done" /\ outcome' \in {"interrupted", "finished", "failed"}
           \/ pc = "top" /\ pc' = "perform" /\ outcome' = outcome /\ ~interrupted
           \/ pc = "check" /\ pc' = "decide" /\ outcome' = outcome /\ ~interrupted
        /\ interrupted' \in {interrupted, TRUE}
    BY DEF LoopTop, Finishes, Check, WaitFails, Interrupt, Look, Return, hist
  <1>2. UNCHANGED <<timeout, timeoutTimestamp, fdEvents, waitTime, started, limit, since,
                    spun, told, lateWaits>>
    BY <1>1 DEF timing, hist
  <1>3. TypeOK /\ OutcomeInv /\ CountedInv /\ StampInv /\ SecondsInv /\ PhaseInv /\ InterruptInv
    BY DEF IInv
  <1>4. TypeOK'
    BY ZenonT(30), <1>1, <1>2, <1>3 DEF TypeOK
  <1>5. OutcomeInv' /\ CountedInv'
    BY <1>1, <1>2, <1>3 DEF OutcomeInv, CountedInv, TimedOut
  <1>6. StampInv' /\ SecondsInv'
    BY <1>1, <1>2, <1>3 DEF StampInv, SecondsInv
  <1>7. PhaseInv' /\ InterruptInv'
    BY <1>1, <1>2, <1>3 DEF PhaseInv, InterruptInv
  <1> QED
    BY <1>4, <1>5, <1>6, <1>7 DEF IInv

\* In a perform time passes and headers may come; the limit is the old one until events
\* are reported.
LEMMA PerformStep ==
    ASSUME IInv, NEW d \in 0..Delay, NEW h \in {0, 1}, Perform(d, h)
    PROVE  IInv'
  <1>1. /\ pc = "perform" /\ pc' = "check" /\ outcome' = outcome
        /\ now' = now + d /\ now' <= MaxNow /\ h \in {headerPairCount, 1}
        /\ headerPairCount' = h
        /\ UNCHANGED <<connTimeout, readTimeout, interrupted>>
    BY DEF Perform
  <1>2. UNCHANGED <<timeout, timeoutTimestamp, fdEvents, waitTime, started, limit, since,
                    spun, told, lateWaits>>
    BY DEF Perform, timing, hist
  <1>3. TypeOK /\ OutcomeInv /\ CountedInv /\ StampInv /\ SecondsInv /\ PhaseInv /\ InterruptInv
    BY DEF IInv
  <1>4. outcome = "none" /\ ~TimedOut
    BY <1>1, <1>3 DEF OutcomeInv, TimedOut
  <1>5. now \in 0..MaxNow /\ d \in Nat /\ now' \in 0..MaxNow /\ now' >= now
    BY <1>1, <1>3, ClockAssumption DEF TypeOK
  <1>6. TypeOK'
    BY <1>1, <1>2, <1>3, <1>5, ClockAssumption DEF TypeOK
  <1>7. OutcomeInv' /\ CountedInv'
    BY <1>1, <1>2, <1>3, <1>4 DEF OutcomeInv, CountedInv, TimedOut
  <1>8. StampInv' /\ SecondsInv'
    BY <1>1, <1>2, <1>3 DEF StampInv, SecondsInv
  <1>9. PhaseInv' /\ InterruptInv'
    BY <1>1, <1>2, <1>3 DEF PhaseInv, InterruptInv, TypeOK
  <1> QED
    BY <1>6, <1>7, <1>8, <1>9 DEF IInv

\* The time of a wait is chosen: a wait that begins after the interruption is the first.
LEMMA DecideStep ==
    ASSUME IInv, NEW t \in Timers, Decide(t)
    PROVE  IInv'
  <1>1. /\ pc = "decide" /\ outcome' = outcome
        /\ UNCHANGED <<now, connTimeout, readTimeout, headerPairCount, timeout,
                       timeoutTimestamp, fdEvents, interrupted, started, limit, since, told>>
        /\ waitTime' = IF timeout < t THEN timeout ELSE t
        /\ \/ /\ waitTime' > 0 /\ pc' = "waiting" /\ spun' = spun
              /\ lateWaits' = IF interrupted THEN lateWaits + 1 ELSE lateWaits
           \/ pc' = "after" /\ spun' = TRUE /\ lateWaits' = lateWaits
    BY DEF Decide
  <1>3. TypeOK /\ OutcomeInv /\ CountedInv /\ StampInv /\ SecondsInv /\ PhaseInv /\ InterruptInv
    BY DEF IInv
  <1>4. waitTime' \in Int /\ waitTime' <= timeout /\ lateWaits = 0
    BY <1>1, <1>3, ClockAssumption DEF TypeOK, InterruptInv
  <1>5. lateWaits' \in {0, 1} /\ (lateWaits' # 0 => interrupted /\ pc' = "waiting")
    BY <1>1, <1>4
  <1>6. TypeOK'
    <2>1. waitTime' \in Int /\ (pc' = "waiting" => waitTime' \in 1..timeout')
      BY <1>1, <1>3, <1>4 DEF TypeOK
    <2>2. lateWaits' \in Nat /\ pc' \in {"waiting", "after"}
      BY <1>1, <1>5
    <2>3. spun' \in BOOLEAN
      BY <1>1, <1>3, Zenon DEF TypeOK
    <2>4. timeout' \in Int /\ timeout' > 0
      BY <1>1, <1>3 DEF TypeOK
    <2> QED
      BY <1>1, <1>3, <2>1, <2>2, <2>3, <2>4 DEF TypeOK
  <1>7. OutcomeInv' /\ CountedInv'
    BY <1>1, <1>3 DEF OutcomeInv, CountedInv, TimedOut
  <1>8. StampInv' /\ SecondsInv'
    BY <1>1, <1>3 DEF StampInv, SecondsInv
  <1>9. PhaseInv' /\ InterruptInv'
    BY <1>1, <1>3, <1>5 DEF PhaseInv, InterruptInv
  <1> QED
    BY <1>6, <1>7, <1>8, <1>9 DEF IInv

\* Events begin a new countdown when the round ends; until then nothing is claimed of it.
LEMMA EventsStep ==
    ASSUME IInv, NEW d \in 0..MaxNow, EventsCome(d)
    PROVE  IInv'
  <1>1. /\ pc = "waiting" /\ pc' = "after" /\ outcome' = outcome
        /\ now' = now + d /\ now' <= MaxNow
        /\ fdEvents' = TRUE /\ told' = (headerPairCount > 0)
        /\ UNCHANGED <<connTimeout, readTimeout, headerPairCount, timeout, timeoutTimestamp,
                       waitTime, interrupted, started, limit, since, spun, lateWaits>>
    BY DEF EventsCome
  <1>3. TypeOK /\ OutcomeInv /\ CountedInv /\ StampInv /\ SecondsInv /\ PhaseInv /\ InterruptInv
    BY DEF IInv
  <1>4. outcome = "none" /\ ~TimedOut
    BY <1>1, <1>3 DEF OutcomeInv, TimedOut
  <1>5. now \in 0..MaxNow /\ d \in Nat /\ now' \in 0..MaxNow /\ now' >= now
    BY <1>1, <1>3, ClockAssumption DEF TypeOK
  <1>6. TypeOK'
    <2>1. told' \in BOOLEAN
      BY <1>1
    <2> QED
      BY <1>1, <1>3, <1>5, <2>1, ClockAssumption DEF TypeOK
  <1>7. OutcomeInv' /\ CountedInv'
    BY <1>1, <1>3, <1>4 DEF OutcomeInv, CountedInv, TimedOut
  <1>8. StampInv' /\ SecondsInv'
    BY <1>1, <1>3 DEF StampInv, SecondsInv
  <1>9. PhaseInv' /\ InterruptInv'
    BY <1>1, <1>3 DEF PhaseInv, InterruptInv, TypeOK
  <1> QED
    BY <1>6, <1>7, <1>8, <1>9 DEF IInv

\* A wait without events that was not cut short has lasted a millisecond or more.  The
\* countdown that a restart began has its timestamp in the past.
LEMMA NothingStep ==
    ASSUME IInv, NEW d \in 0..(waitTime * Milli + Delay), NothingComes(d)
    PROVE  IInv'
  <1>1. /\ pc = "waiting" /\ pc' = "after" /\ outcome' = outcome
        /\ now' = now + d /\ now' <= MaxNow
        /\ fdEvents' = FALSE /\ spun' = (spun \/ d < waitTime * Milli)
        /\ UNCHANGED <<connTimeout, readTimeout, headerPairCount, timeout, timeoutTimestamp,
                       waitTime, interrupted, started, limit, since, told, lateWaits>>
    BY DEF NothingComes
  <1>3. TypeOK /\ OutcomeInv /\ CountedInv /\ StampInv /\ SecondsInv /\ PhaseInv /\ InterruptInv
    BY DEF IInv
  <1>4. outcome = "none" /\ ~TimedOut
    BY <1>1, <1>3 DEF OutcomeInv, TimedOut
  <1>5. now \in 0..MaxNow /\ d \in Nat /\ now' \in 0..MaxNow /\ now' >= now
    BY <1>1, <1>3, ClockAssumption DEF TypeOK
  <1>6. waitTime \in Nat \ {0} /\ waitTime * Milli \in Nat /\ waitTime * Milli >= Milli
    <2>1. waitTime \in Nat \ {0} /\ Milli \in Nat \ {0}
      BY <1>1, <1>3, Constants DEF TypeOK
    <2> QED
      BY ONLY <2>1
  <1>7. TypeOK'
    <2>1. spun' \in BOOLEAN
      BY <1>1, <1>3, Zenon DEF TypeOK
    <2>2. timeoutTimestamp' \in 0..now' /\ {started, since}' \subseteq 0..now'
      BY <1>1, <1>3, <1>5 DEF TypeOK
    <2>3. timeout' \in Int /\ timeout' > 0 /\ waitTime' \in Int
      BY <1>1, <1>3 DEF TypeOK
    <2> QED
      BY <1>1, <1>3, <1>5, <2>1, <2>2, <2>3 DEF TypeOK
  <1>8. OutcomeInv' /\ CountedInv'
    BY <1>1, <1>3, <1>4 DEF OutcomeInv, CountedInv, TimedOut
  <1>9. StampInv'
    <2>1. ~spun' => ~(d < waitTime * Milli)
      BY <1>1, Zenon
    <2>2. ~spun' => now' - timeoutTimestamp >= Milli
      <3>1. timeoutTimestamp \in Nat /\ timeoutTimestamp <= now /\ now' = now + d
        BY <1>1, <1>3, <1>5 DEF TypeOK
      <3> QED
        BY ONLY <1>5, <1>6, <2>1, <3>1, Constants
    <2> QED
      BY <1>1, <1>3, <2>2 DEF StampInv
  <1>10. SecondsInv'
    <2>1. SUFFICES ASSUME ~spun PROVE limit - timeout >= timeoutTimestamp \div Second - since \div Second
      BY <1>1 DEF SecondsInv
    <2>2. CASE ~fdEvents
      BY <1>1, <1>3, <2>1, <2>2 DEF SecondsInv
    <2>3. CASE fdEvents
      <3>1. timeout = limit /\ timeout \in Int /\ timeoutTimestamp <= since
            /\ timeoutTimestamp \in Nat /\ since \in Nat
        BY <1>1, <1>3, <2>3, ClockAssumption DEF StampInv, TypeOK
      <3>2. timeoutTimestamp \div Second <= since \div Second
        BY <3>1, SecondsMonotonic
      <3>3. timeoutTimestamp \div Second \in Nat /\ since \div Second \in Nat
        BY <3>1, ClockSplit
      <3> QED
        BY <3>1, <3>2, <3>3
    <2>4. fdEvents \in BOOLEAN
      BY <1>3 DEF TypeOK
    <2> QED
      BY <2>2, <2>3
  <1>11. PhaseInv' /\ InterruptInv'
    BY <1>1, <1>3 DEF PhaseInv, InterruptInv
  <1> QED
    BY <1>7, <1>8, <1>9, <1>10, <1>11 DEF IInv

\* A restart takes the limit of the phase that the transfer is in by now.
LEMMA RestartStep ==
    ASSUME IInv, Restart
    PROVE  IInv'
  <1>1. /\ pc = "after" /\ pc' = "top" /\ outcome' = outcome /\ fdEvents
        /\ timeout' = PhaseLimit /\ limit' = PhaseLimit /\ since' = now /\ spun' = FALSE
        /\ waitTime' = 0
        /\ UNCHANGED <<now, connTimeout, readTimeout, headerPairCount, timeoutTimestamp,
                       fdEvents, interrupted, started, told, lateWaits>>
    BY DEF Restart
  <1>3. TypeOK /\ OutcomeInv /\ CountedInv /\ StampInv /\ SecondsInv /\ PhaseInv /\ InterruptInv
    BY DEF IInv
  <1>4. outcome = "none" /\ ~TimedOut /\ ~TimedOut'
    BY <1>1, <1>3 DEF OutcomeInv, TimedOut
  <1>5. PhaseLimit \in 1..Forever /\ PhaseLimit \in {connTimeout, readTimeout} /\ Forever \in Nat
    BY <1>3, Constants DEF TypeOK, PhaseLimit
  <1>6. TypeOK'
    <2>1. timeout' \in Int /\ timeout' > 0 /\ limit' \in {connTimeout, readTimeout}
      BY <1>1, <1>5
    <2>2. timeoutTimestamp' \in 0..now' /\ {started, since}' \subseteq 0..now'
          /\ now' \in 0..MaxNow
      BY <1>1, <1>3, ClockAssumption DEF TypeOK
    <2>3. /\ waitTime' = 0 /\ pc' = "top"
          /\ UNCHANGED <<connTimeout, readTimeout, headerPairCount, outcome, lateWaits>>
      BY <1>1
    <2>4. {fdEvents, interrupted, spun, told}' \subseteq BOOLEAN
      BY <1>1, <1>3, Zenon DEF TypeOK
    <2> QED
      BY ONLY <1>3, <2>1, <2>2, <2>3, <2>4 DEF TypeOK
  <1>7. OutcomeInv'
    BY <1>1, <1>3, <1>4 DEF OutcomeInv, TimedOut
  <1>8. CountedInv'
    <2>1. limit' - timeout' = 0 /\ 0 * Milli = 0
      BY <1>1, <1>5, Constants
    <2>2. timeoutTimestamp' - started' >= 0
      BY <1>1, <1>3, ClockAssumption DEF StampInv, TypeOK
    <2> QED
      BY <1>4, <2>1, <2>2 DEF CountedInv
  <1>9. StampInv'
    BY <1>1, <1>3 DEF StampInv, TypeOK
  <1>10. SecondsInv' /\ InterruptInv'
    BY <1>1, <1>3 DEF SecondsInv, InterruptInv
  <1>11. PhaseInv'
    BY <1>1, <1>3 DEF PhaseInv, PhaseLimit, TypeOK
  <1> QED
    BY <1>6, <1>7, <1>8, <1>9, <1>10, <1>11 DEF IInv

\* The countdown of a round without events takes off what OffBounds allows.
LEMMA CountDownStep ==
    ASSUME IInv, CountDown
    PROVE  IInv'
  <1>1. /\ pc = "after" /\ ~fdEvents
        /\ timeout' = timeout - CountedOff /\ waitTime' = 0
        /\ \/ /\ timeout' <= 0 /\ pc' = "done" /\ outcome' = Thrown
              /\ timeoutTimestamp' = timeoutTimestamp
           \/ /\ timeout' > 0 /\ pc' = "top" /\ outcome' = outcome
              /\ timeoutTimestamp' = now
        /\ UNCHANGED <<now, connTimeout, readTimeout, headerPairCount, fdEvents, interrupted>>
    BY DEF CountDown, Return
  <1>2. UNCHANGED <<started, limit, since, spun, told, lateWaits>>
    BY DEF CountDown, hist
  <1>3. TypeOK /\ OutcomeInv /\ CountedInv /\ StampInv /\ SecondsInv /\ PhaseInv /\ InterruptInv
    BY DEF IInv
  <1>4. outcome = "none" /\ ~TimedOut
    BY <1>1, <1>3 DEF OutcomeInv, TimedOut
  <1>5. /\ CountedOff \in Nat
        /\ CountedOff * Milli <= now - timeoutTimestamp
        /\ now - timeoutTimestamp >= Milli =>
              CountedOff >= now \div Second - timeoutTimestamp \div Second
    BY <1>3, CountedOffBounds
  <1>6. /\ timeout \in Int /\ limit \in Int /\ Milli \in Int /\ timeout' \in Int
        /\ now \in Nat /\ timeoutTimestamp \in Nat /\ since \in Nat /\ started \in Nat
    <2>1. timeout \in Int /\ limit \in Int
      BY <1>3, Constants DEF TypeOK
    <2>2. now \in Nat /\ timeoutTimestamp \in Nat /\ since \in Nat /\ started \in Nat
      BY <1>3, ClockAssumption DEF TypeOK
    <2> QED
      BY <1>1, <1>5, <2>1, <2>2, Constants
  <1>7. TypeOK'
    <2>1. outcome' \in {"none", "connectTimeout", "readTimeout"}
      BY <1>1, <1>4 DEF Thrown
    <2>2. timeoutTimestamp' \in 0..now'
      BY <1>1, <1>3, <1>6 DEF TypeOK
    <2>3. timeout' \in Int /\ (pc' # "done" => timeout' > 0) /\ pc' \in {"top", "done"}
      BY <1>1, <1>6
    <2> QED
      BY <1>1, <1>2, <1>3, <2>1, <2>2, <2>3 DEF TypeOK
  <1>8. OutcomeInv'
    BY <1>1, <1>3, <1>4 DEF OutcomeInv, TimedOut, Thrown, TypeOK
  <1>9. CountedInv'
    <2>1. (limit - timeout) * Milli <= timeoutTimestamp - started
      BY <1>3, <1>4 DEF CountedInv
    <2>2. limit' - timeout' = (limit - timeout) + CountedOff /\ limit - timeout \in Int
      BY <1>1, <1>2, <1>5, <1>6
    <2>3. ((limit - timeout) + CountedOff) * Milli
             = (limit - timeout) * Milli + CountedOff * Milli
      <3>1. limit - timeout \in Int /\ CountedOff \in Int /\ Milli \in Int
        BY <1>5, <1>6
      <3> QED
        BY ONLY <3>1, Distributed
    <2>4. (limit - timeout) * Milli \in Int /\ CountedOff * Milli \in Int
      BY <1>5, <1>6, <2>2
    <2>5. (limit - timeout) * Milli + CountedOff * Milli <= now - started
      BY ONLY <1>5, <1>6, <2>1, <2>4
    <2>6. (limit' - timeout') * Milli <= now - started
      BY ONLY <2>2, <2>3, <2>5, Zenon
    <2>7. now' - started' = now - started
          /\ (~TimedOut' => timeoutTimestamp' = now)
      BY <1>1, <1>2 DEF TimedOut, Thrown
    <2> QED
      BY <1>1, <2>6, <2>7 DEF CountedInv
  <1>10. StampInv'
    BY <1>1, <1>2, <1>3, <1>6 DEF StampInv, TypeOK
  <1>11. SecondsInv'
    <2>1. SUFFICES ASSUME ~spun, pc' = "top"
                   PROVE  limit - timeout' >= now \div Second - since \div Second
      BY <1>1, <1>2 DEF SecondsInv
    <2>2. limit - timeout >= timeoutTimestamp \div Second - since \div Second
      BY <1>1, <1>3, <2>1 DEF SecondsInv
    <2>3. CountedOff >= now \div Second - timeoutTimestamp \div Second
      BY <1>1, <1>3, <1>5, <2>1 DEF StampInv
    <2>4. /\ now \div Second \in Nat /\ timeoutTimestamp \div Second \in Nat
          /\ since \div Second \in Nat
      BY <1>6, ClockSplit
    <2> QED
      BY <1>1, <1>5, <1>6, <2>2, <2>3, <2>4
  <1>12. PhaseInv' /\ InterruptInv'
    BY <1>1, <1>2, <1>3 DEF PhaseInv, InterruptInv
  <1> QED
    BY <1>7, <1>8, <1>9, <1>10, <1>11, <1>12 DEF IInv

\* Every step of the waiting loop keeps the invariant.
LEMMA NextInv ==
    ASSUME IInv, [Next]_vars
    PROVE  IInv'
  <1>1. CASE Next
    BY <1>1, LookSteps, PerformStep, DecideStep, EventsStep, NothingStep, RestartStep,
       CountDownStep DEF Next
  <1>2. CASE UNCHANGED vars
    <2>1. UNCHANGED <<now, connTimeout, readTimeout, headerPairCount, timing, interrupted, pc,
                      outcome, hist>>
      BY <1>2 DEF vars
    <2>2. UNCHANGED <<timeout, timeoutTimestamp, fdEvents, waitTime, started, limit, since,
                      spun, told, lateWaits>>
      BY <2>1 DEF timing, hist
    <2> QED
      BY <2>1, <2>2 DEF IInv, TypeOK, OutcomeInv, CountedInv, TimedOut, StampInv, SecondsInv,
                        PhaseInv, InterruptInv
  <1> QED
    BY <1>1, <1>2

\* The clock, the countdown and the phase stay as IInv says in every run of curlPerform.
THEOREM Invariance == Spec => []IInv
  <1>1. Init => IInv
    BY InitInv
  <1>2. IInv /\ [Next]_vars => IInv'
    BY NextInv
  <1> QED
    BY <1>1, <1>2, PTL DEF Spec

-----------------------------------------------------------------------------
(* The properties. *)

\* A timeout is thrown only after the whole limit has passed, and not without a limit:
\* what the rounds take off in whole milliseconds never adds up to more than the time
\* between their timestamps.
THEOREM TimeoutsAreEarned == Spec => []NotTooEarly
  <1>1. ASSUME IInv PROVE NotTooEarly
    <2>1. TypeOK /\ OutcomeInv /\ CountedInv
      BY <1>1 DEF IInv
    <2>2. SUFFICES ASSUME TimedOut
                   PROVE  now - started >= limit * Milli /\ limit < Forever
      BY <2>1 DEF NotTooEarly
    <2>3. /\ limit \in Nat /\ timeout \in Int /\ timeout <= 0 /\ Milli \in Nat \ {0}
          /\ now \in Nat /\ started \in Nat /\ now <= MaxNow /\ MaxNow \in Nat
      <3>1. limit \in Nat /\ timeout \in Int /\ timeout <= 0
        BY <2>1, <2>2, Constants DEF TypeOK, OutcomeInv
      <3>2. now \in Nat /\ started \in Nat /\ now <= MaxNow /\ MaxNow \in Nat
        BY <2>1, ClockAssumption DEF TypeOK
      <3> QED
        BY <3>1, <3>2, Constants
    <2>4. (limit - timeout) * Milli <= now - started
      BY <2>1, <2>2 DEF CountedInv
    <2>5. limit * Milli <= (limit - timeout) * Milli /\ limit * Milli >= limit
          /\ limit * Milli \in Nat /\ (limit - timeout) * Milli \in Nat
      <3>1. limit - timeout \in Nat /\ limit - timeout >= limit
        BY <2>3
      <3> QED
        BY ONLY <2>3, <3>1
    <2> QED
      BY <2>3, <2>4, <2>5 DEF Forever
  <1> QED
    BY <1>1, Invariance, PTL

\* In silence, and with waits that last their time, a call ends within as many seconds
\* as its limit has milliseconds: the countdown drops the milliseconds of a round only
\* when no second has ended in it.
THEOREM SilenceIsBounded == Spec => []LateButBounded
  <1>1. ASSUME IInv PROVE LateButBounded
    <2>1. TypeOK /\ StampInv /\ SecondsInv
      BY <1>1 DEF IInv
    <2>2. SUFFICES ASSUME pc = "top", ~spun, ~fdEvents
                   PROVE  now - since < limit * Second
      BY DEF LateButBounded
    <2>3. /\ limit \in Nat /\ timeout \in Nat /\ timeout >= 1 /\ now \in Nat /\ since \in Nat
          /\ Second \in Nat \ {0} /\ timeoutTimestamp = now
      <3>1. limit \in Nat /\ timeout \in Nat /\ timeout >= 1
        BY <2>1, <2>2, Constants DEF TypeOK
      <3>2. now \in Nat /\ since \in Nat
        BY <2>1, ClockAssumption DEF TypeOK
      <3> QED
        BY <2>1, <2>2, <3>1, <3>2, Constants DEF StampInv
    <2> DEFINE n == now \div Second
               s == since \div Second
    <2>4. /\ n \in Nat /\ s \in Nat
          /\ now < Second * n + Second /\ since >= Second * s
      BY <2>3, ClockSplit
    <2>5. limit - timeout >= n - s
      BY <2>1, <2>2, <2>3 DEF SecondsInv
    <2> HIDE DEF n, s
    <2>6. n - s + 1 <= limit /\ n - s + 1 \in Int
      BY <2>3, <2>4, <2>5
    <2>7. (n - s + 1) * Second <= limit * Second
      BY <2>3, <2>6
    <2>8. (n - s + 1) * Second = Second * n - Second * s + Second
      BY <2>3, <2>4
    <2>9. limit * Second \in Nat /\ Second * n \in Nat /\ Second * s \in Nat
      BY <2>3, <2>4
    <2> QED
      BY ONLY <2>3, <2>4, <2>7, <2>8, <2>9
  <1> QED
    BY <1>1, Invariance, PTL

\* The exception that is thrown, and the limit that ran out, are those of the phase that
\* the last events showed.
THEOREM PhaseIsNamed == Spec => []LimitOfPhase
  <1>1. ASSUME IInv PROVE LimitOfPhase
    BY <1>1 DEF IInv, TypeOK, OutcomeInv, PhaseInv, LimitOfPhase, TimedOut
  <1> QED
    BY <1>1, Invariance, PTL

\* At most one wait is begun after the flag was set.
THEOREM InterruptionIsSeen == Spec => []OneWaitAfterInterrupt
  <1>1. ASSUME IInv PROVE OneWaitAfterInterrupt
    BY <1>1 DEF IInv, InterruptInv, OneWaitAfterInterrupt
  <1> QED
    BY <1>1, Invariance, PTL
=============================================================================
