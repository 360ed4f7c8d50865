----------------------------- MODULE LockProofs -----------------------------
(***************************************************************************)
(* Theorems about HandleLock, for any set of threads, any bound on the     *)
(* bytes of a call and any announced lengths.                              *)
(***************************************************************************)
EXTENDS HandleLock, TLAPS

Inside(t) == pc[t] = "inside"

\* The try-lock admits one call.
OneInside == \A t, u \in Threads : Inside(t) /\ Inside(u) => t = u

\* A call that runs libcurl has cleared the count of the direction it does not use.
OneDirection ==
    \A t \in Threads : Inside(t) /\ op[t] \in Performing =>
        /\ op[t] # "read" => countToRead = 0
        /\ op[t] # "write" => countToWrite = 0

\* What a write has left and what was taken of it add up, until another call enters.
WriteSum ==
    \A t \in Threads :
        \/ Inside(t) /\ op[t] = "write"
        \/ pc[t] = "returning" /\ ~overtaken[t]
        => took[t] + countToWrite = count[t]

\* Who enters after a RELEASE overtakes the write that has not returned yet.
EntryOvertakes ==
    \A t, u \in Threads : pc[t] = "returning" /\ ~overtaken[t] => ~Inside(u)

IInv ==
    /\ LockAccounted /\ CallbacksUseOwnPointers
    /\ OneInside /\ OneDirection /\ WriteSum /\ EntryOvertakes
-----------------------------------------------------------------------------
\* nativeCreate leaves the lock free and all counts 0.
LEMMA InitInv == Init => IInv
  <1> SUFFICES ASSUME Init PROVE IInv
    OBVIOUS
  <1>1. TypeOK
    <2>1. 0 \in 0..MaxCount /\ 0 \in Nat
      BY LockAssumption
    <2>2. /\ pc \in [Threads -> Pcs] /\ op \in [Threads -> Performing \union Brief \union {"none"}]
          /\ overtaken \in [Threads -> BOOLEAN]
      BY DEF Init, Pcs
    <2>3. count \in [Threads -> 0..MaxCount] /\ took \in [Threads -> 0..MaxCount]
      BY <2>1 DEF Init
    <2> QED
      BY <2>1, <2>2, <2>3 DEF Init, TypeOK
  <1>2. LockAccounted /\ CallbacksUseOwnPointers
    BY <1>1 DEF Init, LockAccounted, CallbacksUseOwnPointers
  <1>3. OneInside /\ OneDirection /\ WriteSum /\ EntryOvertakes
    BY DEF Init, OneInside, OneDirection, WriteSum, EntryOvertakes, Inside
  <1> QED
    BY <1>2, <1>3 DEF IInv

\* What a call o of t with the argument n leaves in struct curl_data before its first
\* callback: its own pointers, and a count in its own direction only.
Prepared(t, o, n) ==
    /\ {env', interrupted', bufferForReceiving', bufferForSending'}
          \subseteq Threads \union {Stale}
    /\ countToRead' \in 0..MaxCount /\ countToWrite' \in 0..MaxCount
    /\ uploadedCount' \in Nat /\ uploadGoal' \in Goals \union {0}
    /\ o \in Performing =>
         /\ env' = t /\ interrupted' = t
         /\ IF o = "read" THEN bufferForReceiving' = t ELSE countToRead' = 0
         /\ IF o = "write" THEN bufferForSending' = t /\ countToWrite' = n
            ELSE countToWrite' = 0

\* ACQUIRE succeeds: nobody else is inside, and the call has prepared the handle.
LEMMA AcquireStep ==
    ASSUME IInv, NEW t \in Threads, NEW o \in Performing \union Brief, NEW n \in 0..MaxCount,
           Acquire(t, o, n), Prepared(t, o, n)
    PROVE  IInv'
  <1> USE DEF IInv, LockAccounted, Acquire
  <1>0. /\ \A u \in Threads : pc'[u] = (IF u = t THEN "inside" ELSE pc[u])
        /\ \A u \in Threads : op'[u] = (IF u = t THEN o ELSE op[u])
        /\ \A u \in Threads : count'[u] = (IF u = t THEN n ELSE count[u])
        /\ \A u \in Threads : took'[u] = (IF u = t THEN 0 ELSE took[u])
        /\ \A u \in Threads : pc[u] # "inside"
    BY DEF TypeOK
  <1>1. TypeOK'
    <2>1. 0 \in 0..MaxCount
      BY LockAssumption
    <2>2. /\ pc' \in [Threads -> Pcs] /\ op' \in [Threads -> Performing \union Brief \union {"none"}]
          /\ busy' \in BOOLEAN /\ leaked' \in BOOLEAN
      BY DEF TypeOK, Pcs
    <2>3. count' \in [Threads -> 0..MaxCount] /\ took' \in [Threads -> 0..MaxCount]
      BY <2>1 DEF TypeOK
    <2>4. overtaken' \in [Threads -> BOOLEAN]
      BY Zenon DEF TypeOK
    <2>5. /\ {env', bufferForReceiving', bufferForSending', interrupted'}
                \subseteq Threads \union {Stale}
          /\ countToRead' \in 0..MaxCount /\ countToWrite' \in 0..MaxCount
          /\ uploadedCount' \in Nat /\ uploadGoal' \in Goals \union {0}
      BY DEF Prepared
    <2> QED
      BY ONLY <2>2, <2>3, <2>4, <2>5 DEF TypeOK
  <1>2. LockAccounted'
    BY <1>0, <1>1
  <1>3. CallbacksUseOwnPointers'
    BY <1>0 DEF CallbacksUseOwnPointers, Prepared
  <1>4. OneInside' /\ OneDirection'
    BY <1>0 DEF OneInside, OneDirection, Inside, Prepared
  <1>5. \A u \in Threads : pc'[u] = "returning" => overtaken'[u]
    <2>1. \A u \in Threads : pc'[u] = "returning" => u # t /\ pc[u] = "returning"
      BY <1>0
    <2> QED
      BY <2>1, Zenon
  <1>6. WriteSum'
    <2>1. o = "write" => 0 + countToWrite' = n
      BY LockAssumption DEF Prepared, Performing
    <2> QED
      BY <1>0, <1>5, <2>1 DEF WriteSum, Inside
  <1>7. EntryOvertakes'
    BY <1>5 DEF EntryOvertakes
  <1> QED
    BY <1>2, <1>3, <1>4, <1>6, <1>7

\* Every native call prepares the handle as the callbacks need it.
LEMMA CallPrepares ==
    ASSUME IInv, NEW t \in Threads, Call(t), ~Refuse(t), ~GetLastFd(t), ~WriteAfterGoal(t)
    PROVE  \E o \in Performing \union Brief, n \in 0..MaxCount :
               Acquire(t, o, n) /\ Prepared(t, o, n)
  <1> USE LockAssumption DEF IInv, LockAccounted, TypeOK, Prepared, Performing, Brief
  <1>1. CASE \E goal \in Goals : Configure(t, goal)
    <2>1. Acquire(t, "configure", 0) /\ Prepared(t, "configure", 0)
      BY <1>1 DEF Configure
    <2> QED
      BY <2>1
  <1>2. CASE \E n \in 0..MaxCount : Read(t, n)
    <2>1. PICK n \in 0..MaxCount : Read(t, n)
      BY <1>2
    <2>2. Acquire(t, "read", n) /\ Prepared(t, "read", n)
      BY <2>1 DEF Read
    <2> QED
      BY <2>2
  <1>3. CASE \E n \in 0..MaxCount : Write(t, n)
    <2>1. PICK n \in 0..MaxCount : Write(t, n)
      BY <1>3
    <2>2. Acquire(t, "write", n) /\ Prepared(t, "write", n)
      BY <2>1 DEF Write
    <2> QED
      BY <2>2
  <1>4. CASE CloseOutput(t)
    <2>1. Acquire(t, "closeOutput", 0) /\ Prepared(t, "closeOutput", 0)
      BY <1>4 DEF CloseOutput
    <2> QED
      BY <2>1
  <1>5. CASE Reset(t)
    <2>1. Acquire(t, "reset", 0) /\ Prepared(t, "reset", 0)
      BY <1>5 DEF Reset, pointers
    <2> QED
      BY <2>1
  <1>6. CASE \/ SetHeader(t) \/ AddHeader(t) \/ ClearHeaders(t) \/ OutHeader(t)
             \/ Header(t) \/ IntHeader(t) \/ GetHeaders(t) \/ SetOptionInt(t)
    <2>1. PICK o \in {"setHeader", "addHeader", "clearHeaders", "outHeader", "header",
                     "intHeader", "getHeaders", "setOptionInt"} :
              Acquire(t, o, 0) /\ UNCHANGED <<pointers, counters>>
      BY <1>6 DEF SetHeader, AddHeader, ClearHeaders, OutHeader, Header, IntHeader,
                  GetHeaders, SetOptionInt
    <2>2. Prepared(t, o, 0)
      BY <2>1 DEF pointers, counters
    <2> QED
      BY <2>1, <2>2
  <1> QED
    BY <1>1, <1>2, <1>3, <1>4, <1>5, <1>6 DEF Call

\* A write past the announced length keeps the lock with nobody inside.
LEMMA WriteAfterGoalStep == ASSUME IInv, NEW t \in Threads, WriteAfterGoal(t) PROVE IInv'
  <1> USE DEF IInv, LockAccounted, WriteAfterGoal, pointers, counters, locals
  <1>1. TypeOK'
    BY DEF TypeOK
  <1>2. LockAccounted'
    BY <1>1
  <1>3. CallbacksUseOwnPointers'
    BY DEF CallbacksUseOwnPointers
  <1>4. OneInside' /\ OneDirection' /\ WriteSum' /\ EntryOvertakes'
    BY DEF OneInside, OneDirection, WriteSum, EntryOvertakes, Inside
  <1> QED
    BY <1>2, <1>3, <1>4

\* The two callbacks only lower a count, and count what they take.
LEMMA ReceiveStep ==
    ASSUME IInv, NEW t \in Threads, NEW n \in 1..MaxCount, ReceiveCallback(t, n)
    PROVE  IInv'
  <1> USE DEF IInv, LockAccounted, ReceiveCallback, pointers, locals
  <1>0. countToRead' \in 0..MaxCount /\ (countToRead' > 0 => countToRead > 0)
        /\ countToRead # 0
    BY LockAssumption DEF TypeOK
  <1>1. TypeOK'
    BY <1>0 DEF TypeOK
  <1>2. LockAccounted'
    BY <1>1
  <1>3. CallbacksUseOwnPointers'
    BY <1>0 DEF CallbacksUseOwnPointers
  <1>4. OneDirection'
    BY <1>0 DEF OneInside, OneDirection, Inside
  <1>5. OneInside' /\ WriteSum' /\ EntryOvertakes'
    BY DEF OneInside, WriteSum, EntryOvertakes, Inside
  <1> QED
    BY <1>2, <1>3, <1>4, <1>5

\* The send callback stays within the bytes of the write it serves (read_callback).
LEMMA SendStep ==
    ASSUME IInv, NEW t \in Threads, NEW n \in 1..MaxCount, SendCallback(t, n)
    PROVE  IInv'
  <1> USE DEF IInv, LockAccounted, SendCallback, pointers
  <1>0. /\ countToWrite \in Nat /\ n \in Nat /\ n > 0 /\ n <= countToWrite
        /\ countToWrite' = countToWrite - n /\ countToWrite <= MaxCount
    BY LockAssumption DEF TypeOK
  <1>a. op[t] = "write" /\ Inside(t)
    BY <1>0 DEF OneDirection, Inside
  <1>b. /\ took[t] + countToWrite = count[t]
        /\ \A u \in Threads : pc[u] = "returning" => overtaken[u]
    BY <1>a DEF WriteSum, EntryOvertakes, TypeOK
  <1>c. /\ \A u \in Threads : took'[u] = (IF u = t THEN took[t] + n ELSE took[u])
        /\ took[t] \in 0..MaxCount /\ count[t] \in 0..MaxCount
    BY DEF TypeOK
  <1>d. took[t] + n \in 0..MaxCount /\ (took[t] + n) + countToWrite' = count[t]
    BY <1>0, <1>b, <1>c, LockAssumption
  <1>1. TypeOK'
    <2>1. took' \in [Threads -> 0..MaxCount]
      BY <1>c, <1>d DEF TypeOK
    <2>2. countToWrite' \in 0..MaxCount /\ uploadedCount' \in Nat
      BY <1>0, LockAssumption DEF TypeOK
    <2> QED
      BY <2>1, <2>2 DEF TypeOK
  <1>2. LockAccounted'
    BY <1>1
  <1>3. CallbacksUseOwnPointers'
    BY <1>0 DEF CallbacksUseOwnPointers
  <1>4. OneInside' /\ OneDirection' /\ EntryOvertakes'
    BY <1>0, <1>a DEF OneInside, OneDirection, EntryOvertakes, Inside
  <1>5. WriteSum'
    BY <1>a, <1>b, <1>c, <1>d DEF WriteSum, OneInside, Inside
  <1> QED
    BY <1>2, <1>3, <1>4, <1>5

\* The native method of t is over: its own pointers dangle, those of others stay.
LEMMA ReturnTyped ==
    ASSUME TypeOK, NEW t \in Threads, Return(t)
    PROVE  /\ {env', bufferForReceiving', bufferForSending', interrupted'}
                 \subseteq Threads \union {Stale}
           /\ pc' \in [Threads -> Pcs]
           /\ op' \in [Threads -> Performing \union Brief \union {"none"}]
           /\ count' \in [Threads -> 0..MaxCount] /\ took' \in [Threads -> 0..MaxCount]
           /\ overtaken' \in [Threads -> BOOLEAN]
           /\ pc'[t] = "out"
           /\ \A u \in Threads \ {t} :
                 /\ pc'[u] = pc[u] /\ op'[u] = op[u] /\ count'[u] = count[u]
                 /\ took'[u] = took[u] /\ overtaken'[u] = overtaken[u]
  <1> USE DEF Return, TypeOK
  <1>1. {env', bufferForReceiving', bufferForSending', interrupted'}
           \subseteq Threads \union {Stale}
    BY DEF Left
  <1>2. /\ pc' \in [Threads -> Pcs]
        /\ op' \in [Threads -> Performing \union Brief \union {"none"}]
    BY DEF Pcs
  <1>3. count' \in [Threads -> 0..MaxCount] /\ took' \in [Threads -> 0..MaxCount]
    BY LockAssumption
  <1>4. overtaken' \in [Threads -> BOOLEAN]
    OBVIOUS
  <1>5. pc'[t] = "out" /\ \A u \in Threads \ {t} : pc'[u] = pc[u] /\ op'[u] = op[u]
    OBVIOUS
  <1>6. \A u \in Threads \ {t} :
           count'[u] = count[u] /\ took'[u] = took[u] /\ overtaken'[u] = overtaken[u]
    OBVIOUS
  <1> QED
    BY ONLY <1>1, <1>2, <1>3, <1>4, <1>5, <1>6

\* A call but write gives the lock back and returns.
LEMMA LeaveStep == ASSUME IInv, NEW t \in Threads, Leave(t) PROVE IInv'
  <1> USE DEF IInv, LockAccounted, Leave, RELEASE, counters
  <1>0. /\ Return(t) /\ TypeOK /\ Inside(t)
        /\ \A u \in Threads : pc[u] = "inside" => u = t
    BY DEF OneInside, Inside
  <1>1. TypeOK'
    <2>1. UNCHANGED <<countToRead, countToWrite, uploadedCount, uploadGoal, leaked>>
          /\ busy' \in BOOLEAN
      OBVIOUS
    <2> QED
      BY <1>0, <2>1, ReturnTyped DEF TypeOK
  <1>2. \A u \in Threads : pc'[u] # "inside"
    BY <1>0, ReturnTyped
  <1>3. LockAccounted'
    BY <1>0, <1>1, <1>2 DEF Inside
  <1>4. CallbacksUseOwnPointers' /\ OneInside' /\ OneDirection' /\ EntryOvertakes'
    BY <1>2 DEF CallbacksUseOwnPointers, OneInside, OneDirection, EntryOvertakes, Inside
  <1>5. WriteSum'
    <2>1. \A u \in Threads : pc'[u] = "returning" => u # t
      BY <1>0, ReturnTyped
    <2> QED
      BY <1>0, <1>2, <2>1, ReturnTyped DEF WriteSum, Inside
  <1> QED
    BY <1>3, <1>4, <1>5

\* RELEASE of a write, before its last line.
LEMMA WriteLeavesStep == ASSUME IInv, NEW t \in Threads, WriteLeaves(t) PROVE IInv'
  <1> USE DEF IInv, LockAccounted, WriteLeaves, RELEASE, pointers, counters
  <1>0. /\ Inside(t) /\ op[t] = "write"
        /\ \A u \in Threads : pc[u] = "inside" => u = t
        /\ \A u \in Threads : pc'[u] = (IF u = t THEN "returning" ELSE pc[u])
    BY DEF OneInside, Inside, TypeOK
  <1>1. TypeOK'
    BY DEF TypeOK, Pcs
  <1>2. \A u \in Threads : pc'[u] # "inside"
    BY <1>0
  <1>3. LockAccounted'
    BY <1>0, <1>1, <1>2 DEF Inside
  <1>4. CallbacksUseOwnPointers' /\ OneInside' /\ OneDirection' /\ EntryOvertakes'
    BY <1>2 DEF CallbacksUseOwnPointers, OneInside, OneDirection, EntryOvertakes, Inside
  <1>5. WriteSum'
    BY <1>0, <1>2 DEF WriteSum, Inside
  <1> QED
    BY <1>3, <1>4, <1>5

\* The last line of write(), perhaps with another call inside.
LEMMA WriteReturnsStep == ASSUME IInv, NEW t \in Threads, WriteReturns(t) PROVE IInv'
  <1> USE DEF IInv, LockAccounted, WriteReturns, counters
  <1>0. Return(t) /\ TypeOK /\ pc[t] = "returning"
    OBVIOUS
  <1>1. TypeOK'
    <2>1. UNCHANGED <<countToRead, countToWrite, uploadedCount, uploadGoal, leaked, busy>>
      OBVIOUS
    <2> QED
      BY <1>0, <2>1, ReturnTyped DEF TypeOK
  <1>2. \A u \in Threads : /\ pc'[u] = "inside" <=> pc[u] = "inside"
                           /\ pc'[u] \in {"inside", "returning"} => u # t
    BY <1>0, ReturnTyped
  <1>3. LockAccounted'
    BY <1>1, <1>2
  <1>4. CallbacksUseOwnPointers'
    <2> SUFFICES ASSUME NEW u \in Threads, pc'[u] = "inside", op'[u] \in Performing
                 PROVE  /\ env' = u /\ interrupted' = u
                        /\ countToRead' > 0 => bufferForReceiving' = u
                        /\ countToWrite' > 0 => bufferForSending' = u
      BY DEF CallbacksUseOwnPointers
    <2>1. u # t /\ pc[u] = "inside" /\ op[u] \in Performing
      BY <1>0, <1>2, ReturnTyped
    <2> QED
      BY <2>1 DEF CallbacksUseOwnPointers, Return, Left
  <1>5. OneInside' /\ OneDirection' /\ EntryOvertakes' /\ WriteSum'
    BY <1>0, <1>2, ReturnTyped
       DEF OneInside, OneDirection, EntryOvertakes, WriteSum, Inside
  <1> QED
    BY <1>3, <1>4, <1>5

\* getLastFd enters and leaves without the lock.
LEMMA GetLastFdStep ==
    ASSUME IInv, NEW t \in Threads, GetLastFd(t) \/ GetLastFdReturns(t)
    PROVE  IInv'
  <1> USE DEF IInv, LockAccounted, GetLastFd, GetLastFdReturns, pointers, counters
  <1>0. \A u \in Threads : /\ pc'[u] = "inside" <=> pc[u] = "inside"
                           /\ pc'[u] = "returning" <=> pc[u] = "returning"
    BY DEF TypeOK
  <1>1. TypeOK'
    BY DEF TypeOK, Pcs
  <1>2. LockAccounted'
    BY <1>0, <1>1
  <1>3. CallbacksUseOwnPointers'
    BY <1>0 DEF CallbacksUseOwnPointers
  <1>4. OneInside' /\ OneDirection' /\ EntryOvertakes' /\ WriteSum'
    BY <1>0 DEF OneInside, OneDirection, EntryOvertakes, WriteSum, Inside
  <1> QED
    BY <1>2, <1>3, <1>4

\* Nothing changes, as when ACQUIRE fails.
LEMMA StutterStep == ASSUME IInv, UNCHANGED vars PROVE IInv'
  <1> USE DEF IInv, LockAccounted, vars, pointers, counters, locals
  <1>1. TypeOK'
    BY DEF TypeOK
  <1>2. LockAccounted' /\ CallbacksUseOwnPointers'
    BY <1>1 DEF CallbacksUseOwnPointers
  <1>3. OneInside' /\ OneDirection' /\ EntryOvertakes' /\ WriteSum'
    BY DEF OneInside, OneDirection, EntryOvertakes, WriteSum, Inside
  <1> QED
    BY <1>2, <1>3

-----------------------------------------------------------------------------
\* Every step of every thread keeps the invariant.
LEMMA NextInv == IInv /\ [Next]_vars => IInv'
  <1> SUFFICES ASSUME IInv, [Next]_vars PROVE IInv'
    OBVIOUS
  <1>1. CASE UNCHANGED vars
    BY <1>1, StutterStep
  <1>2. ASSUME NEW t \in Threads, Call(t) PROVE IInv'
    <2>1. CASE Refuse(t)
      BY <2>1, StutterStep DEF Refuse
    <2>2. CASE GetLastFd(t)
      BY <2>2, GetLastFdStep
    <2>3. CASE WriteAfterGoal(t)
      BY <2>3, WriteAfterGoalStep
    <2>4. CASE ~Refuse(t) /\ ~GetLastFd(t) /\ ~WriteAfterGoal(t)
      BY <1>2, <2>4, CallPrepares, AcquireStep
    <2> QED
      BY <2>1, <2>2, <2>3, <2>4
  <1>3. ASSUME NEW t \in Threads, NEW n \in 1..MaxCount,
               ReceiveCallback(t, n) \/ SendCallback(t, n)
        PROVE  IInv'
    BY <1>3, ReceiveStep, SendStep
  <1>4. ASSUME NEW t \in Threads,
               Leave(t) \/ WriteLeaves(t) \/ WriteReturns(t) \/ GetLastFdReturns(t)
        PROVE  IInv'
    BY <1>4, LeaveStep, WriteLeavesStep, WriteReturnsStep, GetLastFdStep
  <1> QED
    BY <1>1, <1>2, <1>3, <1>4 DEF Next

\* The inductive invariant holds throughout.
LEMMA Invariance == Spec => []IInv
  BY InitInv, NextInv, PTL DEF Spec

\* ACQUIRE and RELEASE: two threads are never in one curl handle at once, for any
\* number of threads, unless one of them is in getLastFd.
THEOREM MutualExclusion == Spec => []Exclusive
  <1>1. IInv => Exclusive
    BY DEF IInv, OneInside, Inside, Exclusive, InCurl
  <1> QED
    BY <1>1, Invariance, PTL

\* write_callback and read_callback use only the env, the buffers and the
\* interruption flag of the call they are made in, whatever calls came before.
THEOREM OwnPointers == Spec => []CallbacksUseOwnPointers
  <1>1. IInv => CallbacksUseOwnPointers
    BY DEF IInv
  <1> QED
    BY <1>1, Invariance, PTL

\* Whoever is refused is refused because of a call inside, or of a write past the
\* announced length that has kept the lock.
THEOREM LockHeldForAReason == Spec => []LockAccounted
  <1>1. IInv => LockAccounted
    BY DEF IInv
  <1> QED
    BY <1>1, Invariance, PTL

\* The result that write() computes after RELEASE is the number of its bytes that
\* were taken, unless another call has entered in between.
THEOREM HonestWriteCount == Spec => []WriteCountHonest
  <1>1. IInv => WriteCountHonest
    <2> SUFFICES ASSUME IInv, NEW t \in Threads, pc[t] = "returning", ~overtaken[t]
                 PROVE  count[t] - countToWrite = took[t]
      BY DEF WriteCountHonest, WriteResult
    <2>1. took[t] + countToWrite = count[t]
      BY DEF IInv, WriteSum
    <2>2. took[t] \in 0..MaxCount /\ count[t] \in 0..MaxCount /\ countToWrite \in 0..MaxCount
      BY DEF IInv, LockAccounted, TypeOK
    <2> QED
      BY <2>1, <2>2, LockAssumption
  <1> QED
    BY <1>1, Invariance, PTL
=============================================================================
