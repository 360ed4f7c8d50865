----------------------------- MODULE HandleLock -----------------------------
(***************************************************************************)
(* Several threads on one handle.  Every native call but dispose and       *)
(* getLastFd takes the try-lock `busy' first and is turned away when it is *)
(* taken.  Inside, the call leaves pointers to things of its own in struct *)
(* curl_data for the callbacks: its JNIEnv, its buffer, its interruption   *)
(* flag.  They dangle once the call has returned, and no call clears them. *)
(* What libcurl does is reduced to the two callbacks that use them.        *)
(***************************************************************************)
EXTENDS Integers

CONSTANTS
    Threads,
    Stale,         \* a pointer left by a call that has returned
    MaxCount,      \* bound on the bytes of one read or write
    Goals          \* the values of uploadGoal; 0: none announced

ASSUME LockAssumption == Stale \notin Threads /\ MaxCount \in Nat /\ Goals \subseteq Nat

VARIABLES
    busy,
    env, bufferForReceiving, bufferForSending, interrupted,   \* whose they are
    countToRead, countToWrite,
    uploadedCount, uploadGoal,
    pc,            \* where each thread is
    op, count,     \* its call, "none" outside, and the argument of a read or write
    took,          \* history: the bytes of its write that were taken
    overtaken,     \* history: another call entered between RELEASE and return
    leaked         \* history: a write has returned with the lock

locals == <<pc, op, count, took, overtaken>>
pointers == <<env, bufferForReceiving, bufferForSending, interrupted>>
counters == <<countToRead, countToWrite, uploadedCount, uploadGoal>>
vars == <<busy, pointers, counters, locals, leaked>>

\* the calls that run curlPerform, or the first curl_multi_perform
Performing == {"configure", "read", "write", "closeOutput"}

Brief == {"reset", "setHeader", "addHeader", "clearHeaders", "outHeader", "header",
          "intHeader", "getHeaders", "setOptionInt"}

Pcs == {"out", "inside", "returning", "getLastFd"}

Init ==
    /\ busy = FALSE
    /\ env = Stale /\ interrupted = Stale
    /\ bufferForReceiving = Stale /\ bufferForSending = Stale
    /\ countToRead = 0 /\ countToWrite = 0
    /\ uploadedCount = 0 /\ uploadGoal = 0
    /\ pc = [t \in Threads |-> "out"]
    /\ op = [t \in Threads |-> "none"]
    /\ count = [t \in Threads |-> 0]
    /\ took = [t \in Threads |-> 0]
    /\ overtaken = [t \in Threads |-> FALSE]
    /\ leaked = FALSE

-----------------------------------------------------------------------------
\* ACQUIRE succeeds for a call o with the argument n
Acquire(t, o, n) ==
    /\ pc[t] = "out"
    /\ ~busy
    /\ busy' = TRUE
    /\ pc' = [pc EXCEPT ![t] = "inside"]
    /\ op' = [op EXCEPT ![t] = o]
    /\ count' = [count EXCEPT ![t] = n]
    /\ took' = [took EXCEPT ![t] = 0]
    /\ overtaken' = [u \in Threads |-> IF u = t THEN FALSE
                                       ELSE overtaken[u] \/ pc[u] = "returning"]
    /\ UNCHANGED leaked

\* mutant: the failed call goes through the exit of the others
RefuseReleases(t) ==
    /\ pc[t] = "out"
    /\ busy
    /\ busy' = FALSE
    /\ UNCHANGED <<pointers, counters, locals, leaked>>

\* ACQUIRE fails: throwThreadingException with the caller's own env
Refuse(t) ==
    /\ pc[t] = "out"
    /\ busy
    /\ UNCHANGED vars

Configure(t, goal) ==
    /\ Acquire(t, "configure", 0)
    /\ env' = t /\ interrupted' = t
    /\ countToRead' = 0 /\ countToWrite' = 0
    /\ uploadGoal' = goal
    /\ UNCHANGED <<bufferForReceiving, bufferForSending, uploadedCount>>

Read(t, n) ==
    /\ Acquire(t, "read", n)
    /\ env' = t /\ interrupted' = t /\ bufferForReceiving' = t
    /\ countToRead' = n /\ countToWrite' = 0
    /\ UNCHANGED <<bufferForSending, uploadedCount, uploadGoal>>

AllSent == uploadGoal > 0 /\ uploadedCount >= uploadGoal

\* mutant: what an earlier read left to read stays
WriteKeepsRead(t, n) ==
    /\ ~AllSent
    /\ Acquire(t, "write", n)
    /\ env' = t /\ interrupted' = t /\ bufferForSending' = t
    /\ countToWrite' = n
    /\ UNCHANGED <<bufferForReceiving, countToRead, uploadedCount, uploadGoal>>

Write(t, n) ==
    /\ ~AllSent
    /\ Acquire(t, "write", n)
    /\ env' = t /\ interrupted' = t /\ bufferForSending' = t
    /\ countToWrite' = n /\ countToRead' = 0
    /\ UNCHANGED <<bufferForReceiving, uploadedCount, uploadGoal>>

\* write() with the announced length sent throws and returns inside the lock
WriteAfterGoal(t) ==
    /\ AllSent
    /\ pc[t] = "out"
    /\ ~busy
    /\ busy' = TRUE
    /\ leaked' = TRUE
    /\ UNCHANGED <<pointers, counters, locals>>

CloseOutput(t) ==
    /\ Acquire(t, "closeOutput", 0)
    /\ env' = t /\ interrupted' = t
    /\ countToRead' = 0 /\ countToWrite' = 0
    /\ UNCHANGED <<bufferForReceiving, bufferForSending, uploadedCount, uploadGoal>>

Reset(t) ==
    /\ Acquire(t, "reset", 0)
    /\ uploadedCount' = 0
    /\ UNCHANGED <<pointers, countToRead, countToWrite, uploadGoal>>

\* the calls that touch none of the shared fields
SetHeader(t) == Acquire(t, "setHeader", 0) /\ UNCHANGED <<pointers, counters>>

AddHeader(t) == Acquire(t, "addHeader", 0) /\ UNCHANGED <<pointers, counters>>

ClearHeaders(t) == Acquire(t, "clearHeaders", 0) /\ UNCHANGED <<pointers, counters>>

OutHeader(t) == Acquire(t, "outHeader", 0) /\ UNCHANGED <<pointers, counters>>

Header(t) == Acquire(t, "header", 0) /\ UNCHANGED <<pointers, counters>>

IntHeader(t) == Acquire(t, "intHeader", 0) /\ UNCHANGED <<pointers, counters>>

GetHeaders(t) == Acquire(t, "getHeaders", 0) /\ UNCHANGED <<pointers, counters>>

SetOptionInt(t) == Acquire(t, "setOptionInt", 0) /\ UNCHANGED <<pointers, counters>>

-----------------------------------------------------------------------------
\* write_callback with room for data: it writes n bytes to bufferForReceiving
ReceiveCallback(t, n) ==
    /\ pc[t] = "inside" /\ op[t] \in Performing
    /\ n <= countToRead
    /\ countToRead' = countToRead - n
    /\ UNCHANGED <<busy, pointers, countToWrite, uploadedCount, uploadGoal, locals, leaked>>

\* read_callback with data to send: it takes n bytes from bufferForSending.
\* libcurl does not ask for more than was announced.
SendCallback(t, n) ==
    /\ pc[t] = "inside" /\ op[t] \in Performing
    /\ n <= countToWrite
    /\ ~AllSent
    /\ countToWrite' = countToWrite - n
    /\ uploadedCount' = IF uploadGoal > 0 THEN uploadedCount + n ELSE uploadedCount
    /\ took' = [took EXCEPT ![t] = @ + n]
    /\ UNCHANGED <<busy, pointers, countToRead, uploadGoal, pc, op, count, overtaken, leaked>>

\* the pointers of t dangle when its native method is over
Left(t, p) == IF p = t THEN Stale ELSE p

Return(t) ==
    /\ pc' = [pc EXCEPT ![t] = "out"]
    /\ op' = [op EXCEPT ![t] = "none"]
    /\ count' = [count EXCEPT ![t] = 0]
    /\ took' = [took EXCEPT ![t] = 0]
    /\ overtaken' = [overtaken EXCEPT ![t] = FALSE]
    /\ env' = Left(t, env) /\ interrupted' = Left(t, interrupted)
    /\ bufferForReceiving' = Left(t, bufferForReceiving)
    /\ bufferForSending' = Left(t, bufferForSending)

\* mutant: a read that got nothing keeps the lock
ReleaseUnlessIdle(t) == busy' = (op[t] = "read" /\ countToRead = count[t] /\ count[t] > 0)

RELEASE(t) == busy' = FALSE

\* every call but write has its result when it gives the lock back
Leave(t) ==
    /\ pc[t] = "inside" /\ op[t] # "write"
    /\ RELEASE(t)
    /\ Return(t)
    /\ UNCHANGED <<counters, leaked>>

WriteLeaves(t) ==
    /\ pc[t] = "inside" /\ op[t] = "write"
    /\ RELEASE(t)
    /\ pc' = [pc EXCEPT ![t] = "returning"]
    /\ UNCHANGED <<pointers, counters, op, count, took, overtaken, leaked>>

\* mutant: what is left to write is returned
WriteResultLeft(t) == countToWrite

\* the last line of write(), after RELEASE
WriteResult(t) == count[t] - countToWrite

WriteReturns(t) ==
    /\ pc[t] = "returning"
    /\ Return(t)
    /\ UNCHANGED <<busy, counters, leaked>>

\* getLastFd goes to libcurl without the lock
GetLastFd(t) ==
    /\ pc[t] = "out"
    /\ pc' = [pc EXCEPT ![t] = "getLastFd"]
    /\ UNCHANGED <<busy, pointers, counters, op, count, took, overtaken, leaked>>

GetLastFdReturns(t) ==
    /\ pc[t] = "getLastFd"
    /\ pc' = [pc EXCEPT ![t] = "out"]
    /\ UNCHANGED <<busy, pointers, counters, op, count, took, overtaken, leaked>>

Call(t) ==
    \/ \E goal \in Goals : Configure(t, goal)
    \/ \E n \in 0..MaxCount : Read(t, n) \/ Write(t, n)
    \/ WriteAfterGoal(t) \/ CloseOutput(t) \/ Reset(t)
    \/ SetHeader(t) \/ AddHeader(t) \/ ClearHeaders(t) \/ OutHeader(t)
    \/ Header(t) \/ IntHeader(t) \/ GetHeaders(t) \/ SetOptionInt(t)
    \/ Refuse(t) \/ GetLastFd(t)

Next == \E t \in Threads :
    \/ Call(t)
    \/ \E n \in 1..MaxCount : ReceiveCallback(t, n) \/ SendCallback(t, n)
    \/ Leave(t) \/ WriteLeaves(t) \/ WriteReturns(t) \/ GetLastFdReturns(t)

Spec == Init /\ [][Next]_vars

-----------------------------------------------------------------------------
(* Properties *)

\* Every variable stays in its type.
TypeOK ==
    /\ busy \in BOOLEAN /\ leaked \in BOOLEAN
    /\ {env, bufferForReceiving, bufferForSending, interrupted} \subseteq Threads \union {Stale}
    /\ countToRead \in 0..MaxCount /\ countToWrite \in 0..MaxCount
    /\ uploadedCount \in Nat /\ uploadGoal \in Goals \union {0}
    /\ pc \in [Threads -> Pcs] /\ op \in [Threads -> Performing \union Brief \union {"none"}]
    /\ count \in [Threads -> 0..MaxCount] /\ took \in [Threads -> 0..MaxCount]
    /\ overtaken \in [Threads -> BOOLEAN]

InCurl(t) == pc[t] \in {"inside", "getLastFd"}

\* Two threads are never in one curl handle at once, however calls are refused and
\* leave, unless one of them is in getLastFd.
Exclusive ==
    \A t, u \in Threads :
        t # u /\ InCurl(t) /\ InCurl(u) => "getLastFd" \in {pc[t], pc[u]}

\* A callback uses only pointers of the call it is made in: the counts of the
\* direction that the call did not ask for are 0, so the buffer that another call
\* has left there is not touched.
CallbacksUseOwnPointers ==
    \A t \in Threads : pc[t] = "inside" /\ op[t] \in Performing =>
        /\ env = t /\ interrupted = t
        /\ countToRead > 0 => bufferForReceiving = t
        /\ countToWrite > 0 => bufferForSending = t

\* The message of IllegalThreadStateException, "while it is still being used in
\* another thread", is true of every refusal, but for a write past the announced
\* length: that one keeps the lock, with nobody inside, for good.
LockAccounted ==
    /\ TypeOK
    /\ busy <=> leaked \/ \E t \in Threads : pc[t] = "inside"
    /\ leaked => \A t \in Threads : pc[t] # "inside"

\* The result of a write is the number of its bytes that were taken, although it is
\* computed after RELEASE, unless another call came in between.
WriteCountHonest ==
    \A t \in Threads :
        pc[t] = "returning" /\ ~overtaken[t] => WriteResult(t) = took[t]
=============================================================================
