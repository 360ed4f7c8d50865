--------------------------- MODULE TransferProofs ---------------------------
(***************************************************************************)
(* Proofs, for every body, bound and choice of directions, that the engine *)
(* of Transfer delivers the body in order, sends in order, tells the end   *)
(* of the stream and the length of a read truly, keeps its flags in step   *)
(* with curl, and never waits on a paused transfer outside write().        *)
(***************************************************************************)
EXTENDS Transfer, SequenceTheorems, TLAPS

(* The inductive invariant, in parts. *)

\* The frame of the call in progress; no result is pending during a call.
FrameInv ==
    /\ call = "none" <=> pc = "idle"
    /\ base <= Len(delivered)
    /\ call = "none" => base = 0
    /\ call # "none" => last = NoResult

\* curl holds no more than the server sent; a message means the transfer is over.
CurlInv ==
    /\ consumed + held <= Len(Body)
    /\ msg # "none" => ~running

\* A detached handle has no transfer behind it, and an attached one keeps the
\* callback that goes with DO_INPUT.
ModeInv ==
    /\ "ATTACHED" \notin state =>
          /\ ~running /\ msg = "none" /\ consumed = 0 /\ held = 0
          /\ readOverflow = 0 /\ delivered = <<>>
    /\ "ATTACHED" \in state => (writeFn = "write" <=> "DO_INPUT" \in state)
    /\ writeFn # "write" => readOverflow = 0

\* What the read in progress has delivered so far.
ReadInv ==
    call = "read" =>
        /\ Len(delivered) - base = count - countToRead
        /\ countToRead <= count
        /\ buf => readOffset = off + (count - countToRead)
        /\ ~buf => count = 1

\* The bytes of the write in progress that are still to be sent follow all that
\* were sent before.
SendInv ==
    /\ \A i \in 1..Len(sent) : sent[i] <= offered - countToWrite
    /\ countToWrite > 0 => writeOffset + countToWrite = offered
    /\ ~buf => countToWrite <= 1
    /\ call = "none" => countToWrite = 0

\* What a wait is for.
WaitInv ==
    /\ pc = "wait" => ~Bail
    /\ call = "closeOutput" => "DONE_SENDING" \in state

IInv ==
    /\ TypeOK /\ FrameInv /\ CurlInv /\ ModeInv /\ ReadInv /\ SendInv /\ WaitInv
    /\ DeliveredInOrder /\ OverflowWithinHeld /\ SentInOrder
    /\ EofOnlyAtTheEnd /\ ReadCountHonest
    /\ NeedFlagsMatchCall /\ PausesAreFlagged

-----------------------------------------------------------------------------
(* The shapes of the engine's steps: going on, and leaving the call. *)

GoesTo(p) == pc # "idle" /\ p # "idle" /\ Goto(p) /\ (p = "wait" => ~Bail)

\* An end of stream is reported only by a transfer that is over and a read that
\* delivered nothing; a write comes back with bytes left only if it was interrupted, the
\* transfer is over, or curl can take no more for now.
LeavesWith(v, e) ==
    /\ pc # "idle"
    /\ Leave(v, e)
    /\ call = "read" /\ e = "none" =>
          \/ v = -1 /\ ~running /\ countToRead = count
          \/ v = ReadCount
    /\ call = "write" /\ e = "none" =>
          /\ v = count - countToWrite
          /\ countToWrite = 0 \/ interrupted \/ ~running \/ Bail
    /\ UNCHANGED <<restOfCtrl, interrupted, sendPaused, uploading, upload, recvVars,
                   respVars, histVars>>
    /\ msg' \in {msg, "none"} /\ running' \in BOOLEAN /\ (running' => running)

\* The value curlPerform's callers compute is an integer.
LEMMA ReturnValueType ==
    ASSUME TypeOK, NEW p \in BOOLEAN PROVE ReturnValue(p) \in Int
<1>1. /\ count \in Int /\ countToRead \in Int /\ countToWrite \in Int
      /\ readOffset \in Int
  BY BoundAssumption DEF TypeOK, CtrlType, CallType
<1>2. ReadCount \in Int /\ count - countToWrite \in Int
  BY <1>1 DEF ReadCount
<1> QED
  BY <1>2 DEF ReturnValue

\* A step that ends curlPerform leaves the call with that value.
LEMMA PerformShape ==
    ASSUME TypeOK, CurlInv, pc # "idle", NEW p \in BOOLEAN, NEW e \in Exceptions,
           LeavePerform(p, e), p /\ e = "none" => ~running,
           call = "write" /\ e = "none" => countToWrite = 0 \/ interrupted \/ ~running \/ Bail,
           UNCHANGED engineRest, msg' \in {msg, "none"}
    PROVE  \E v \in Int : LeavesWith(v, e)
<1>1. ReturnValue(p) \in Int
  BY ReturnValueType
<1>2. /\ call = "read" /\ e = "none" =>
            \/ ReturnValue(p) = -1 /\ ~running /\ countToRead = count
            \/ ReturnValue(p) = ReadCount
      /\ call = "write" => ReturnValue(p) = count - countToWrite
  BY DEF ReturnValue, AtEnd
<1>3. UNCHANGED <<restOfCtrl, interrupted, sendPaused, uploading, upload, recvVars,
                  respVars, histVars>> /\ running' \in BOOLEAN /\ (running' => running)
  BY DEF engineRest, TypeOK, CtrlType, CallType, CurlType, HistType
<1>4. LeavesWith(ReturnValue(p), e)
  BY <1>2, <1>3 DEF LeavePerform, LeavesWith
<1> QED
  BY <1>1, <1>4

\* Every step of the engine and every fault reported to it has one of the shapes.
LEMMA EngineShape ==
    ASSUME TypeOK, CurlInv,
           Engine \/ UnpauseFails \/ MultiError \/ TimesOut \/ WaitFails
    PROVE  \/ \E p \in Pcs : GoesTo(p)
           \/ \E v \in Int, e \in Exceptions : LeavesWith(v, e)
<1> USE DEF Exceptions, Pcs
<1>1. ASSUME NEW q \in BOOLEAN, NEW x \in Exceptions, pc # "idle", LeavePerform(q, x),
             q /\ x = "none" => ~running, UNCHANGED <<msg, engineRest>>,
             call = "write" /\ x = "none" =>
                 countToWrite = 0 \/ interrupted \/ ~running \/ Bail
      PROVE \E v \in Int, e \in Exceptions : LeavesWith(v, e)
  BY <1>1, PerformShape
<1>2. ASSUME ResultReady, pc # "idle"
      PROVE \E v \in Int, e \in Exceptions : LeavesWith(v, e)
  <2>1. MsgException \in Exceptions
    BY DEF MsgException
  <2>2. ~running
    BY <1>2 DEF ResultReady, CurlInv
  <2> QED
    BY <1>2, <2>1, <2>2, PerformShape DEF ResultReady
<1>3. CASE UnpauseReturns
  BY <1>3 DEF UnpauseReturns, GoesTo
<1>4. CASE Entered
  <2>1. CASE Goto("loop")
    BY <1>4, <2>1 DEF Entered, GoesTo
  <2>2. CASE ~Goto("loop")
    <3>1. LeavePerform(FALSE, "none") /\ UNCHANGED <<msg, engineRest>> /\ pc # "idle"
      BY <1>4, <2>2 DEF Entered
    <3>2. call = "write" => interrupted \/ ~(countToWrite > 0)
      BY <1>4, <2>2 DEF Entered
    <3>3. call = "write" => interrupted \/ countToWrite = 0
      BY <3>2, BoundAssumption DEF TypeOK, CtrlType
    <3> QED
      BY <1>1, <3>1, <3>3
  <2> QED
    BY <2>1, <2>2
<1>5. CASE LoopTop
  BY <1>1, <1>5 DEF LoopTop, GoesTo
<1>6. CASE ConnectReturns
  BY <1>2, <1>6 DEF ConnectReturns, GoesTo
<1>7. CASE PerformReturns
  BY <1>7 DEF PerformReturns, GoesTo
<1>8. CASE Check
  <2>1. CASE ResultReady
    BY <1>2, <1>8, <2>1 DEF Check
  <2>2. CASE /\ Bail \/ (~Bail /\ running /\ interrupted)
             /\ LeavePerform(FALSE, "none") /\ UNCHANGED <<msg, engineRest>>
    BY <1>1, <1>8, <2>2 DEF Check
  <2>3. CASE ~running /\ LeavePerform(TRUE, "none") /\ UNCHANGED <<msg, engineRest>>
    BY <1>1, <1>8, <2>3 DEF Check
  <2>4. CASE ~Bail /\ Goto("wait")
    BY <1>8, <2>4 DEF Check, GoesTo
  <2> QED
    BY <1>8, <2>1, <2>2, <2>3, <2>4 DEF Check
<1>9. CASE WaitReturns
  BY <1>9 DEF WaitReturns, GoesTo
<1>10. CASE UnpauseFails
  <2>1. PICK v \in Int : Leave(v, "io")
    BY <1>10, BoundAssumption DEF UnpauseFails, TypeOK, CtrlType, CallType, CurlType, HistType
  <2> QED
    BY <1>10, <2>1 DEF UnpauseFails, LeavesWith
<1>11. CASE MultiError
  BY <1>1, <1>11 DEF MultiError, InPerform
<1>12. CASE TimesOut
  BY <1>1, <1>12 DEF TimesOut
<1>13. CASE WaitFails
  BY <1>1, <1>13 DEF WaitFails
<1> QED
  BY <1>3, <1>4, <1>5, <1>6, <1>7, <1>8, <1>9, <1>10, <1>11, <1>12, <1>13 DEF Engine

\* Both ways a chunk reaches the callback: it lies within the body, and is new
\* or part of what curl holds.
LEMMA ReceiveShape ==
    ASSUME TypeOK, CurlInv, NEW k \in 1..MaxChunk, Deliver(k) \/ Redeliver(k)
    PROVE  /\ ReceiveCallback(k) /\ pc # "idle" /\ pc # "wait" /\ running /\ ~recvPaused
           /\ consumed + k <= Len(Body) /\ (held = 0 \/ k <= held)
BY BodyAssumption, BoundAssumption
   DEF Deliver, Redeliver, InPerform, CurlInv, TypeOK, CtrlType, CallType, CurlType, HistType

\* Every step, by shape.
LEMMA NextShape ==
    ASSUME TypeOK, CurlInv, Next
    PROVE  \/ \E i, o, r \in BOOLEAN, g \in Goals : Configure(i, o, g, r)
           \/ \E n \in 0..MaxCount, b \in BOOLEAN, o \in 0..1 : Read(n, b, o)
           \/ \E n \in 0..MaxCount, b \in BOOLEAN : Write(n, b)
           \/ WriteAfterGoal \/ CloseOutput \/ Reset \/ LockedOut
           \/ \E p \in Pcs : GoesTo(p)
           \/ \E v \in Int, e \in Exceptions : LeavesWith(v, e)
           \/ \E k \in 1..MaxChunk : Deliver(k) \/ Redeliver(k)
           \/ \E k \in 1..MaxChunk : Pull(k)
           \/ \E loc, fin, stop \in BOOLEAN : HeaderEnd(loc, fin, stop)
           \/ HoldMore \/ StatusLine \/ Complete \/ Fail
           \/ Interrupt \/ ClearInterrupt
<1>1. CASE Caller
  <2>1. ASSUME NEW m \in Modes PROVE m[1] \in BOOLEAN /\ m[2] \in BOOLEAN
    BY <2>1, BoundAssumption
  <2> QED
    BY <1>1, <2>1 DEF Caller
<1>2. CASE Engine
  BY <1>2, EngineShape
<1>3. CASE Curl
  BY <1>3 DEF Curl
<1>4. CASE Faults
  BY <1>4, EngineShape DEF Faults
<1>5. CASE Signals
  BY <1>5 DEF Signals
<1> QED
  BY <1>1, <1>2, <1>3, <1>4, <1>5 DEF Next
\* nativeConfigure: a new transfer starts from the clean state reset left.
LEMMA ConfigureStep ==
    ASSUME IInv, NEW i \in BOOLEAN, NEW o \in BOOLEAN, NEW r \in BOOLEAN, NEW g \in Goals,
           Configure(i, o, g, r)
    PROVE  IInv'
<1> USE BoundAssumption DEF IInv, TypeOK, CtrlType, CallType, CurlType, HistType,
       Configure, SetOptions, Attach, When, With, CanEnter, recvVars, respVars, histVars
<1>1. CtrlType'
  <2>1. state' \subseteq Flags
    BY DEF Flags
  <2>2. uploadGoal' \in Nat /\ writeFn' \in Callbacks /\ readFn' \in Callbacks
    BY DEF Callbacks
  <2>3. busy' \in BOOLEAN
    OBVIOUS
  <2>4. countToRead' \in 0..MaxCount /\ countToWrite' \in 0..MaxCount
    OBVIOUS
  <2>5. UNCHANGED <<readOffset, readOverflow, writeOffset, uploadedCount>>
    OBVIOUS
  <2> HIDE DEF Configure
  <2> QED
    BY <2>1, <2>2, <2>3, <2>4, <2>5
<1>2. CallType'
  <2>1. last' \in ResultType
    <3>1. NoResult \in ResultType
      BY DEF NoResult, ResultType, Calls, Exceptions
    <3>2. Result("configure", 0, "none", 0) \in ResultType
      BY DEF Result, ResultType, Calls, Exceptions
    <3>3. last' \in {NoResult, Result("configure", 0, "none", 0)}
      OBVIOUS
    <3> QED
      BY <3>1, <3>2, <3>3
  <2>2. call' \in Calls /\ pc' \in Pcs /\ base' \in Nat
    BY DEF Calls, Pcs
  <2> QED
    BY <2>1, <2>2
<1>3. CurlType' /\ HistType'
  BY ZenonT(30)
<1>4. FrameInv'
  BY DEF FrameInv, NoResult
<1>5. CurlInv' /\ ModeInv'
  BY DEF CurlInv, ModeInv
<1>6. ReadInv'
  BY DEF ReadInv, FrameInv
<1>7. SendInv' /\ SentInOrder'
  BY DEF SendInv, SentInOrder
<1>8. WaitInv'
  BY DEF WaitInv, Bail, OutputStalled, FrameInv
<1>9. DeliveredInOrder' /\ OverflowWithinHeld'
  BY DEF DeliveredInOrder, OverflowWithinHeld, ModeInv
<1>10. EofOnlyAtTheEnd'
  BY DEF EofOnlyAtTheEnd, NoResult, Result, FrameInv, ReadInv, DeliveredInOrder
<1>11. ReadCountHonest'
  BY DEF ReadCountHonest, NoResult, Result, FrameInv, ReadInv
<1>12. NeedFlagsMatchCall' /\ PausesAreFlagged'
  BY DEF NeedFlagsMatchCall, PausesAreFlagged
<1> QED
  BY <1>1, <1>2, <1>3, <1>4, <1>5, <1>6, <1>7, <1>8, <1>9, <1>10, <1>11, <1>12

\* read() up to curl_easy_pause.
LEMMA ReadStep ==
    ASSUME IInv, NEW n \in 0..MaxCount, NEW b \in BOOLEAN, NEW o \in 0..1, Read(n, b, o)
    PROVE  IInv'
<1> USE BoundAssumption DEF IInv, TypeOK, CtrlType, CallType, CurlType, HistType, Read,
       EnterCurl, With, CanEnter, respVars, histVars
<1>1. CtrlType'
  BY DEF Flags, Callbacks
<1>2. CallType'
  BY DEF Pcs, NoResult, Result, ResultType, Calls, Exceptions, FrameInv
<1>3. CurlType' /\ HistType'
  OBVIOUS
<1>4. FrameInv'
  BY DEF FrameInv, NoResult
<1>5. CurlInv' /\ ModeInv'
  BY DEF CurlInv, ModeInv
<1>6. ReadInv'
  BY DEF ReadInv, FrameInv
<1>7. SendInv' /\ SentInOrder'
  BY DEF SendInv, SentInOrder
<1>8. WaitInv'
  BY DEF WaitInv, Bail, OutputStalled, FrameInv
<1>9. DeliveredInOrder' /\ OverflowWithinHeld'
  BY DEF DeliveredInOrder, OverflowWithinHeld, ModeInv
<1>10. EofOnlyAtTheEnd'
  BY DEF EofOnlyAtTheEnd, NoResult, Result, FrameInv, ReadInv, DeliveredInOrder
<1>11. ReadCountHonest'
  BY DEF ReadCountHonest, NoResult, Result, FrameInv, ReadInv
<1>12. NeedFlagsMatchCall' /\ PausesAreFlagged'
  BY DEF NeedFlagsMatchCall, PausesAreFlagged
<1> QED
  BY <1>1, <1>2, <1>3, <1>4, <1>5, <1>6, <1>7, <1>8, <1>9, <1>10, <1>11, <1>12

\* write() up to curl_easy_pause: its bytes follow all bytes offered before.
LEMMA WriteStep ==
    ASSUME IInv, NEW n \in 0..MaxCount, NEW b \in BOOLEAN, Write(n, b)
    PROVE  IInv'
<1> USE BoundAssumption DEF IInv, TypeOK, CtrlType, CallType, CurlType, HistType, Write,
       EnterCurl, With, CanEnter, respVars
<1>1. CtrlType'
  BY DEF Flags, Callbacks
<1>2. CallType'
  BY DEF Pcs, NoResult, Result, ResultType, Calls, Exceptions, FrameInv
<1>3. CurlType' /\ HistType'
  OBVIOUS
<1>4. FrameInv'
  BY DEF FrameInv, NoResult
<1>5. CurlInv' /\ ModeInv'
  BY DEF CurlInv, ModeInv
<1>6. ReadInv'
  BY DEF ReadInv, FrameInv
<1>7. SendInv' /\ SentInOrder'
  BY SMTT(30) DEF SendInv, SentInOrder
<1>8. WaitInv'
  BY DEF WaitInv, Bail, OutputStalled, FrameInv
<1>9. DeliveredInOrder' /\ OverflowWithinHeld'
  BY DEF DeliveredInOrder, OverflowWithinHeld, ModeInv
<1>10. EofOnlyAtTheEnd'
  BY DEF EofOnlyAtTheEnd, NoResult, Result, FrameInv, ReadInv, DeliveredInOrder
<1>11. ReadCountHonest'
  BY DEF ReadCountHonest, NoResult, Result, FrameInv, ReadInv
<1>12. NeedFlagsMatchCall' /\ PausesAreFlagged'
  BY DEF NeedFlagsMatchCall, PausesAreFlagged
<1> QED
  BY <1>1, <1>2, <1>3, <1>4, <1>5, <1>6, <1>7, <1>8, <1>9, <1>10, <1>11, <1>12

\* write() turned away after the upload goal.
LEMMA WriteAfterGoalStep ==
    ASSUME IInv, WriteAfterGoal
    PROVE  IInv'
<1> USE BoundAssumption DEF IInv, TypeOK, CtrlType, CallType, CurlType, HistType,
       WriteAfterGoal, CanEnter, restOfCtrl, scratchVars, frameVars, curlVars, recvVars,
       respVars, histVars
<1>1. CtrlType'
  BY DEF Flags, Callbacks
<1>2. CallType'
  BY DEF Pcs, NoResult, Result, ResultType, Calls, Exceptions, FrameInv
<1>3. CurlType' /\ HistType'
  OBVIOUS
<1>4. FrameInv'
  BY DEF FrameInv, NoResult
<1>5. CurlInv' /\ ModeInv'
  BY DEF CurlInv, ModeInv
<1>6. ReadInv'
  BY DEF ReadInv, FrameInv
<1>7. SendInv' /\ SentInOrder'
  BY DEF SendInv, SentInOrder
<1>8. WaitInv'
  BY DEF WaitInv, Bail, OutputStalled, FrameInv
<1>9. DeliveredInOrder' /\ OverflowWithinHeld'
  BY DEF DeliveredInOrder, OverflowWithinHeld, ModeInv
<1>10. EofOnlyAtTheEnd'
  BY DEF EofOnlyAtTheEnd, NoResult, Result, FrameInv, ReadInv, DeliveredInOrder
<1>11. ReadCountHonest'
  BY DEF ReadCountHonest, NoResult, Result, FrameInv, ReadInv
<1>12. NeedFlagsMatchCall' /\ PausesAreFlagged'
  BY DEF NeedFlagsMatchCall, PausesAreFlagged
<1> QED
  BY <1>1, <1>2, <1>3, <1>4, <1>5, <1>6, <1>7, <1>8, <1>9, <1>10, <1>11, <1>12

\* closeOutput() up to curl_easy_pause.
LEMMA CloseOutputStep ==
    ASSUME IInv, CloseOutput
    PROVE  IInv'
<1> USE BoundAssumption DEF IInv, TypeOK, CtrlType, CallType, CurlType, HistType,
       CloseOutput, EnterCurl, With, CanEnter, respVars, histVars
<1>1. CtrlType'
  BY DEF Flags, Callbacks
<1>2. CallType'
  BY DEF Pcs, NoResult, Result, ResultType, Calls, Exceptions, FrameInv
<1>3. CurlType' /\ HistType'
  OBVIOUS
<1>4. FrameInv'
  BY DEF FrameInv, NoResult
<1>5. CurlInv' /\ ModeInv'
  BY DEF CurlInv, ModeInv
<1>6. ReadInv'
  BY DEF ReadInv, FrameInv
<1>7. SendInv' /\ SentInOrder'
  BY DEF SendInv, SentInOrder
<1>8. WaitInv'
  BY DEF WaitInv, Bail, OutputStalled, FrameInv
<1>9. DeliveredInOrder' /\ OverflowWithinHeld'
  BY DEF DeliveredInOrder, OverflowWithinHeld, ModeInv
<1>10. EofOnlyAtTheEnd'
  BY DEF EofOnlyAtTheEnd, NoResult, Result, FrameInv, ReadInv, DeliveredInOrder
<1>11. ReadCountHonest'
  BY DEF ReadCountHonest, NoResult, Result, FrameInv, ReadInv
<1>12. NeedFlagsMatchCall' /\ PausesAreFlagged'
  BY DEF NeedFlagsMatchCall, PausesAreFlagged
<1> QED
  BY <1>1, <1>2, <1>3, <1>4, <1>5, <1>6, <1>7, <1>8, <1>9, <1>10, <1>11, <1>12

\* reset().
LEMMA ResetStep ==
    ASSUME IInv, Reset
    PROVE  IInv'
<1> USE BoundAssumption DEF IInv, TypeOK, CtrlType, CallType, CurlType, HistType, Reset,
       CanEnter, frameVars
<1>1. CtrlType'
  BY DEF Flags, Callbacks
<1>2. CallType'
  BY DEF Pcs, NoResult, Result, ResultType, Calls, Exceptions, FrameInv
<1>3. CurlType'
  OBVIOUS
<1>4. HistType'
  OBVIOUS
<1>5. FrameInv'
  BY DEF FrameInv, NoResult
<1>6. CurlInv' /\ ModeInv'
  BY DEF CurlInv, ModeInv
<1>7. ReadInv'
  BY DEF ReadInv, FrameInv
<1>8. SendInv' /\ SentInOrder'
  BY DEF SendInv, SentInOrder
<1>9. WaitInv'
  BY DEF WaitInv, Bail, OutputStalled, FrameInv
<1>10. DeliveredInOrder' /\ OverflowWithinHeld'
  BY DEF DeliveredInOrder, OverflowWithinHeld, ModeInv
<1>11. EofOnlyAtTheEnd'
  BY DEF EofOnlyAtTheEnd, NoResult, Result, FrameInv, ReadInv, DeliveredInOrder
<1>12. ReadCountHonest'
  BY DEF ReadCountHonest, NoResult, Result, FrameInv, ReadInv
<1>13. NeedFlagsMatchCall' /\ PausesAreFlagged'
  BY DEF NeedFlagsMatchCall, PausesAreFlagged
<1> QED
  BY <1>1, <1>2, <1>3, <1>4, <1>5, <1>6, <1>7, <1>8, <1>9, <1>10, <1>11, <1>12, <1>13

\* A call that finds the lock taken.
LEMMA LockedOutStep ==
    ASSUME IInv, LockedOut
    PROVE  IInv'
<1> USE BoundAssumption DEF IInv, TypeOK, CtrlType, CallType, CurlType, HistType,
       LockedOut, ctrlVars, frameVars, curlVars, recvVars, respVars, histVars
<1>1. CtrlType'
  BY DEF Flags, Callbacks
<1>2. CallType'
  BY DEF Pcs, NoResult, Result, ResultType, Calls, Exceptions, FrameInv
<1>3. CurlType' /\ HistType'
  OBVIOUS
<1>4. FrameInv'
  BY DEF FrameInv, NoResult
<1>5. CurlInv' /\ ModeInv'
  BY DEF CurlInv, ModeInv
<1>6. ReadInv'
  BY DEF ReadInv, FrameInv
<1>7. SendInv' /\ SentInOrder'
  BY DEF SendInv, SentInOrder
<1>8. WaitInv'
  BY DEF WaitInv, Bail, OutputStalled, FrameInv
<1>9. DeliveredInOrder' /\ OverflowWithinHeld'
  BY DEF DeliveredInOrder, OverflowWithinHeld, ModeInv
<1>10. EofOnlyAtTheEnd'
  BY DEF EofOnlyAtTheEnd, NoResult, Result, FrameInv, ReadInv, DeliveredInOrder
<1>11. ReadCountHonest'
  BY DEF ReadCountHonest, NoResult, Result, FrameInv, ReadInv
<1>12. NeedFlagsMatchCall' /\ PausesAreFlagged'
  BY DEF NeedFlagsMatchCall, PausesAreFlagged
<1> QED
  BY <1>1, <1>2, <1>3, <1>4, <1>5, <1>6, <1>7, <1>8, <1>9, <1>10, <1>11, <1>12

\* A step of curlPerform that stays in the call.
LEMMA GoesStep ==
    ASSUME IInv, NEW p \in Pcs, GoesTo(p)
    PROVE  IInv'
<1> USE BoundAssumption DEF IInv, TypeOK, CtrlType, CallType, CurlType, HistType,
       GoesTo, Goto, engineRest, restOfCtrl, scratchVars, frameVars, recvVars, respVars,
       histVars
<1>1. CtrlType'
  BY DEF Flags, Callbacks
<1>2. CallType'
  BY DEF Pcs, NoResult, Result, ResultType, Calls, Exceptions, FrameInv
<1>3. CurlType' /\ HistType'
  OBVIOUS
<1>4. FrameInv'
  BY DEF FrameInv, NoResult
<1>5. CurlInv' /\ ModeInv'
  BY DEF CurlInv, ModeInv
<1>6. ReadInv'
  BY DEF ReadInv, FrameInv
<1>7. SendInv' /\ SentInOrder'
  BY DEF SendInv, SentInOrder
<1>8. WaitInv'
  BY DEF WaitInv, Bail, OutputStalled, FrameInv
<1>9. DeliveredInOrder' /\ OverflowWithinHeld'
  BY DEF DeliveredInOrder, OverflowWithinHeld, ModeInv
<1>10. EofOnlyAtTheEnd'
  BY DEF EofOnlyAtTheEnd, NoResult, Result, FrameInv, ReadInv, DeliveredInOrder
<1>11. ReadCountHonest'
  BY DEF ReadCountHonest, NoResult, Result, FrameInv, ReadInv
<1>12. NeedFlagsMatchCall' /\ PausesAreFlagged'
  BY DEF NeedFlagsMatchCall, PausesAreFlagged
<1> QED
  BY <1>1, <1>2, <1>3, <1>4, <1>5, <1>6, <1>7, <1>8, <1>9, <1>10, <1>11, <1>12

\* The end of a call: the result tells the truth about what was delivered.
LEMMA LeavesStep ==
    ASSUME IInv, NEW v \in Int, NEW e \in Exceptions, LeavesWith(v, e)
    PROVE  IInv'
<1> USE BoundAssumption DEF IInv, TypeOK, CtrlType, CallType, CurlType, HistType,
       LeavesWith, Leave, Released, With, ReadCount, restOfCtrl, recvVars, respVars,
       histVars
<1>1. CtrlType'
  <2>1. state' \subseteq Flags
    BY DEF Flags
  <2>2. busy' \in BOOLEAN
    OBVIOUS
  <2>3. /\ readOffset' \in Int /\ countToRead' \in 0..MaxCount
        /\ writeOffset' \in Nat /\ countToWrite' \in 0..MaxCount
    OBVIOUS
  <2>4. UNCHANGED <<readOverflow, uploadedCount, uploadGoal, readFn, writeFn>>
    OBVIOUS
  <2> HIDE DEF LeavesWith
  <2> QED
    BY <2>1, <2>2, <2>3, <2>4
<1>2. CallType'
  BY DEF Pcs, NoResult, Result, ResultType, Calls, Exceptions, FrameInv
<1>3. CurlType' /\ HistType'
  OBVIOUS
<1>4. FrameInv'
  BY DEF FrameInv, NoResult
<1>5. CurlInv' /\ ModeInv'
  BY DEF CurlInv, ModeInv
<1>6. ReadInv'
  BY DEF ReadInv, FrameInv
<1>7. SendInv' /\ SentInOrder'
  BY DEF SendInv, SentInOrder
<1>8. WaitInv'
  BY DEF WaitInv, Bail, OutputStalled, FrameInv
<1>9. DeliveredInOrder' /\ OverflowWithinHeld'
  BY DEF DeliveredInOrder, OverflowWithinHeld, ModeInv
<1>10. EofOnlyAtTheEnd'
  BY DEF EofOnlyAtTheEnd, NoResult, Result, FrameInv, ReadInv, DeliveredInOrder
<1>11. ReadCountHonest'
  BY DEF ReadCountHonest, NoResult, Result, FrameInv, ReadInv
<1>12. NeedFlagsMatchCall' /\ PausesAreFlagged'
  BY DEF NeedFlagsMatchCall, PausesAreFlagged
<1> QED
  BY <1>1, <1>2, <1>3, <1>4, <1>5, <1>6, <1>7, <1>8, <1>9, <1>10, <1>11, <1>12

\* Appending consecutive positions to a sequence.
LEMMA AppendPositions ==
    ASSUME NEW s \in Seq(Nat), NEW p \in Nat, NEW n \in Nat
    PROVE  /\ s \o Positions(p, n) \in Seq(Nat)
           /\ Len(s \o Positions(p, n)) = Len(s) + n
           /\ \A i \in 1..Len(s) : (s \o Positions(p, n))[i] = s[i]
           /\ \A i \in (Len(s) + 1)..(Len(s) + n) :
                 (s \o Positions(p, n))[i] = p + (i - Len(s))
<1> DEFINE q == Positions(p, n)
<1>1. q \in Seq(Nat) /\ Len(q) = n /\ \A i \in 1..n : q[i] = p + i
  BY DEF Positions
<1> HIDE DEF q
<1>2. s \o q \in Seq(Nat) /\ Len(s \o q) = Len(s) + n
  BY <1>1, ConcatProperties
<1>3. \A i \in 1..Len(s) : (s \o q)[i] = s[i]
  BY <1>1, ConcatProperties
<1>4. ASSUME NEW i \in (Len(s) + 1)..(Len(s) + n) PROVE (s \o q)[i] = p + (i - Len(s))
  <2>1. i \in 1..(Len(s) + Len(q)) /\ ~(i <= Len(s)) /\ i - Len(s) \in 1..n
    BY <1>1
  <2>2. (s \o q)[i] = q[i - Len(s)]
    BY <1>1, <2>1, ConcatProperties
  <2> QED
    BY <1>1, <2>1, <2>2
<1> QED
  BY <1>2, <1>3, <1>4 DEF q

\* What a received chunk leaves alone.
ReceiveRest ==
    UNCHANGED <<busy, writeOffset, countToWrite, uploadedCount, uploadGoal, readFn,
                writeFn, call, pc, count, buf, off, base, interrupted, last, sendPaused,
                uploading, upload, headers, location, final, responses, sent, offered>>

\* The chunk is held back, skipped, or refused: nothing goes to the caller.
Untouched == UNCHANGED <<readOffset, countToRead, delivered>>

Kept(k) ==
    /\ Untouched /\ UNCHANGED <<readOverflow, consumed, running, msg>>
    /\ state' = state \union {"RECV_PAUSED"} /\ recvPaused' = TRUE
    /\ held' = Greatest(held, k)

Dropped(k) ==
    /\ Untouched /\ UNCHANGED <<state, recvPaused, running, msg>>
    /\ \/ writeFn = "write" /\ readOverflow >= k /\ readOverflow' = readOverflow - k
       \/ writeFn # "write" /\ readOverflow' = readOverflow
    /\ consumed' = consumed + k /\ held' = Greatest(0, held - k)

Aborted ==
    /\ Untouched /\ UNCHANGED <<state, readOverflow, recvPaused, held, consumed>>
    /\ running' = FALSE /\ msg' = "writeError" /\ writeFn # "write"

\* n bytes of the chunk go to the caller.
Copied(k, n) ==
    /\ writeFn = "write"
    /\ countToRead >= n /\ readOverflow + n <= k /\ (~buf => n = 1)
    /\ delivered' = delivered \o Positions(consumed + readOverflow, n)
    /\ readOffset' = IF buf THEN readOffset + n ELSE Body[consumed + readOverflow + 1]
    /\ countToRead' = countToRead - n
    /\ UNCHANGED <<running, msg>>
    /\ \/ /\ readOverflow + n = k /\ readOverflow' = 0
          /\ consumed' = consumed + k /\ held' = Greatest(0, held - k)
          /\ UNCHANGED <<state, recvPaused>>
       \/ /\ readOverflow + n < k /\ readOverflow' = readOverflow + n
          /\ state' = state \union {"RECV_PAUSED"} /\ recvPaused' = TRUE
          /\ held' = Greatest(held, k) /\ UNCHANGED consumed

\* The outcomes of a chunk.
LEMMA ReceiveCases ==
    ASSUME TypeOK, NEW k \in 1..MaxChunk, ReceiveCallback(k)
    PROVE  /\ ReceiveRest
           /\ Kept(k) \/ Dropped(k) \/ Aborted \/ \E n \in Nat \ {0} : Copied(k, n)
<1> USE BoundAssumption DEF TypeOK, CtrlType, CallType, CurlType
<1>0. countToRead \in Nat /\ readOverflow \in Nat /\ k \in Nat
  OBVIOUS
<1>1. ReceiveRest
  BY DEF ReceiveCallback, ReceiveRest, frameVars, respVars
<1> SUFFICES Kept(k) \/ Dropped(k) \/ Aborted \/ \E n \in Nat \ {0} : Copied(k, n)
  BY <1>1
<1>2. CASE writeFn = "write"
  <2>0. WriteCallback(k) /\ UNCHANGED <<running, msg>>
    BY <1>2 DEF ReceiveCallback
  <2>1. CASE countToRead = 0
    BY <2>0, <2>1 DEF WriteCallback, PauseRecv, With, Kept, Untouched
  <2>2. CASE countToRead > 0 /\ readOverflow >= k
    BY <1>2, <2>0, <2>2 DEF WriteCallback, Consume, Dropped, Untouched
  <2>3. CASE countToRead > 0 /\ readOverflow < k
    <3> DEFINE n == IF buf THEN Least(countToRead, k - readOverflow) ELSE 1
    <3>1. n \in Nat \ {0} /\ countToRead >= n /\ readOverflow + n <= k /\ (~buf => n = 1)
      BY <2>3 DEF Least
    <3>2. /\ delivered' = delivered \o Positions(consumed + readOverflow, n)
          /\ readOffset' = IF buf THEN readOffset + n ELSE Body[consumed + readOverflow + 1]
          /\ countToRead' = countToRead - n
          /\ IF n = k - readOverflow
               THEN readOverflow' = 0 /\ Consume(k) /\ UNCHANGED state
               ELSE readOverflow' = readOverflow + n /\ PauseRecv(k)
      BY <2>0, <2>3 DEF WriteCallback, CopyLength, PendingFrom, ChunkDone
    <3>3. n = k - readOverflow <=> readOverflow + n = k
      BY <3>1
    <3>4. n # k - readOverflow => readOverflow + n < k
      BY <3>1
    <3> HIDE DEF n
    <3>5. Copied(k, n)
      BY <1>2, <2>0, <3>1, <3>2, <3>3, <3>4 DEF Copied, Consume, PauseRecv, With
    <3> QED
      BY <3>1, <3>5
  <2> QED
    BY <1>0, <2>1, <2>2, <2>3
<1>3. CASE writeFn = "skip"
  <2>1. Consume(k) /\ UNCHANGED <<state, readOffset, countToRead, readOverflow, delivered,
                                 running, msg>>
    BY <1>3 DEF ReceiveCallback
  <2> QED
    BY <1>3, <2>1 DEF Consume, Dropped, Untouched
<1>4. CASE writeFn \notin {"write", "skip"}
  <2>1. running' = FALSE /\ msg' = "writeError" /\ UNCHANGED <<state, readOffset,
            countToRead, readOverflow, delivered, recvVars>>
    BY <1>4 DEF ReceiveCallback
  <2> QED
    BY <1>4, <2>1 DEF Aborted, Untouched, recvVars
<1> QED
  BY <1>2, <1>3, <1>4

\* write_callback copying n bytes: they are the next n of the body.
LEMMA CopyStep ==
    ASSUME IInv, NEW k \in 1..MaxChunk, NEW n \in Nat \ {0}, ReceiveRest, Copied(k, n),
           pc # "idle", pc # "wait", running, ~recvPaused,
           consumed + k <= Len(Body), held = 0 \/ k <= held
    PROVE  IInv'
<1> USE DEF IInv, TypeOK, CtrlType, CallType, CurlType, HistType
<1>a. k \in Nat /\ Len(Body) \in Nat
  BY BodyAssumption, BoundAssumption
<1>b. Len(delivered) \in Nat /\ Len(delivered) = consumed + readOverflow
  BY DEF Copied, DeliveredInOrder
<1>0. /\ delivered' \in Seq(Nat) /\ Len(delivered') = Len(delivered) + n
      /\ \A i \in 1..Len(delivered) : delivered'[i] = delivered[i]
      /\ \A i \in (Len(delivered) + 1)..(Len(delivered) + n) :
            delivered'[i] = consumed + readOverflow + (i - Len(delivered))
  <2>1. delivered' = delivered \o Positions(consumed + readOverflow, n)
    BY DEF Copied
  <2>2. consumed + readOverflow \in Nat /\ delivered \in Seq(Nat)
    OBVIOUS
  <2> DEFINE p == consumed + readOverflow
  <2> HIDE DEF IInv, p
  <2>3. p \in Nat /\ n \in Nat /\ delivered \in Seq(Nat)
    BY <2>2 DEF p
  <2> DEFINE d == delivered \o Positions(p, n)
  <2>4. /\ d \in Seq(Nat) /\ Len(d) = Len(delivered) + n
        /\ \A i \in 1..Len(delivered) : d[i] = delivered[i]
        /\ \A i \in (Len(delivered) + 1)..(Len(delivered) + n) :
              d[i] = p + (i - Len(delivered))
    BY ONLY <2>3, AppendPositions
  <2>5. delivered' = d
    BY <2>1 DEF p
  <2> HIDE DEF d
  <2> QED
    BY <2>4, <2>5 DEF p
<1>c. /\ consumed' \in Nat /\ readOverflow' \in Nat /\ held' \in Nat
      /\ consumed' + readOverflow' = consumed + readOverflow + n
      /\ consumed' + held' <= Len(Body)
      /\ readOverflow' = 0 \/ readOverflow' < held'
  <2>1. /\ consumed \in Nat /\ readOverflow \in Nat /\ held \in Nat
        /\ consumed + held <= Len(Body) /\ (readOverflow = 0 \/ readOverflow < held)
    BY DEF CurlInv, OverflowWithinHeld
  <2> HIDE DEF IInv
  <2>2. CASE readOverflow + n = k
    <3>1. /\ readOverflow' = 0 /\ consumed' = consumed + k
          /\ held' = IF held > k THEN held - k ELSE 0
      BY SMTT(30), <1>a, <2>1, <2>2 DEF Copied, Greatest
    <3> QED
      BY <1>a, <2>1, <2>2, <3>1
  <2>3. CASE readOverflow + n < k
    <3>1. /\ readOverflow' = readOverflow + n /\ consumed' = consumed
          /\ held' = IF held > k THEN held ELSE k
      BY <1>a, <2>1, <2>3 DEF Copied, Greatest
    <3> QED
      BY <1>a, <2>1, <2>3, <3>1
  <2> QED
    BY <1>a, <2>1, <2>2, <2>3 DEF Copied
<1>1. CtrlType'
  <2>1. readOffset' \in Int
    <3>1. CASE buf
      BY <3>1 DEF Copied
    <3>2. CASE ~buf
      <4>1. consumed + readOverflow + 1 \in 1..Len(Body)
        BY <1>a DEF Copied
      <4>2. Body[consumed + readOverflow + 1] \in -128..127
        BY <1>a, <4>1, BodyAssumption, ElementOfSeq
      <4> QED
        BY <3>2, <4>2 DEF Copied
    <3> QED
      BY <3>1, <3>2
  <2>2. state' \subseteq Flags
    BY DEF Copied, Flags
  <2>3. countToRead' \in 0..MaxCount
    BY BoundAssumption DEF Copied
  <2> QED
    BY <1>c, <2>1, <2>2, <2>3 DEF ReceiveRest
<1>2. CallType'
  BY DEF ReceiveRest
<1>3. CurlType'
  <2>1. recvPaused' \in BOOLEAN /\ UNCHANGED <<running, msg>>
    BY DEF Copied
  <2> QED
    BY <1>c, <2>1 DEF ReceiveRest
<1>4. HistType'
  BY <1>0 DEF ReceiveRest
<1>5. FrameInv'
  BY <1>0 DEF ReceiveRest, Copied, FrameInv, NoResult
<1>6. CurlInv'
  BY <1>c DEF Copied, CurlInv
<1>7. ModeInv'
  BY DEF ReceiveRest, Copied, ModeInv
<1>8. ReadInv'
  <2>1. countToRead' = countToRead - n /\ countToRead' \in Nat
    BY DEF Copied
  <2>2. Len(delivered') - base' = (Len(delivered) - base) + n
    BY <1>0, <1>b DEF ReceiveRest
  <2>3. buf => readOffset' = readOffset + n
    BY DEF Copied
  <2>4. /\ call = "read" => /\ Len(delivered) - base = count - countToRead
                            /\ countToRead <= count
                            /\ buf => readOffset = off + (count - countToRead)
                            /\ ~buf => count = 1
        /\ n \in Nat /\ count \in Nat /\ countToRead \in Nat /\ off \in Nat
        /\ readOffset \in Int
    BY BoundAssumption DEF ReadInv
  <2>5. UNCHANGED <<call, count, buf, off>>
    BY DEF ReceiveRest
  <2> HIDE DEF IInv
  <2>6. ASSUME call = "read"
        PROVE  /\ Len(delivered') - base' = count - countToRead'
               /\ countToRead' <= count
               /\ buf => readOffset' = off + (count - countToRead')
               /\ ~buf => count = 1
    <3>1. Len(delivered) - base = count - countToRead
      BY <2>4, <2>6
    <3>2. Len(delivered') - base' = count - countToRead'
      BY <2>1, <2>2, <2>4, <3>1
    <3>3. countToRead' <= count
      BY <2>1, <2>4, <2>6
    <3>4. buf => readOffset' = off + (count - countToRead')
      BY <2>1, <2>3, <2>4, <2>6
    <3> QED
      BY <2>4, <2>6, <3>2, <3>3, <3>4
  <2> QED
    BY <2>5, <2>6 DEF ReadInv
<1>9. SendInv' /\ SentInOrder'
  BY DEF ReceiveRest, SendInv, SentInOrder
<1>10. WaitInv'
  BY DEF ReceiveRest, Copied, WaitInv
<1>11. DeliveredInOrder'
  <2>1. ASSUME NEW i \in 1..Len(delivered') PROVE delivered'[i] = i
    <3>1. CASE i \in 1..Len(delivered)
      BY <1>0, <3>1 DEF Copied, DeliveredInOrder
    <3>2. CASE i \in (Len(delivered) + 1)..(Len(delivered) + n)
      BY <1>0, <1>b, <3>2
    <3> QED
      BY <1>0, <1>b, <3>1, <3>2
  <2> QED
    BY <1>0, <1>b, <1>c, <2>1 DEF DeliveredInOrder
<1>12. OverflowWithinHeld'
  BY <1>c DEF OverflowWithinHeld
<1>13. EofOnlyAtTheEnd' /\ ReadCountHonest'
  BY DEF ReceiveRest, EofOnlyAtTheEnd, ReadCountHonest, FrameInv, NoResult
<1>14. NeedFlagsMatchCall' /\ PausesAreFlagged'
  <2>1. /\ UNCHANGED <<call, sendPaused>>
        /\ \/ UNCHANGED <<state, recvPaused>>
           \/ state' = state \union {"RECV_PAUSED"} /\ recvPaused' = TRUE
    BY DEF ReceiveRest, Copied
  <2>2. NeedFlagsMatchCall /\ PausesAreFlagged
    OBVIOUS
  <2> HIDE DEF IInv
  <2> QED
    BY <2>1, <2>2 DEF NeedFlagsMatchCall, PausesAreFlagged
<1> QED
  BY <1>1, <1>2, <1>3, <1>4, <1>5, <1>6, <1>7, <1>8, <1>9, <1>10, <1>11, <1>12, <1>13,
     <1>14

\* A chunk of which nothing goes to the caller.
LEMMA NoCopyStep ==
    ASSUME IInv, NEW k \in 1..MaxChunk, ReceiveRest, Kept(k) \/ Dropped(k) \/ Aborted,
           pc # "idle", pc # "wait", running, ~recvPaused,
           consumed + k <= Len(Body), held = 0 \/ k <= held
    PROVE  IInv'
<1> USE DEF IInv, TypeOK, CtrlType, CallType, CurlType, HistType
<1>a. k \in Nat /\ Len(Body) \in Nat
  BY BodyAssumption, BoundAssumption
<1>b. UNCHANGED <<readOffset, countToRead, delivered>>
  BY DEF Kept, Dropped, Aborted, Untouched
<1>c. state' \in {state, state \union {"RECV_PAUSED"}}
  BY DEF Kept, Dropped, Aborted
<1>d. /\ consumed' \in Nat /\ readOverflow' \in Nat /\ held' \in Nat
      /\ writeFn = "write" => consumed' + readOverflow' = consumed + readOverflow
      /\ writeFn # "write" => readOverflow' = readOverflow
      /\ consumed' + held' <= Len(Body)
      /\ readOverflow' = 0 \/ readOverflow' < held'
  <2>1. CASE Kept(k)
    BY <1>a, <2>1 DEF Kept, CurlInv, OverflowWithinHeld, Greatest
  <2>2. CASE Dropped(k)
    BY SMTT(30), <1>a, <2>2 DEF Dropped, CurlInv, OverflowWithinHeld, ModeInv, Greatest
  <2>3. CASE Aborted
    BY <2>3 DEF Aborted, CurlInv, OverflowWithinHeld
  <2> QED
    BY <2>1, <2>2, <2>3
<1>e. /\ recvPaused' \in BOOLEAN /\ (recvPaused' => "RECV_PAUSED" \in state')
      /\ running' \in BOOLEAN /\ msg' \in {msg, "writeError"}
      /\ msg' # msg => ~running'
  <2>1. CASE Kept(k)
    BY <2>1 DEF Kept
  <2>2. CASE Dropped(k)
    BY <2>2 DEF Dropped
  <2>3. CASE Aborted
    BY <2>3 DEF Aborted
  <2> QED
    BY <2>1, <2>2, <2>3
<1>1. CtrlType'
  BY <1>b, <1>c, <1>d DEF ReceiveRest, Flags
<1>2. CallType'
  BY DEF ReceiveRest
<1>3. CurlType' /\ HistType'
  BY <1>b, <1>d, <1>e DEF ReceiveRest
<1>4. FrameInv'
  BY <1>b DEF ReceiveRest, FrameInv, NoResult
<1>5. CurlInv'
  BY <1>d, <1>e DEF CurlInv
<1>6. ModeInv'
  <2>1. "ATTACHED" \in state
    BY DEF ModeInv
  <2> QED
    BY <1>c, <1>d, <2>1 DEF ReceiveRest, ModeInv
<1>7. ReadInv'
  BY <1>b DEF ReceiveRest, ReadInv
<1>8. SendInv' /\ SentInOrder'
  BY DEF ReceiveRest, SendInv, SentInOrder
<1>9. WaitInv'
  BY <1>c DEF ReceiveRest, WaitInv
<1>10. DeliveredInOrder' /\ OverflowWithinHeld'
  BY <1>b, <1>d DEF ReceiveRest, DeliveredInOrder, OverflowWithinHeld
<1>11. EofOnlyAtTheEnd' /\ ReadCountHonest'
  BY DEF ReceiveRest, EofOnlyAtTheEnd, ReadCountHonest, FrameInv, NoResult
<1>12. NeedFlagsMatchCall'
  BY <1>c DEF ReceiveRest, NeedFlagsMatchCall
<1>13. PausesAreFlagged'
  BY <1>c, <1>e DEF ReceiveRest, PausesAreFlagged
<1> QED
  BY <1>1, <1>2, <1>3, <1>4, <1>5, <1>6, <1>7, <1>8, <1>9, <1>10, <1>11, <1>12, <1>13

\* The callback for received data.
LEMMA ReceiveStep ==
    ASSUME IInv, NEW k \in 1..MaxChunk, Deliver(k) \/ Redeliver(k)
    PROVE  IInv'
<1>1. /\ ReceiveCallback(k) /\ pc # "idle" /\ pc # "wait" /\ running /\ ~recvPaused
      /\ consumed + k <= Len(Body) /\ (held = 0 \/ k <= held)
  BY ReceiveShape DEF IInv
<1>2. ReceiveRest /\ (Kept(k) \/ Dropped(k) \/ Aborted \/ \E n \in Nat \ {0} : Copied(k, n))
  BY <1>1, ReceiveCases DEF IInv
<1> QED
  BY <1>1, <1>2, CopyStep, NoCopyStep

\* What a request for data leaves alone.
PullRest ==
    UNCHANGED <<busy, readOffset, countToRead, readOverflow, uploadGoal, readFn, writeFn,
                call, pc, count, buf, off, base, interrupted, last, running, msg, upload,
                recvPaused, held, consumed, headers, location, final, responses,
                delivered, offered>>

\* n bytes are handed to curl; n = 0 stands for a pause or the end of the data.
Handed(n) ==
    /\ n <= countToWrite /\ (~buf /\ n > 0 => n = 1)
    /\ sent' = sent \o Positions(writeOffset, n)
    /\ writeOffset' = IF buf THEN writeOffset + n ELSE writeOffset
    /\ countToWrite' = countToWrite - n
    /\ uploadedCount' \in Nat /\ uploading' \in BOOLEAN /\ sendPaused' \in BOOLEAN
    /\ state' \in {state, state \union {"SEND_PAUSED"}}
    /\ sendPaused' => sendPaused \/ "SEND_PAUSED" \in state'
    /\ state' = state \/ ~uploading' \/ countToWrite = 0

\* What curl gets when it asks for request data: the end, a pause, or bytes.
LEMMA PullCases ==
    ASSUME TypeOK, NEW k \in 1..MaxChunk, Pull(k)
    PROVE  pc # "idle" /\ pc # "wait" /\ PullRest /\ \E n \in Nat : Handed(n)
<1> USE BoundAssumption
<1>1. pc # "idle" /\ pc # "wait" /\ PullRest
  BY DEF Pull, InPerform, PullRest, restOfSend, frameVars, recvVars, respVars
<1>2. CASE UNCHANGED <<sent, writeOffset, uploadedCount, countToWrite>>
           /\ state' = With({"SEND_PAUSED"}, {}) /\ uploading' \in BOOLEAN
           /\ sendPaused' \in BOOLEAN /\ (~uploading' \/ countToWrite = 0)
  <2>1. sent \o Positions(writeOffset, 0) = sent
    <3>1. Positions(writeOffset, 0) = <<>>
      BY DEF Positions
    <3> QED
      BY <3>1 DEF TypeOK, CtrlType, CallType, CurlType, HistType
  <2>2. Handed(0)
    BY <1>2, <2>1 DEF Handed, With, TypeOK, CtrlType, CallType, CurlType, HistType
  <2> QED
    BY <1>1, <2>2
<1>3. CASE countToWrite > 0 /\ SendBytes(k)
  <2> DEFINE n == IF buf THEN Least(countToWrite, k) ELSE 1
             u == IF uploadGoal > 0 THEN uploadedCount + n ELSE uploadedCount
  <2>1. n \in Nat /\ n <= countToWrite /\ (~buf /\ n > 0 => n = 1) /\ u \in Nat
    BY <1>3 DEF Least, TypeOK, CtrlType, CallType, CurlType, HistType
  <2>2. /\ sent' = sent \o Positions(writeOffset, n)
        /\ writeOffset' = IF buf THEN writeOffset + n ELSE writeOffset
        /\ countToWrite' = countToWrite - n /\ uploadedCount' = u
        /\ state' = With(When("SEND_PAUSED", uploadGoal > 0 /\ u >= uploadGoal), {})
        /\ uploading' = ~(uploadGoal > 0 /\ u >= uploadGoal)
        /\ UNCHANGED sendPaused
    BY <1>3 DEF SendBytes, NextOffset
  <2>3. state' \in {state, state \union {"SEND_PAUSED"}}
    BY <2>2 DEF With, When
  <2>4. uploading' \in BOOLEAN /\ sendPaused' \in BOOLEAN
    BY <2>2 DEF TypeOK, CtrlType, CallType, CurlType, HistType
  <2> HIDE DEF n, u
  <2>5. state' = state \/ ~uploading'
    BY <2>2 DEF With, When
  <2>6. Handed(n)
    BY <2>1, <2>2, <2>3, <2>4, <2>5 DEF Handed
  <2> QED
    BY <1>1, <2>1, <2>6
<1>4. \/ /\ UNCHANGED <<sent, writeOffset, uploadedCount, countToWrite>>
         /\ state' = With({"SEND_PAUSED"}, {}) /\ uploading' \in BOOLEAN
         /\ sendPaused' \in BOOLEAN /\ (~uploading' \/ countToWrite = 0)
      \/ countToWrite > 0 /\ SendBytes(k)
  BY DEF Pull, TypeOK, CtrlType, CallType, CurlType, HistType
<1> QED
  BY <1>2, <1>3, <1>4

\* read_callback and eof_callback: the bytes taken follow all bytes sent before.
LEMMA PullStep ==
    ASSUME IInv, NEW k \in 1..MaxChunk, Pull(k)
    PROVE  IInv'
<1> USE DEF IInv, TypeOK, CtrlType, CallType, CurlType, HistType
<1>a. pc # "idle" /\ pc # "wait" /\ PullRest
  BY PullCases
<1>b. PICK n \in Nat : Handed(n)
  BY PullCases
<1>0. /\ sent' \in Seq(Nat) /\ Len(sent') = Len(sent) + n
      /\ \A i \in 1..Len(sent) : sent'[i] = sent[i]
      /\ \A i \in (Len(sent) + 1)..(Len(sent) + n) :
            sent'[i] = writeOffset + (i - Len(sent))
  <2>1. sent' = sent \o Positions(writeOffset, n)
    BY <1>b DEF Handed
  <2>2. sent \in Seq(Nat) /\ writeOffset \in Nat
    OBVIOUS
  <2> HIDE DEF IInv
  <2> QED
    BY <2>1, <2>2, AppendPositions
<1>c. /\ countToWrite \in Nat /\ n <= countToWrite /\ countToWrite' = countToWrite - n
      /\ writeOffset \in Nat /\ offered \in Nat /\ Len(sent) \in Nat
      /\ writeOffset' = IF buf THEN writeOffset + n ELSE writeOffset
  BY <1>b, BoundAssumption DEF Handed
<1>1. TypeOK'
  <2>1. state' \subseteq Flags
    BY <1>b DEF Handed, Flags
  <2>2. countToWrite' \in 0..MaxCount /\ writeOffset' \in Nat
    BY <1>c, BoundAssumption
  <2> QED
    BY <1>a, <1>b, <1>0, <2>1, <2>2 DEF PullRest, Handed
<1>2. FrameInv' /\ CurlInv'
  BY <1>a DEF PullRest, FrameInv, CurlInv, NoResult
<1>3. ModeInv'
  BY <1>a, <1>b DEF PullRest, Handed, ModeInv
<1>4. ReadInv'
  BY <1>a DEF PullRest, ReadInv
<1>5. SendInv'
  <2>1. \A i \in 1..Len(sent') : sent'[i] <= offered' - countToWrite'
    <3> SUFFICES ASSUME NEW i \in 1..Len(sent')
                 PROVE  sent'[i] <= offered' - countToWrite'
      OBVIOUS
    <3>a. /\ \A x \in 1..Len(sent) : sent[x] <= offered - countToWrite
          /\ countToWrite > 0 => writeOffset + countToWrite = offered
      BY DEF SendInv
    <3>b. \A x \in 1..Len(sent) : sent[x] \in Nat
      BY ElementOfSeq
    <3>c. offered' = offered
      BY <1>a DEF PullRest
    <3> HIDE DEF IInv
    <3>1. CASE i \in 1..Len(sent)
      <4>1. sent'[i] = sent[i] /\ sent[i] \in Nat /\ sent[i] <= offered - countToWrite
        BY <1>0, <3>a, <3>b, <3>1
      <4> QED
        BY <1>c, <3>c, <4>1
    <3>2. CASE i \in (Len(sent) + 1)..(Len(sent) + n)
      <4>1. sent'[i] = writeOffset + (i - Len(sent)) /\ i - Len(sent) \in 1..n
        BY <1>0, <1>c, <3>2
      <4>2. writeOffset + countToWrite = offered
        BY <1>c, <3>a, <4>1
      <4> QED
        BY <1>c, <3>c, <4>1, <4>2
    <3>3. i \in 1..Len(sent) \/ i \in (Len(sent) + 1)..(Len(sent) + n)
      BY <1>0, <1>c
    <3> QED
      BY <3>1, <3>2, <3>3
  <2>2. countToWrite' > 0 => writeOffset' + countToWrite' = offered'
    BY <1>a, <1>b DEF PullRest, Handed, SendInv
  <2>3. ~buf' => countToWrite' <= 1
    BY <1>a, <1>b DEF PullRest, Handed, SendInv
  <2>4. call' = "none" => countToWrite' = 0
    BY <1>a DEF PullRest, FrameInv
  <2> QED
    BY <2>1, <2>2, <2>3, <2>4 DEF SendInv
<1>6. WaitInv'
  BY <1>a, <1>b DEF PullRest, Handed, WaitInv
<1>7. DeliveredInOrder' /\ OverflowWithinHeld'
  BY <1>a DEF PullRest, DeliveredInOrder, OverflowWithinHeld
<1>8. SentInOrder'
  <2>1. \A i, j \in 1..Len(sent') : i < j => sent'[i] < sent'[j]
    <3> SUFFICES ASSUME NEW i \in 1..Len(sent'), NEW j \in 1..Len(sent'), i < j
                 PROVE  sent'[i] < sent'[j]
      OBVIOUS
    <3>0. /\ \A x, y \in 1..Len(sent) : x < y => sent[x] < sent[y]
          /\ \A x \in 1..Len(sent) : sent[x] \in Nat
      BY ElementOfSeq DEF SentInOrder
    <3>1. CASE j \in 1..Len(sent)
      <4>1. i \in 1..Len(sent)
        BY <1>c, <3>1
      <4> HIDE DEF IInv
      <4> QED
        BY <1>0, <3>0, <3>1, <4>1
    <3>2. CASE i \in 1..Len(sent) /\ j \in (Len(sent) + 1)..(Len(sent) + n)
      <4>a. /\ sent[i] <= offered - countToWrite
            /\ countToWrite > 0 => writeOffset + countToWrite = offered
        BY <3>2 DEF SendInv
      <4>b. n <= countToWrite
        BY <1>b DEF Handed
      <4>c. offered \in Nat /\ sent[i] \in Nat
        BY <3>0, <3>2
      <4> HIDE DEF IInv
      <4>1. n > 0 /\ countToWrite > 0
        BY <1>c, <3>2, <4>b
      <4>2. sent[i] <= writeOffset
        BY <1>c, <4>a, <4>c, <4>1
      <4>3. sent'[j] > writeOffset
        BY <1>0, <1>c, <3>2
      <4>4. sent'[i] = sent[i] /\ sent[i] \in Nat
        BY <1>0, <3>0, <3>2
      <4>5. sent'[j] = writeOffset + (j - Len(sent)) /\ j - Len(sent) \in Nat
        BY <1>0, <1>c, <3>2
      <4> QED
        BY <1>c, <4>2, <4>3, <4>4, <4>5
    <3>3. CASE i \in (Len(sent) + 1)..(Len(sent) + n)
      <4>1. j \in (Len(sent) + 1)..(Len(sent) + n)
        BY <1>0, <1>c, <3>3
      <4>2. /\ sent'[i] = writeOffset + (i - Len(sent))
            /\ sent'[j] = writeOffset + (j - Len(sent))
        BY <1>0, <3>3, <4>1
      <4> HIDE DEF IInv
      <4> QED
        BY <1>0, <1>c, <3>3, <4>1, <4>2
    <3> HIDE DEF IInv
    <3>4. \/ j \in 1..Len(sent)
          \/ i \in 1..Len(sent) /\ j \in (Len(sent) + 1)..(Len(sent) + n)
          \/ i \in (Len(sent) + 1)..(Len(sent) + n)
      BY <1>0, <1>c
    <3> QED
      BY <3>1, <3>2, <3>3, <3>4
  <2>2. \A i \in 1..Len(sent') : sent'[i] <= offered'
    <3> SUFFICES ASSUME NEW i \in 1..Len(sent') PROVE sent'[i] <= offered'
      OBVIOUS
    <3>1. sent'[i] <= offered' - countToWrite'
      BY <1>5 DEF SendInv
    <3>2. sent'[i] \in Nat /\ offered' \in Nat /\ countToWrite' \in Nat
      BY SMTT(30), <1>0, <1>a, <1>c DEF PullRest
    <3> HIDE DEF IInv
    <3> QED
      BY <3>1, <3>2
  <2> QED
    BY <2>1, <2>2 DEF SentInOrder
<1>9. EofOnlyAtTheEnd' /\ ReadCountHonest'
  BY <1>a DEF PullRest, EofOnlyAtTheEnd, ReadCountHonest, FrameInv, NoResult
<1>10. NeedFlagsMatchCall'
  BY <1>a, <1>b DEF PullRest, Handed, NeedFlagsMatchCall
<1>11. PausesAreFlagged'
  BY <1>a, <1>b DEF PullRest, Handed, PausesAreFlagged
<1> QED
  BY <1>1, <1>2, <1>3, <1>4, <1>5, <1>6, <1>7, <1>8, <1>9, <1>10, <1>11

\* header_callback at the end of the headers.
LEMMA HeaderEndStep ==
    ASSUME IInv, NEW loc \in BOOLEAN, NEW fin \in BOOLEAN, NEW stop \in BOOLEAN,
           HeaderEnd(loc, fin, stop)
    PROVE  IInv'
<1> USE BoundAssumption DEF IInv, TypeOK, CtrlType, CallType, CurlType, HistType,
       HeaderEnd, InPerform, With, restOfHeader, scratchVars, restOfCtrl, frameVars,
       recvVars, histVars
<1>1. CtrlType'
  BY DEF Flags, Callbacks
<1>2. CallType'
  BY DEF Pcs, NoResult, Result, ResultType, Calls, Exceptions, FrameInv
<1>3. CurlType' /\ HistType'
  OBVIOUS
<1>4. FrameInv'
  BY DEF FrameInv, NoResult
<1>5. CurlInv' /\ ModeInv'
  BY DEF CurlInv, ModeInv
<1>6. ReadInv'
  BY DEF ReadInv, FrameInv
<1>7. SendInv' /\ SentInOrder'
  BY DEF SendInv, SentInOrder
<1>8. WaitInv'
  BY DEF WaitInv, Bail, OutputStalled, FrameInv
<1>9. DeliveredInOrder' /\ OverflowWithinHeld'
  BY DEF DeliveredInOrder, OverflowWithinHeld, ModeInv
<1>10. EofOnlyAtTheEnd'
  BY DEF EofOnlyAtTheEnd, NoResult, Result, FrameInv, ReadInv, DeliveredInOrder
<1>11. ReadCountHonest'
  BY DEF ReadCountHonest, NoResult, Result, FrameInv, ReadInv
<1>12. NeedFlagsMatchCall' /\ PausesAreFlagged'
  BY DEF NeedFlagsMatchCall, PausesAreFlagged
<1> QED
  BY <1>1, <1>2, <1>3, <1>4, <1>5, <1>6, <1>7, <1>8, <1>9, <1>10, <1>11, <1>12

\* header_callback at a status line.
LEMMA StatusLineStep ==
    ASSUME IInv, StatusLine
    PROVE  IInv'
<1> USE BoundAssumption DEF IInv, TypeOK, CtrlType, CallType, CurlType, HistType,
       StatusLine, InPerform, With, restOfHeader, scratchVars, restOfCtrl, frameVars,
       recvVars, histVars
<1>1. CtrlType'
  BY DEF Flags, Callbacks
<1>2. CallType'
  BY DEF Pcs, NoResult, Result, ResultType, Calls, Exceptions, FrameInv
<1>3. CurlType'
  <2>1. headers' \in BOOLEAN /\ location' \in BOOLEAN
    OBVIOUS
  <2>2. responses' \in Nat
    OBVIOUS
  <2> QED
    BY <2>1, <2>2
<1>4. HistType'
  OBVIOUS
<1>5. FrameInv'
  BY DEF FrameInv, NoResult
<1>6. CurlInv' /\ ModeInv'
  BY DEF CurlInv, ModeInv
<1>7. ReadInv'
  BY DEF ReadInv, FrameInv
<1>8. SendInv' /\ SentInOrder'
  BY DEF SendInv, SentInOrder
<1>9. WaitInv'
  BY DEF WaitInv, Bail, OutputStalled, FrameInv
<1>10. DeliveredInOrder' /\ OverflowWithinHeld'
  BY DEF DeliveredInOrder, OverflowWithinHeld, ModeInv
<1>11. EofOnlyAtTheEnd'
  BY DEF EofOnlyAtTheEnd, NoResult, Result, FrameInv, ReadInv, DeliveredInOrder
<1>12. ReadCountHonest'
  BY DEF ReadCountHonest, NoResult, Result, FrameInv, ReadInv
<1>13. NeedFlagsMatchCall' /\ PausesAreFlagged'
  BY DEF NeedFlagsMatchCall, PausesAreFlagged
<1> QED
  BY <1>1, <1>2, <1>3, <1>4, <1>5, <1>6, <1>7, <1>8, <1>9, <1>10, <1>11, <1>12, <1>13

\* curl receives more while it is paused.
LEMMA HoldMoreStep ==
    ASSUME IInv, HoldMore
    PROVE  IInv'
<1> USE BoundAssumption DEF IInv, TypeOK, CtrlType, CallType, CurlType, HistType,
       HoldMore, InPerform, ctrlVars, frameVars, respVars, histVars
<1>1. CtrlType'
  BY DEF Flags, Callbacks
<1>2. CallType'
  BY DEF Pcs, NoResult, Result, ResultType, Calls, Exceptions, FrameInv
<1>3. CurlType' /\ HistType'
  OBVIOUS
<1>4. FrameInv'
  BY DEF FrameInv, NoResult
<1>5. CurlInv' /\ ModeInv'
  BY DEF CurlInv, ModeInv
<1>6. ReadInv'
  BY DEF ReadInv, FrameInv
<1>7. SendInv' /\ SentInOrder'
  BY DEF SendInv, SentInOrder
<1>8. WaitInv'
  BY DEF WaitInv, Bail, OutputStalled, FrameInv
<1>9. DeliveredInOrder' /\ OverflowWithinHeld'
  BY DEF DeliveredInOrder, OverflowWithinHeld, ModeInv
<1>10. EofOnlyAtTheEnd'
  BY DEF EofOnlyAtTheEnd, NoResult, Result, FrameInv, ReadInv, DeliveredInOrder
<1>11. ReadCountHonest'
  BY DEF ReadCountHonest, NoResult, Result, FrameInv, ReadInv
<1>12. NeedFlagsMatchCall' /\ PausesAreFlagged'
  BY DEF NeedFlagsMatchCall, PausesAreFlagged
<1> QED
  BY <1>1, <1>2, <1>3, <1>4, <1>5, <1>6, <1>7, <1>8, <1>9, <1>10, <1>11, <1>12

\* The transfer ends, well or badly.
LEMMA EndStep ==
    ASSUME IInv, Complete \/ Fail
    PROVE  IInv'
<1> USE BoundAssumption DEF IInv, TypeOK, CtrlType, CallType, CurlType, HistType,
       Complete, Fail, InPerform, restOfEnd, ctrlVars, frameVars, recvVars, respVars,
       histVars
<1>1. CtrlType'
  BY ZenonT(30) DEF Flags, Callbacks
<1>2. CallType'
  BY ZenonT(30) DEF Pcs, NoResult, Result, ResultType, Calls, Exceptions, FrameInv
<1>3. CurlType' /\ HistType'
  BY ZenonT(30)
<1>4. FrameInv'
  BY DEF FrameInv, NoResult
<1>5. CurlInv' /\ ModeInv'
  BY DEF CurlInv, ModeInv
<1>6. ReadInv'
  BY DEF ReadInv, FrameInv
<1>7. SendInv' /\ SentInOrder'
  BY DEF SendInv, SentInOrder
<1>8. WaitInv'
  BY DEF WaitInv, Bail, OutputStalled, FrameInv
<1>9. DeliveredInOrder' /\ OverflowWithinHeld'
  BY DEF DeliveredInOrder, OverflowWithinHeld, ModeInv
<1>10. EofOnlyAtTheEnd'
  BY DEF EofOnlyAtTheEnd, NoResult, Result, FrameInv, ReadInv, DeliveredInOrder
<1>11. ReadCountHonest'
  BY DEF ReadCountHonest, NoResult, Result, FrameInv, ReadInv
<1>12. NeedFlagsMatchCall' /\ PausesAreFlagged'
  BY SMTT(30) DEF NeedFlagsMatchCall, PausesAreFlagged
<1> QED
  BY <1>1, <1>2, <1>3, <1>4, <1>5, <1>6, <1>7, <1>8, <1>9, <1>10, <1>11, <1>12

\* The interruption flag is raised or cleared.
LEMMA SignalStep ==
    ASSUME IInv, Interrupt \/ ClearInterrupt
    PROVE  IInv'
<1>a. /\ UNCHANGED <<state, busy, readOffset, countToRead, readOverflow, writeOffset,
                     countToWrite, uploadedCount, uploadGoal, readFn, writeFn>>
      /\ UNCHANGED <<call, pc, count, buf, off, base, last>>
      /\ UNCHANGED <<running, msg, sendPaused, uploading, upload, recvPaused, held,
                     consumed, headers, location, final, responses>>
      /\ UNCHANGED <<delivered, sent, offered>>
      /\ interrupted' \in BOOLEAN
  BY DEF Interrupt, ClearInterrupt, restOfInterrupt, ctrlVars, frameVars, curlVars,
         recvVars, respVars, histVars
<1>1. CtrlType'
  BY <1>a DEF IInv, TypeOK, CtrlType
<1>2. CallType'
  BY <1>a DEF IInv, TypeOK, CallType
<1>3. CurlType' /\ HistType'
  BY <1>a DEF IInv, TypeOK, CurlType, HistType
<1>4. FrameInv' /\ CurlInv' /\ ModeInv'
  BY <1>a DEF IInv, FrameInv, CurlInv, ModeInv, NoResult
<1>5. ReadInv' /\ SendInv' /\ SentInOrder'
  BY <1>a DEF IInv, ReadInv, SendInv, SentInOrder
<1>6. WaitInv'
  BY <1>a DEF IInv, WaitInv, Bail, OutputStalled
<1>7. DeliveredInOrder' /\ OverflowWithinHeld'
  BY <1>a DEF IInv, DeliveredInOrder, OverflowWithinHeld
<1>8. EofOnlyAtTheEnd' /\ ReadCountHonest'
  BY <1>a DEF IInv, EofOnlyAtTheEnd, ReadCountHonest
<1>9. NeedFlagsMatchCall' /\ PausesAreFlagged'
  BY <1>a DEF IInv, NeedFlagsMatchCall, PausesAreFlagged
<1> QED
  BY <1>1, <1>2, <1>3, <1>4, <1>5, <1>6, <1>7, <1>8, <1>9 DEF IInv, TypeOK

-----------------------------------------------------------------------------
(* The invariant holds initially and every step keeps it. *)

\* nativeCreate leaves a handle that satisfies the invariant.
LEMMA InitInv == Init => IInv
<1> SUFFICES ASSUME Init PROVE IInv
  OBVIOUS
<1> USE DEF Init
<1>0. 0 \in Nat /\ 0 \in Int /\ 0 \in 0..MaxCount /\ 0 \in 0..1
  BY BoundAssumption
<1>1. CtrlType
  <2>1. state \subseteq Flags /\ busy \in BOOLEAN
    OBVIOUS
  <2>2. readFn \in Callbacks /\ writeFn \in Callbacks
    BY DEF Callbacks
  <2> QED
    BY <1>0, <2>1, <2>2, Zenon DEF CtrlType
<1>2. CallType
  <2>1. last \in ResultType
    BY <1>0 DEF ResultType, NoResult, Calls, Exceptions
  <2>2. call \in Calls /\ pc \in Pcs
    BY DEF Calls, Pcs
  <2>3. buf \in BOOLEAN /\ interrupted \in BOOLEAN
    OBVIOUS
  <2> QED
    BY <1>0, <2>1, <2>2, <2>3, Zenon DEF CallType
<1>3. CurlType
  BY <1>0, Zenon DEF CurlType
<1>9. HistType
  <2>1. <<>> \in Seq(Nat)
    OBVIOUS
  <2> QED
    BY <1>0, <2>1, Zenon DEF HistType
<1>4. FrameInv /\ ReadInv /\ SendInv /\ WaitInv
  BY DEF FrameInv, ReadInv, SendInv, WaitInv
<1>5. CurlInv /\ ModeInv
  BY BodyAssumption DEF CurlInv, ModeInv
<1>6. DeliveredInOrder /\ OverflowWithinHeld /\ SentInOrder
  BY DEF DeliveredInOrder, OverflowWithinHeld, SentInOrder
<1>7. EofOnlyAtTheEnd /\ ReadCountHonest
  BY DEF EofOnlyAtTheEnd, ReadCountHonest, NoResult
<1>8. NeedFlagsMatchCall /\ PausesAreFlagged
  BY DEF NeedFlagsMatchCall, PausesAreFlagged
<1> QED
  BY <1>1, <1>2, <1>3, <1>4, <1>5, <1>6, <1>7, <1>8, <1>9 DEF IInv, TypeOK

\* A step that changes nothing keeps it.
LEMMA StutterInv == IInv /\ UNCHANGED vars => IInv'
<1> SUFFICES ASSUME IInv, UNCHANGED vars PROVE IInv'
  OBVIOUS
<1> USE DEF vars, ctrlVars, frameVars, curlVars, recvVars, respVars, histVars
<1>1. TypeOK'
  BY DEF IInv, TypeOK, CtrlType, CallType, CurlType, HistType
<1>2. FrameInv' /\ CurlInv' /\ ModeInv' /\ ReadInv' /\ SendInv'
  BY DEF IInv, FrameInv, CurlInv, ModeInv, ReadInv, SendInv
<1>3. WaitInv'
  BY DEF IInv, WaitInv, Bail, OutputStalled
<1>4. DeliveredInOrder' /\ OverflowWithinHeld' /\ SentInOrder'
  BY DEF IInv, DeliveredInOrder, OverflowWithinHeld, SentInOrder
<1>5. EofOnlyAtTheEnd' /\ ReadCountHonest' /\ NeedFlagsMatchCall' /\ PausesAreFlagged'
  BY DEF IInv, EofOnlyAtTheEnd, ReadCountHonest, NeedFlagsMatchCall, PausesAreFlagged
<1> QED
  BY <1>1, <1>2, <1>3, <1>4, <1>5 DEF IInv

\* Every step keeps it.
LEMMA NextInv == IInv /\ [Next]_vars => IInv'
<1> SUFFICES ASSUME IInv, Next PROVE IInv'
  BY StutterInv
<1>1. TypeOK /\ CurlInv
  BY DEF IInv
<1> QED
  BY <1>1, NextShape, ConfigureStep, ReadStep, WriteStep, WriteAfterGoalStep,
     CloseOutputStep, ResetStep, LockedOutStep, GoesStep, LeavesStep, ReceiveStep,
     PullStep, HeaderEndStep, HoldMoreStep, StatusLineStep, EndStep, SignalStep

\* The inductive invariant holds throughout.
LEMMA Invariance == Spec => []IInv
BY InitInv, NextInv, PTL DEF Spec

-----------------------------------------------------------------------------
(* What single-byte reads and short writes return, from the invariant above. *)

\* A single-byte read that has its byte keeps it in readOffset.
SingleInv ==
    /\ call = "read" /\ ~buf /\ countToRead = 0 => readOffset = Body[Len(delivered)]
    /\ SingleByteIsNext

\* A write finds its direction paused only when it is done or no more can be sent.
ShortInv ==
    /\ call = "write" /\ "SEND_PAUSED" \in state =>
          countToWrite = 0 \/ ~uploading \/ "DONE_SENDING" \in state
    /\ ShortWriteOnlyAtTheEnd

\* A call that begins has no result yet; one that is turned away has another name or an
\* exception.
LEMMA CallerResults ==
    ASSUME IInv, SingleInv, ShortInv,
           \/ \E i, o, r \in BOOLEAN, g \in Goals : Configure(i, o, g, r)
           \/ \E n \in 0..MaxCount, b \in BOOLEAN, o \in 0..1 : Read(n, b, o)
           \/ \E n \in 0..MaxCount, b \in BOOLEAN : Write(n, b)
           \/ WriteAfterGoal \/ CloseOutput \/ Reset \/ LockedOut
    PROVE  SingleInv' /\ ShortInv'
<1>1. CASE \E i, o, r \in BOOLEAN, g \in Goals : Configure(i, o, g, r)
  <2>1. call' \in {call, "configure"} /\ call = "none" /\ last'.call \in {"none", "configure"}
    BY <1>1 DEF Configure, CanEnter, NoResult, Result
  <2> QED
    BY <2>1 DEF SingleInv, SingleByteIsNext, ShortInv, ShortWriteOnlyAtTheEnd
<1>2. CASE \E n \in 0..MaxCount, b \in BOOLEAN, o \in 0..1 : Read(n, b, o)
  <2>1. /\ call' = "read" /\ last'.call = "none" /\ (~buf' => countToRead' = 1)
    BY <1>2 DEF Read, EnterCurl, NoResult
  <2> QED
    BY <2>1 DEF SingleInv, SingleByteIsNext, ShortInv, ShortWriteOnlyAtTheEnd
<1>3. CASE \E n \in 0..MaxCount, b \in BOOLEAN : Write(n, b)
  <2>1. call' = "write" /\ last'.call = "none" /\ "SEND_PAUSED" \notin state'
    BY <1>3 DEF Write, EnterCurl, NoResult, With
  <2> QED
    BY <2>1 DEF SingleInv, SingleByteIsNext, ShortInv, ShortWriteOnlyAtTheEnd
<1>4. CASE WriteAfterGoal \/ CloseOutput \/ Reset \/ LockedOut
  <2>1. /\ call' \in {"none", "closeOutput"} /\ last'.call \in {"none", "write", "any"}
        /\ last'.call = "write" => last'.exc = "closed"
    BY <1>4 DEF WriteAfterGoal, CloseOutput, Reset, LockedOut, CanEnter, EnterCurl, NoResult,
                Result
  <2> QED
    BY <2>1 DEF SingleInv, SingleByteIsNext, ShortInv, ShortWriteOnlyAtTheEnd
<1> QED
  BY <1>1, <1>2, <1>3, <1>4

\* The end of a call: a single-byte read hands out readOffset, and a write that stops
\* with bytes left met a pause that ShortInv accounts for.
LEMMA LeavesResults ==
    ASSUME IInv, SingleInv, ShortInv, NEW v \in Int, NEW e \in Exceptions, LeavesWith(v, e)
    PROVE  SingleInv' /\ ShortInv'
<1>1. /\ call' = "none" /\ state' = Released /\ UNCHANGED <<delivered, uploading>>
      /\ last' = Result(call, v, e, Len(delivered) - base)
      /\ running' => running
  BY DEF LeavesWith, Leave, histVars
<1>2. /\ last'.call = call /\ last'.val = v /\ last'.exc = e /\ last'.buf = buf
      /\ last'.got = Len(delivered) - base /\ last'.intr = interrupted /\ last'.count = count
  BY <1>1 DEF Result
<1>3. /\ countToRead \in Nat /\ countToWrite \in Nat /\ count \in Nat
  BY BoundAssumption DEF IInv, TypeOK, CtrlType, CallType
<1>4. SingleByteIsNext'
  <2>1. SUFFICES ASSUME call = "read", ~buf, e = "none", Len(delivered) - base = 1
                 PROVE  v = Body[Len(delivered)]
    BY <1>1, <1>2 DEF SingleByteIsNext
  <2>2. count = 1 /\ countToRead = 0
    BY <1>3, <2>1 DEF IInv, ReadInv
  <2>3. v = readOffset
    BY <2>1, <2>2 DEF LeavesWith, ReadCount
  <2> QED
    BY <2>1, <2>2, <2>3 DEF SingleInv
<1>5. ShortWriteOnlyAtTheEnd'
  <2>1. SUFFICES ASSUME call = "write", e = "none", ~interrupted, running, uploading,
                        "DONE_SENDING" \notin state
                 PROVE  v = count
    BY <1>1, <1>2 DEF ShortWriteOnlyAtTheEnd, Released, With
  <2>2. v = count - countToWrite /\ (countToWrite = 0 \/ Bail)
    BY <2>1 DEF LeavesWith
  <2>3. ASSUME Bail PROVE countToWrite = 0
    <3>1. "NEED_OUTPUT" \in state /\ "NEED_INPUT" \notin state
      BY <2>1 DEF IInv, NeedFlagsMatchCall
    <3>2. "SEND_PAUSED" \in state
      BY <2>1, <2>3, <3>1 DEF Bail, OutputStalled
    <3> QED
      BY <2>1, <3>2 DEF ShortInv
  <2> QED
    BY <1>3, <2>2, <2>3
<1> QED
  BY <1>1, <1>4, <1>5 DEF SingleInv, ShortInv

\* A byte is copied into readOffset as it is counted.
LEMMA ReceiveResults ==
    ASSUME IInv, SingleInv, ShortInv, NEW k \in 1..MaxChunk, Deliver(k) \/ Redeliver(k)
    PROVE  SingleInv' /\ ShortInv'
<1>1. ReceiveCallback(k) /\ pc # "idle"
  BY ReceiveShape DEF IInv
<1>2. ReceiveRest /\ (Kept(k) \/ Dropped(k) \/ Aborted \/ \E n \in Nat \ {0} : Copied(k, n))
  BY <1>1, ReceiveCases DEF IInv
<1>3. call # "none" /\ last = NoResult /\ last' = last /\ call' = call /\ buf' = buf
  BY <1>1, <1>2 DEF IInv, FrameInv, ReceiveRest
<1>4. SingleByteIsNext' /\ ShortWriteOnlyAtTheEnd'
  BY <1>3 DEF SingleByteIsNext, ShortWriteOnlyAtTheEnd, NoResult
<1>5. state' \in {state, state \union {"RECV_PAUSED"}}
      /\ UNCHANGED <<countToWrite, uploading>>
  BY <1>2 DEF ReceiveRest, Kept, Dropped, Aborted, Copied
<1>6. ShortInv'
  BY <1>3, <1>4, <1>5 DEF ShortInv
<1>7. SingleInv'
  <2>1. SUFFICES ASSUME call = "read", ~buf, countToRead' = 0
                 PROVE  readOffset' = Body[Len(delivered')]
    BY <1>3, <1>4 DEF SingleInv
  <2>2. CASE Untouched
    BY <2>1, <2>2 DEF Untouched, SingleInv
  <2>3. CASE \E n \in Nat \ {0} : Copied(k, n)
    <3>1. PICK n \in Nat \ {0} : Copied(k, n)
      BY <2>3
    <3>2. /\ n = 1 /\ readOffset' = Body[consumed + readOverflow + 1]
          /\ delivered' = delivered \o Positions(consumed + readOverflow, n)
          /\ Len(delivered) = consumed + readOverflow
      BY <2>1, <3>1 DEF Copied, IInv, DeliveredInOrder
    <3>3. delivered \in Seq(Nat) /\ consumed + readOverflow \in Nat
      BY DEF IInv, TypeOK, CtrlType, CurlType, HistType
    <3>4. Len(delivered') = Len(delivered) + 1
      BY ONLY <3>2, <3>3, AppendPositions, ZenonT(30)
    <3> QED
      BY <3>2, <3>4
  <2> QED
    BY <1>2, <2>2, <2>3 DEF Kept, Dropped, Aborted
<1> QED
  BY <1>6, <1>7

\* A step that sends nothing and resumes nothing leaves an upload as short as it was.
LEMMA QuietSteps ==
    ASSUME ShortInv, UNCHANGED <<call, last, countToWrite>>,
           uploading' => uploading, running' => running,
           state' \in {state, state \union {"SEEN_HEADER_END"}, state \ {"SEEN_HEADER_END"}}
    PROVE  ShortInv'
<1>1. \A f \in {"SEND_PAUSED", "DONE_SENDING"} : f \in state' <=> f \in state
  OBVIOUS
<1>2. /\ "SEND_PAUSED" \in state' <=> "SEND_PAUSED" \in state
      /\ "DONE_SENDING" \in state' <=> "DONE_SENDING" \in state
  BY <1>1
<1>3. ShortWriteOnlyAtTheEnd'
  BY ONLY ShortInv, UNCHANGED <<call, last, countToWrite>>, uploading' => uploading,
          running' => running, <1>2, Zenon DEF ShortInv, ShortWriteOnlyAtTheEnd
<1> QED
  BY ONLY ShortInv, UNCHANGED <<call, last, countToWrite>>, uploading' => uploading,
          <1>2, <1>3, Zenon DEF ShortInv

\* The other steps of a call leave its result alone, and curl pauses an upload that is
\* out of bytes or ends it.
LEMMA OtherResults ==
    ASSUME IInv, SingleInv, ShortInv,
           \/ \E p \in Pcs : GoesTo(p)
           \/ \E k \in 1..MaxChunk : Pull(k)
           \/ \E loc, fin, stop \in BOOLEAN : HeaderEnd(loc, fin, stop)
           \/ HoldMore \/ StatusLine \/ Complete \/ Fail
           \/ Interrupt \/ ClearInterrupt
    PROVE  SingleInv' /\ ShortInv'
<1>1. UNCHANGED <<call, last, buf, countToRead, readOffset, delivered>>
  BY DEF GoesTo, Goto, Pull, restOfSend, HeaderEnd, HoldMore, StatusLine, restOfHeader, Complete,
         Fail, restOfEnd, Interrupt, ClearInterrupt, restOfInterrupt, scratchVars, frameVars,
         ctrlVars, histVars, engineRest
<1>2. SingleInv'
  BY <1>1 DEF SingleInv, SingleByteIsNext
<1>3. CASE \E k \in 1..MaxChunk : Pull(k)
  <2>1. PICK k \in 1..MaxChunk : Pull(k)
    BY <1>3
  <2>2. pc # "idle" /\ \E n \in Nat : Handed(n)
    BY <2>1, PullCases DEF IInv
  <2>3. PICK n \in Nat : Handed(n)
    BY <2>2
  <2>4. last = NoResult
    BY <2>2 DEF IInv, FrameInv
  <2>5. ShortWriteOnlyAtTheEnd'
    BY <1>1, <2>4 DEF ShortWriteOnlyAtTheEnd, NoResult
  <2>6. countToWrite = 0 => countToWrite' = 0
    BY <2>3, BoundAssumption DEF Handed, IInv, TypeOK, CtrlType
  <2>7. /\ state' = state \/ ~uploading' \/ countToWrite' = 0
        /\ state \subseteq state'
    BY <2>3, <2>6 DEF Handed
  <2>8. uploading
    BY <2>1 DEF Pull
  <2> QED
    BY <1>1, <1>2, <2>5, <2>6, <2>7, <2>8 DEF ShortInv
<1>4. CASE \E loc, fin, stop \in BOOLEAN : HeaderEnd(loc, fin, stop)
  <2>1. /\ UNCHANGED <<countToWrite, running>> /\ (uploading' => uploading)
        /\ state' = state \union {"SEEN_HEADER_END"}
    BY <1>4 DEF HeaderEnd, restOfHeader, scratchVars, With
  <2> QED
    BY <1>1, <1>2, <2>1, QuietSteps
<1>5. CASE StatusLine
  <2>1. /\ UNCHANGED <<countToWrite, running, uploading>>
        /\ state' = state \ {"SEEN_HEADER_END"}
    BY <1>5 DEF StatusLine, restOfHeader, scratchVars, With
  <2> QED
    BY <1>1, <1>2, <2>1, QuietSteps
<1>6. CASE \/ \E p \in Pcs : GoesTo(p)
           \/ HoldMore \/ Complete \/ Fail \/ Interrupt \/ ClearInterrupt
  <2>1. UNCHANGED <<countToWrite, uploading, state>> /\ (running' = running \/ running' = FALSE)
    BY <1>6 DEF GoesTo, Goto, HoldMore, Complete, Fail, restOfEnd, Interrupt, ClearInterrupt,
         restOfInterrupt, scratchVars, ctrlVars, curlVars, engineRest
  <2>2. UNCHANGED <<call, last, countToWrite>> /\ (uploading' => uploading) /\ (running' => running)
    BY ONLY <1>1, <2>1
  <2>3. ShortInv'
    BY <2>1, <2>2, QuietSteps
  <2> QED
    BY <1>2, <2>3
<1> QED
  BY <1>2, <1>3, <1>4, <1>5, <1>6

\* Every reachable state keeps the two invariants of the results.
LEMMA ResultsInvariant == Spec => [](SingleInv /\ ShortInv)
<1>1. Init => SingleInv /\ ShortInv
  BY DEF Init, SingleInv, SingleByteIsNext, ShortInv, ShortWriteOnlyAtTheEnd, NoResult
<1>2. IInv /\ SingleInv /\ ShortInv /\ [Next]_vars => (SingleInv /\ ShortInv)'
  <2>1. SUFFICES ASSUME IInv, SingleInv, ShortInv, [Next]_vars PROVE SingleInv' /\ ShortInv'
    OBVIOUS
  <2>2. CASE Next
    <3>1. TypeOK /\ CurlInv
      BY <2>1 DEF IInv
    <3> QED
      BY <2>1, <2>2, <3>1, NextShape, CallerResults, LeavesResults, ReceiveResults, OtherResults
  <2>3. CASE UNCHANGED vars
    BY <2>1, <2>3 DEF vars, ctrlVars, frameVars, curlVars, histVars, SingleInv, SingleByteIsNext,
                      ShortInv, ShortWriteOnlyAtTheEnd
  <2> QED
    BY <2>1, <2>2, <2>3
<1> QED
  BY <1>1, <1>2, Invariance, PTL DEF Spec

-----------------------------------------------------------------------------
(* The theorems *)

\* No counter of struct curl_data underflows and every variable keeps its type,
\* for any body, chunk size, count and upload goal.
THEOREM TypeCorrect == Spec => []TypeOK
<1>1. IInv => TypeOK
  BY DEF IInv
<1> QED
  BY <1>1, Invariance, PTL

\* write_callback hands out the response body byte after byte, none lost and none
\* twice, whatever chunks curl cuts and however often it repeats one after a pause.
THEOREM Delivery == Spec => [](DeliveredInOrder /\ OverflowWithinHeld)
<1>1. IInv => DeliveredInOrder /\ OverflowWithinHeld
  BY DEF IInv
<1> QED
  BY <1>1, Invariance, PTL

\* read_callback takes the bytes of successive write() calls in order, none twice.
THEOREM Sending == Spec => []SentInOrder
<1>1. IInv => SentInOrder
  BY DEF IInv
<1> QED
  BY <1>1, Invariance, PTL

\* read() reports the end only of a transfer that is over and of which it got nothing.
THEOREM HonestEnd == Spec => []EofOnlyAtTheEnd
<1>1. IInv => EofOnlyAtTheEnd
  BY DEF IInv
<1> QED
  BY <1>1, Invariance, PTL

\* read() into an array reports exactly the number of bytes that write_callback stored.
THEOREM HonestReads == Spec => []ReadCountHonest
<1>1. IInv => ReadCountHonest
  BY DEF IInv
<1> QED
  BY <1>1, Invariance, PTL

\* read() without an array returns the byte of the body that follows all those
\* delivered before it.
THEOREM SingleBytes == Spec => []SingleByteIsNext
<1>1. SingleInv => SingleByteIsNext
  BY DEF SingleInv
<1> QED
  BY <1>1, ResultsInvariant, PTL

\* write() gives up bytes only of an upload that is over, however curl pauses it.
THEOREM HonestWrites == Spec => []ShortWriteOnlyAtTheEnd
<1>1. ShortInv => ShortWriteOnlyAtTheEnd
  BY DEF ShortInv
<1> QED
  BY <1>1, ResultsInvariant, PTL

\* The NEED flags of struct curl_data tell which call is in progress.
THEOREM HonestFlags == Spec => []NeedFlagsMatchCall
<1>1. IInv => NeedFlagsMatchCall
  BY DEF IInv
<1> QED
  BY <1>1, Invariance, PTL

\* A direction that curl has paused has its PAUSED flag, for the next call to look at.
THEOREM NoPauseForgotten == Spec => []PausesAreFlagged
<1>1. IInv => PausesAreFlagged
  BY DEF IInv
<1> QED
  BY <1>1, Invariance, PTL

\* configure, read and closeOutput never wait on a transfer that only they could
\* unpause: whenever curl is stuck, the flags make curlPerform return.
THEOREM NoSelfDeadlock == Spec => []NoWaitOnPausedTransfer
<1>1. IInv => NoWaitOnPausedTransfer
  <2> SUFFICES ASSUME IInv, pc = "wait", call # "write", recvPaused PROVE FALSE
    BY DEF NoWaitOnPausedTransfer, CurlStuck
  <2>1. "RECV_PAUSED" \in state /\ ~Bail /\ call # "none"
    BY DEF IInv, PausesAreFlagged, WaitInv, FrameInv
  <2>2. call \in {"configure", "read", "closeOutput"}
    BY <2>1 DEF IInv, TypeOK, CallType, Calls
  <2> QED
    BY <2>1, <2>2 DEF IInv, NeedFlagsMatchCall, WaitInv, Bail, OutputStalled
<1> QED
  BY <1>1, Invariance, PTL
=============================================================================
