------------------------------ MODULE Transfer ------------------------------
(***************************************************************************)
(* The native transfer engine of ONE curl handle: the fields of struct     *)
(* curl_data that steer a transfer, the calls configure, read, write,      *)
(* closeOutput and reset, the loop of curlPerform, and the callbacks       *)
(* libcurl makes into native-lib.c while that loop runs.                   *)
(*                                                                         *)
(* A call takes several steps (pc); another thread may interrupt it at any *)
(* of them and libcurl chooses which callbacks to make, and with how much  *)
(* data.  Bytes are told apart by their position: `delivered' records the  *)
(* positions of the response body copied to the caller, `sent' those of    *)
(* the request body that libcurl took.  libcurl, the server and the        *)
(* Interruption helper are external and modelled from how native-lib.c     *)
(* uses them.                                                              *)
(***************************************************************************)
EXTENDS Integers, Sequences

CONSTANTS
    Body,          \* the response body the server may send, as signed chars
    MaxChunk,      \* the largest chunk libcurl hands to, or asks of, a callback
    MaxCount,      \* the largest count passed to read and write
    MaxOffered,    \* bound on the request bytes the caller offers per transfer
    Modes,         \* the pairs <<doInput, doOutput>> configure is called with
    Goals,         \* values of fixedLength; the code stores -1 (unknown) as 2^64 - 1,
                   \* for which any number above MaxOffered can stand
    MaxResponses   \* bound on the status lines of one transfer (100, 3xx, final)

ASSUME BodyAssumption == Body \in Seq(-128..127)
ASSUME BoundAssumption ==
    /\ MaxChunk \in Nat \ {0} /\ MaxCount \in Nat \ {0}
    /\ MaxOffered \in Nat /\ MaxResponses \in Nat
    /\ Goals \subseteq Nat /\ Modes \subseteq BOOLEAN \X BOOLEAN

VARIABLES
    \* struct curl_data
    state,          \* the STATE_* flags that are set
    busy,           \* the try-lock word
    readOverflow, uploadedCount, uploadGoal,
    readOffset, countToRead, writeOffset, countToWrite,  \* dead between calls:
                    \* each call sets those that matter to it before curl runs
    readFn, writeFn,     \* the callbacks installed with curl_easy_setopt
    \* the native call in progress
    call, pc,
    count, buf, off,     \* its arguments; buf = FALSE stands for a NULL array
    base,                \* Len(delivered) when the call started
    interrupted,         \* *ctrl->interrupted
    last,                \* what the latest call returned or threw
    \* libcurl and the server
    running, msg, recvPaused, sendPaused, held, consumed, uploading,
    upload,              \* CURLOPT_UPLOAD: the request has a body
    headers, location, final, responses,
    \* history of the transfer
    delivered, sent, offered

ctrlVars == <<state, busy, readOffset, countToRead, readOverflow, writeOffset,
              countToWrite, uploadedCount, uploadGoal, readFn, writeFn>>
frameVars == <<count, buf, off, base>>
recvVars == <<recvPaused, held, consumed>>
respVars == <<headers, location, final, responses>>
curlVars == <<running, msg, sendPaused, uploading, upload, recvVars, respVars>>
histVars == <<delivered, sent, offered>>

vars == <<ctrlVars, call, pc, frameVars, interrupted, last, curlVars, histVars>>

-----------------------------------------------------------------------------
Flags == {"ATTACHED", "HANDLE_REDIRECT", "DO_INPUT", "RECV_PAUSED", "DO_OUTPUT",
          "SEND_PAUSED", "NEED_INPUT", "NEED_OUTPUT", "DONE_SENDING",
          "SEEN_HEADER_END"}

Calls == {"none", "configure", "read", "write", "closeOutput"}

\* connect, perform: inside curl_multi_perform; unpause: inside
\* curl_easy_pause; entered: past it; loop, check, wait: inside curlPerform
Pcs == {"idle", "unpause", "entered", "connect", "loop", "perform", "check", "wait"}

Exceptions == {"none", "io", "connectTimeout", "readTimeout", "closed", "threading"}

Callbacks == {"read", "eof", "write", "skip", "abort"}

Least(a, b) == IF a < b THEN a ELSE b
Greatest(a, b) == IF a > b THEN a ELSE b

\* n consecutive positions after p
Positions(p, n) == [i \in 1..n |-> p + i]

\* state with the flags of `on' set and those of `offs' cleared
With(on, offs) == (state \ offs) \union on

\* one step of several calls to curl_easy_setopt with a boolean argument
When(flag, cond) == IF cond THEN {flag} ELSE {}

\* what a call gives its caller: the value, the exception pending, and, for the
\* properties, how many bytes it delivered and whether it was interrupted
Result(name, val, exc, n) ==
    [call |-> name, val |-> val, exc |-> exc, got |-> n, intr |-> interrupted,
     count |-> count, buf |-> buf, off |-> off]

NoResult == [call |-> "none", val |-> 0, exc |-> "none", got |-> 0, intr |-> FALSE,
             count |-> 0, buf |-> TRUE, off |-> 0]

-----------------------------------------------------------------------------
(* nativeCreate: memset to 0, default callbacks, a transfer not yet added *)
Init ==
    /\ state = {} /\ busy = FALSE
    /\ readOffset = 0 /\ countToRead = 0 /\ readOverflow = 0
    /\ writeOffset = 0 /\ countToWrite = 0 /\ uploadedCount = 0 /\ uploadGoal = 0
    /\ readFn = "read" /\ writeFn = "write"
    /\ call = "none" /\ pc = "idle"
    /\ count = 0 /\ buf = TRUE /\ off = 0 /\ base = 0
    /\ interrupted = FALSE
    /\ last = NoResult
    /\ running = FALSE /\ msg = "none"
    /\ recvPaused = FALSE /\ sendPaused = FALSE /\ held = 0 /\ consumed = 0
    /\ uploading = FALSE /\ upload = FALSE
    /\ headers = FALSE /\ location = FALSE /\ final = FALSE /\ responses = 0
    /\ delivered = <<>> /\ sent = <<>> /\ offered = 0

-----------------------------------------------------------------------------
(* The ways a call ends. *)

\* mutant: only read() clears its flag
ReleasedInputOnly == With({}, {"NEED_INPUT"})

\* read() ends with SET_NEED_NO_INPUT (1368), write and closeOutput with
\* SET_NEED_NO_OUTPUT (1428, 1473); the flag of the other direction is clear then
Released == With({}, {"NEED_INPUT", "NEED_OUTPUT"})

\* the flags, RELEASE(busy), and the value handed to the caller
Leave(val, exc) ==
    /\ call' = "none" /\ pc' = "idle"
    /\ busy' = FALSE
    /\ state' = Released
    /\ last' = Result(call, val, exc, Len(delivered) - base)
    /\ count' = 0 /\ buf' = TRUE /\ off' = 0 /\ base' = 0
    /\ readOffset' = 0 /\ countToRead' = 0 /\ writeOffset' = 0 /\ countToWrite' = 0

\* mutant: the end offset instead of the count
ReadCountEndOffset == readOffset

\* mutant: the single-byte read returns a count too
ReadCountAlways == count - countToRead

\* retVal at the label success of read()
ReadCount == IF count = 1 THEN readOffset ELSE count - countToRead

\* mutant: any read that got nothing counts as the end
NothingRead(perform) == countToRead > 0 /\ countToRead = count

\* read() reports the end of the stream
AtEnd(perform) == perform /\ ~interrupted /\ countToRead > 0 /\ countToRead = count

\* what a call returns once curlPerform (result `perform') is over
ReturnValue(perform) ==
    CASE call = "read" -> IF AtEnd(perform) THEN -1 ELSE ReadCount
      [] call = "write" -> count - countToWrite
      [] OTHER -> 0

LeavePerform(perform, exc) == Leave(ReturnValue(perform), exc)

scratchVars == <<readOffset, countToRead, writeOffset, countToWrite>>
restOfCtrl == <<readOverflow, uploadedCount, uploadGoal, readFn, writeFn>>

-----------------------------------------------------------------------------
(* The calls, up to the point where they enter curl. *)

CanEnter == call = "none" /\ ~busy

\* ACQUIRE fails: the call throws and touches nothing.  With one caller at a
\* time this happens only when an earlier call kept the lock.
LockedOut ==
    /\ call = "none" /\ busy
    /\ last' = Result("any", -1, "threading", 0)
    /\ UNCHANGED <<ctrlVars, call, pc, frameVars, interrupted, curlVars, histVars>>

\* the options nativeConfigure stores: flags, uploadGoal and callbacks
SetOptions(doInput, doOutput, goal, follow) ==
    /\ state' = With({"ATTACHED"} \union When("HANDLE_REDIRECT", follow)
                        \union When("DO_INPUT", doInput)
                        \union When("DO_OUTPUT", doOutput /\ goal # 0),
                     {"HANDLE_REDIRECT", "DO_INPUT", "DO_OUTPUT"})
    /\ uploadGoal' = IF doOutput THEN goal ELSE 0
    /\ writeFn' = IF doInput THEN "write" ELSE IF doOutput THEN "skip" ELSE "abort"
    /\ readFn' = IF doOutput THEN "read" ELSE readFn

\* curl_multi_add_handle, only for a handle that is not ATTACHED yet
Attach(doOutput) ==
    IF "ATTACHED" \in state
      THEN UNCHANGED <<running, uploading>>
      ELSE running' = TRUE /\ uploading' = doOutput

\* nativeConfigure up to the first curl_multi_perform.  A handle configured
\* again without reset is given the directions it already has.
Configure(doInput, doOutput, goal, follow) ==
    /\ CanEnter
    /\ "ATTACHED" \in state =>
          /\ doInput = ("DO_INPUT" \in state)
          /\ doOutput = upload
          /\ goal = uploadGoal
    /\ SetOptions(doInput, doOutput, goal, follow)
    /\ Attach(doOutput)
    /\ upload' = doOutput
    /\ countToRead' = 0 /\ countToWrite' = 0
    /\ IF interrupted
         THEN /\ last' = Result("configure", 0, "none", 0)
              /\ UNCHANGED <<busy, call, pc, base>>
         ELSE /\ busy' = TRUE /\ call' = "configure" /\ pc' = "connect"
              /\ base' = Len(delivered)
              /\ last' = NoResult
    /\ UNCHANGED <<readOffset, readOverflow, writeOffset, uploadedCount, count, buf,
                   off, interrupted, msg, sendPaused, recvVars, respVars, histVars>>

\* curl_easy_pause(CURLPAUSE_*_CONT): the argument 0 unpauses both directions
EnterCurl(name, paused) ==
    /\ call' = name /\ busy' = TRUE /\ base' = Len(delivered) /\ last' = NoResult
    /\ pc' = IF paused \in state THEN "unpause" ELSE "entered"
    /\ recvPaused' = (recvPaused /\ paused \notin state)
    /\ sendPaused' = (sendPaused /\ paused \notin state)
    /\ UNCHANGED <<interrupted, running, msg, uploading, upload, held,
                   consumed, respVars>>

\* read(buf, off, count); a NULL buffer reads a single byte
Read(n, b, o) ==
    /\ CanEnter
    /\ b \/ (n = 1 /\ o = 0)
    /\ state' = With({"NEED_INPUT"}, {"RECV_PAUSED"})
    /\ readOffset' = o /\ countToRead' = n /\ countToWrite' = 0
    /\ count' = n /\ buf' = b /\ off' = o
    /\ EnterCurl("read", "RECV_PAUSED")
    /\ UNCHANGED <<readOverflow, writeOffset, uploadedCount, uploadGoal, readFn,
                   writeFn, histVars>>

\* the upload goal is known and reached
GoalReached == uploadGoal > 0 /\ uploadedCount >= uploadGoal

\* write(buf, off, count): the bytes offered are positions offered + 1 .. + n
Write(n, b) ==
    /\ CanEnter /\ ~GoalReached
    /\ b \/ n = 1
    /\ offered + n <= MaxOffered
    /\ state' = With({"NEED_OUTPUT"}, {"SEND_PAUSED"})
    /\ writeOffset' = offered /\ countToWrite' = n /\ countToRead' = 0
    /\ count' = n /\ buf' = b /\ off' = 0
    /\ offered' = offered + n
    /\ EnterCurl("write", "SEND_PAUSED")
    /\ UNCHANGED <<readOffset, readOverflow, uploadedCount, uploadGoal, readFn,
                   writeFn, delivered, sent>>

\* write() after the goal: ERROR_CLOSED is thrown and busy is not released
WriteAfterGoal ==
    /\ CanEnter /\ GoalReached
    /\ busy' = TRUE
    /\ last' = Result("write", -1, "closed", 0)
    /\ UNCHANGED <<state, scratchVars, restOfCtrl, call, pc, frameVars, interrupted, curlVars,
                   histVars>>

CloseOutput ==
    /\ CanEnter
    /\ state' = With({"NEED_OUTPUT", "DONE_SENDING"}, {"SEND_PAUSED"})
    /\ readFn' = "eof"
    /\ countToRead' = 0 /\ countToWrite' = 0
    /\ EnterCurl("closeOutput", "SEND_PAUSED")
    /\ UNCHANGED <<readOffset, readOverflow, writeOffset, uploadedCount, uploadGoal,
                   writeFn, count, buf, off, histVars>>

\* reset(): curl_multi_remove_handle forgets the transfer, and so do the flags
Reset ==
    /\ CanEnter
    /\ state' = {} /\ uploadedCount' = 0 /\ readOverflow' = 0
    /\ running' = FALSE /\ msg' = "none" /\ uploading' = FALSE
    /\ recvPaused' = FALSE /\ sendPaused' = FALSE /\ held' = 0 /\ consumed' = 0
    /\ headers' = FALSE /\ location' = FALSE /\ final' = FALSE /\ responses' = 0
    /\ delivered' = <<>> /\ sent' = <<>> /\ offered' = 0
    /\ last' = NoResult
    /\ UNCHANGED <<busy, readOffset, countToRead, writeOffset, countToWrite,
                   uploadGoal, readFn, writeFn, call, pc, frameVars, interrupted,
                   upload>>
-----------------------------------------------------------------------------
(* The callbacks, and libcurl's part in them. *)

InPerform == pc \in {"connect", "perform"}

Consume(k) ==
    /\ consumed' = consumed + k /\ held' = Greatest(0, held - k)
    /\ UNCHANGED recvPaused

\* mutant: pauses without the flag
PauseRecvUnflagged(k) ==
    /\ recvPaused' = TRUE /\ held' = Greatest(held, k)
    /\ UNCHANGED <<state, consumed>>

\* CURL_READFUNC_PAUSE (the same value as CURL_WRITEFUNC_PAUSE): curl keeps the
\* chunk and offers it again when unpaused
PauseRecv(k) ==
    /\ state' = With({"RECV_PAUSED"}, {})
    /\ recvPaused' = TRUE /\ held' = Greatest(held, k)
    /\ UNCHANGED consumed

\* mutant: copies the bytes the caller has already
PendingFromStart == consumed

\* the position before the first byte the caller has not seen (realData)
PendingFrom == consumed + readOverflow

\* mutant: copies all, whatever room the caller has
CopyAll(k) == k - readOverflow

\* how many bytes of the chunk are copied
CopyLength(k) == IF buf THEN Least(countToRead, k - readOverflow) ELSE 1

\* the chunk is used up
ChunkDone(k, read) == read = k - readOverflow

\* write_callback with a chunk of k bytes, the body's positions consumed + 1 .. + k
WriteCallback(k) ==
    \/ /\ countToRead = 0
       /\ PauseRecv(k)
       /\ UNCHANGED <<readOffset, countToRead, readOverflow, delivered>>
    \/ /\ countToRead > 0 /\ readOverflow >= k
       /\ readOverflow' = readOverflow - k
       /\ Consume(k)
       /\ UNCHANGED <<state, readOffset, countToRead, delivered>>
    \/ /\ countToRead > 0 /\ readOverflow < k
       /\ LET read == CopyLength(k)
          IN /\ delivered' = delivered \o Positions(PendingFrom, read)
             /\ readOffset' = IF buf THEN readOffset + read ELSE Body[PendingFrom + 1]
             /\ countToRead' = countToRead - read
             /\ IF ChunkDone(k, read)
                  THEN readOverflow' = 0 /\ Consume(k) /\ UNCHANGED state
                  ELSE readOverflow' = readOverflow + read /\ PauseRecv(k)

\* the callback installed for received data; abort_receive_callback makes curl
\* end the transfer with CURLE_WRITE_ERROR
ReceiveCallback(k) ==
    /\ CASE writeFn = "write" -> WriteCallback(k) /\ UNCHANGED <<running, msg>>
         [] writeFn = "skip" ->
              /\ Consume(k)
              /\ UNCHANGED <<state, readOffset, countToRead, readOverflow, delivered,
                             running, msg>>
         [] OTHER ->
              /\ running' = FALSE /\ msg' = "writeError"
              /\ UNCHANGED <<state, readOffset, countToRead, readOverflow, delivered,
                             recvVars>>
    /\ UNCHANGED <<busy, writeOffset, countToWrite, uploadedCount, uploadGoal, readFn,
                   writeFn, call, pc, frameVars, interrupted, last, sendPaused,
                   uploading, upload, respVars, sent, offered>>

\* a chunk of the final response's body arrives
Deliver(k) ==
    /\ InPerform /\ running /\ final /\ ~recvPaused
    /\ held = 0 /\ consumed + k <= Len(Body)
    /\ ReceiveCallback(k)

\* curl_easy_pause offers again what it held back, cut differently perhaps
Redeliver(k) ==
    /\ pc = "unpause" /\ running /\ ~recvPaused
    /\ k <= held
    /\ ReceiveCallback(k)

\* more of the body is queued behind what is held (HTTP/2, decompression)
HoldMore ==
    /\ InPerform /\ running /\ recvPaused /\ consumed + held < Len(Body)
    /\ held' = held + 1
    /\ UNCHANGED <<ctrlVars, call, pc, frameVars, interrupted, last, running, msg,
                   sendPaused, uploading, upload, recvPaused, consumed, respVars,
                   histVars>>

restOfSend == <<busy, readOffset, countToRead, readOverflow, uploadGoal, readFn,
                writeFn, call, pc, frameVars, interrupted, last, running, msg, upload,
                recvVars, respVars, delivered, offered>>

\* mutant: sends from the same place again
StuckOffset(written) == writeOffset

\* writeOffset after `written' bytes
NextOffset(written) == IF buf THEN writeOffset + written ELSE writeOffset

\* read_callback with data at hand and room for `cap' bytes
SendBytes(cap) ==
    LET written == IF buf THEN Least(countToWrite, cap) ELSE 1
        uploaded == IF uploadGoal > 0 THEN uploadedCount + written ELSE uploadedCount
        full == uploadGoal > 0 /\ uploaded >= uploadGoal
    IN /\ sent' = sent \o Positions(writeOffset, written)
       /\ writeOffset' = NextOffset(written)
       /\ uploadedCount' = uploaded
       /\ countToWrite' = countToWrite - written
       /\ state' = With(When("SEND_PAUSED", full), {})
       /\ uploading' = ~full    \* curl stops the upload itself
       /\ UNCHANGED sendPaused

\* read_callback and eof_callback: end of data, nothing to send now, or bytes
Pull(cap) ==
    /\ InPerform /\ running /\ uploading /\ ~sendPaused
    /\ \/ /\ readFn = "eof" \/ "DONE_SENDING" \in state
          /\ state' = With({"SEND_PAUSED"}, {})
          /\ uploading' = FALSE
          /\ UNCHANGED <<sendPaused, sent, writeOffset, uploadedCount, countToWrite>>
       \/ /\ readFn = "read" /\ "DONE_SENDING" \notin state /\ countToWrite = 0
          /\ state' = With({"SEND_PAUSED"}, {})
          /\ sendPaused' = TRUE
          /\ UNCHANGED <<uploading, sent, writeOffset, uploadedCount, countToWrite>>
       \/ /\ readFn = "read" /\ "DONE_SENDING" \notin state /\ countToWrite > 0
          /\ SendBytes(cap)
    /\ UNCHANGED restOfSend

restOfHeader == <<busy, scratchVars, restOfCtrl, call, pc, frameVars, interrupted, last,
                  running, msg, sendPaused, upload, recvVars, histVars>>

\* header_callback with a status line: a new response discards the old headers
StatusLine ==
    /\ InPerform /\ running /\ ~final
    /\ ~headers \/ "SEEN_HEADER_END" \in state
    /\ responses < MaxResponses
    /\ state' = With({}, {"SEEN_HEADER_END"})
    /\ headers' = TRUE /\ location' = FALSE /\ responses' = responses + 1
    /\ UNCHANGED <<final, uploading, restOfHeader>>

\* header_callback up to the empty line.  A response that is not the final one
\* is a redirect that curl follows, or an interim 1xx.  At an error status curl
\* stops an upload that is not over (CURLOPT_KEEP_SENDING_ON_ERROR is off by
\* default).
HeaderEnd(loc, fin, stop) ==
    /\ InPerform /\ running /\ headers /\ "SEEN_HEADER_END" \notin state
    /\ fin \/ (responses < MaxResponses /\ (loc => "HANDLE_REDIRECT" \in state))
    /\ stop => fin
    /\ state' = With({"SEEN_HEADER_END"}, {})
    /\ location' = loc /\ final' = fin
    /\ uploading' = (uploading /\ ~stop)
    /\ UNCHANGED <<headers, responses, restOfHeader>>

restOfEnd == <<ctrlVars, call, pc, frameVars, interrupted, last, sendPaused, uploading,
               upload, recvVars, respVars, histVars>>

\* the server ends the response, curl queues CURLMSG_DONE
Complete ==
    /\ InPerform /\ running /\ final /\ ~recvPaused
    /\ running' = FALSE /\ msg' = "ok"
    /\ UNCHANGED restOfEnd

\* the transfer fails
Fail ==
    /\ InPerform /\ running
    /\ running' = FALSE /\ msg' = "error"
    /\ UNCHANGED restOfEnd

-----------------------------------------------------------------------------
(* The steps of a call around and inside curlPerform. *)

engineRest == <<restOfCtrl, interrupted, sendPaused, running, uploading,
                upload, recvVars, respVars, histVars>>

Goto(next) ==
    /\ pc' = next
    /\ UNCHANGED <<state, busy, call, last, msg, scratchVars, frameVars, engineRest>>

\* curl_easy_pause is done when everything held was offered
UnpauseReturns ==
    /\ pc = "unpause" /\ (held = 0 \/ recvPaused \/ ~running)
    /\ Goto("entered")

\* curl_easy_pause reports an error and curl gives up the transfer
UnpauseFails ==
    /\ pc = "unpause"
    /\ Leave(IF call = "write" THEN count - countToWrite ELSE -1, "io")
    /\ running' = FALSE
    /\ UNCHANGED <<restOfCtrl, interrupted, msg, sendPaused, uploading, upload,
                   recvVars, respVars, histVars>>

\* the checks between unpausing and curlPerform
Entered ==
    /\ pc = "entered"
    /\ IF \/ call = "closeOutput" /\ "SEND_PAUSED" \notin state
          \/ call = "read" /\ ~interrupted
          \/ call = "write" /\ ~interrupted /\ countToWrite > 0
         THEN Goto("loop")
         ELSE LeavePerform(FALSE, "none") /\ UNCHANGED <<msg, engineRest>>

\* the top of the loop looks at the interruption flag
LoopTop ==
    /\ pc = "loop"
    /\ IF interrupted
         THEN LeavePerform(FALSE, "none") /\ UNCHANGED <<msg, engineRest>>
         ELSE Goto("perform")

\* handleEasyError: an aborted receive is not an error without DO_INPUT
MsgException ==
    IF msg = "ok" \/ (msg = "writeError" /\ "DO_INPUT" \notin state)
      THEN "none" ELSE "io"

\* checkResult finds the transfer done
ResultReady ==
    /\ msg # "none"
    /\ msg' = "none"
    /\ LeavePerform(TRUE, MsgException)
    /\ UNCHANGED engineRest

\* the first curl_multi_perform, made by nativeConfigure itself
ConnectReturns ==
    /\ pc = "connect"
    /\ IF running \/ msg = "none" THEN Goto("loop") ELSE ResultReady

PerformReturns == pc = "perform" /\ Goto("check")

\* curl_multi_perform reports an error
MultiError ==
    /\ InPerform
    /\ LeavePerform(TRUE, "io")
    /\ UNCHANGED <<msg, engineRest>>

\* mutant: write gives up as soon as the download is paused
StalledByAnyPause == "SEND_PAUSED" \in state \/ "RECV_PAUSED" \in state

\* mutant: closeOutput does not mind a paused download
StalledBySendOnly == "SEND_PAUSED" \in state

\* the caller that needs output can get no further now
OutputStalled ==
    \/ "SEND_PAUSED" \in state
    \/ "RECV_PAUSED" \in state /\ "DONE_SENDING" \in state

\* nothing to do for now: the direction the caller needs is paused
Bail ==
    \/ "NEED_INPUT" \in state /\ "RECV_PAUSED" \in state
    \/ "NEED_OUTPUT" \in state /\ OutputStalled
    \/ /\ state \intersect {"NEED_INPUT", "NEED_OUTPUT"} = {}
       /\ \/ state \intersect {"SEND_PAUSED", "RECV_PAUSED"} # {}
          \/ /\ "SEEN_HEADER_END" \in state
             /\ "HANDLE_REDIRECT" \notin state \/ ~location

\* after curl_multi_perform
Check ==
    /\ pc = "check"
    /\ \/ ResultReady
       \/ /\ msg = "none" /\ Bail
          /\ LeavePerform(FALSE, "none") /\ UNCHANGED <<msg, engineRest>>
       \/ /\ msg = "none" /\ ~Bail /\ ~running
          /\ LeavePerform(TRUE, "none") /\ UNCHANGED <<msg, engineRest>>
       \/ /\ msg = "none" /\ ~Bail /\ running /\ interrupted
          /\ LeavePerform(FALSE, "none") /\ UNCHANGED <<msg, engineRest>>
       \/ /\ msg = "none" /\ ~Bail /\ running /\ ~interrupted
          /\ Goto("wait")

\* curl_multi_wait returns before the timeout
WaitReturns == pc = "wait" /\ Goto("loop")

\* no event until the timeout; throwTimeout tells the phases apart
TimesOut ==
    /\ pc = "wait"
    /\ LeavePerform(TRUE, IF headers THEN "readTimeout" ELSE "connectTimeout")
    /\ UNCHANGED <<msg, engineRest>>

\* curl_multi_wait reports an error
WaitFails ==
    /\ pc = "wait"
    /\ LeavePerform(TRUE, "io")
    /\ UNCHANGED <<msg, engineRest>>

-----------------------------------------------------------------------------
restOfInterrupt == <<ctrlVars, call, pc, frameVars, last, curlVars, histVars>>

\* interruption_handler, on behalf of another thread
Interrupt == ~interrupted /\ interrupted' = TRUE /\ UNCHANGED restOfInterrupt

\* between calls: Thread.interrupted() in i10nCheck
ClearInterrupt ==
    /\ call = "none" /\ interrupted
    /\ interrupted' = FALSE /\ UNCHANGED restOfInterrupt

Caller ==
    \/ \E m \in Modes, g \in Goals, r \in BOOLEAN : Configure(m[1], m[2], g, r)
    \/ \E n \in 0..MaxCount, b \in BOOLEAN, o \in 0..1 : Read(n, b, o)
    \/ \E n \in 0..MaxCount, b \in BOOLEAN : Write(n, b)
    \/ WriteAfterGoal \/ CloseOutput \/ Reset \/ LockedOut

Engine ==
    \/ UnpauseReturns \/ Entered \/ LoopTop \/ ConnectReturns \/ PerformReturns
    \/ Check \/ WaitReturns

Curl ==
    \/ \E k \in 1..MaxChunk : Deliver(k) \/ Redeliver(k) \/ Pull(k)
    \/ \E loc, fin, stop \in BOOLEAN : HeaderEnd(loc, fin, stop)
    \/ HoldMore \/ StatusLine \/ Complete

Faults == Fail \/ UnpauseFails \/ MultiError \/ TimesOut \/ WaitFails

Signals == Interrupt \/ ClearInterrupt

Next == Caller \/ Engine \/ Curl \/ Faults \/ Signals

Spec == Init /\ [][Next]_vars

\* no errors, timeouts or interruptions
CalmSpec == Init /\ [][Caller \/ Engine \/ Curl]_vars
-----------------------------------------------------------------------------
(* Properties *)

ResultType ==
    [call : Calls \union {"any"}, val : Int, exc : Exceptions, got : Nat,
     intr : BOOLEAN, count : 0..MaxCount, buf : BOOLEAN, off : 0..1]

CtrlType ==
    /\ state \subseteq Flags /\ busy \in BOOLEAN
    /\ readOffset \in Int /\ countToRead \in 0..MaxCount /\ readOverflow \in Nat
    /\ writeOffset \in Nat /\ countToWrite \in 0..MaxCount
    /\ uploadedCount \in Nat /\ uploadGoal \in Nat
    /\ readFn \in Callbacks /\ writeFn \in Callbacks

CallType ==
    /\ call \in Calls /\ pc \in Pcs
    /\ count \in 0..MaxCount /\ buf \in BOOLEAN /\ off \in 0..1 /\ base \in Nat
    /\ interrupted \in BOOLEAN /\ last \in ResultType

CurlType ==
    /\ running \in BOOLEAN /\ msg \in {"none", "ok", "error", "writeError"}
    /\ recvPaused \in BOOLEAN /\ sendPaused \in BOOLEAN
    /\ held \in Nat /\ consumed \in Nat
    /\ uploading \in BOOLEAN /\ upload \in BOOLEAN
    /\ headers \in BOOLEAN /\ location \in BOOLEAN /\ final \in BOOLEAN
    /\ responses \in Nat

HistType == delivered \in Seq(Nat) /\ sent \in Seq(Nat) /\ offered \in Nat

\* Every variable stays in its type; the counters of struct curl_data never go
\* below zero.
TypeOK == CtrlType /\ CallType /\ CurlType /\ HistType

\* write_callback copies the body to the caller in order, each byte once,
\* however curl cuts the chunks and however often it offers one again: the
\* positions delivered are 1, 2, 3, ..., and readOverflow is exactly what was
\* delivered of the data curl still holds.
DeliveredInOrder ==
    writeFn = "write" =>
        /\ Len(delivered) = consumed + readOverflow
        /\ \A i \in 1..Len(delivered) : delivered[i] = i

\* The debt recorded in readOverflow always lies within the chunk curl holds,
\* so write_callback skips bytes only of data it has seen before.
OverflowWithinHeld == readOverflow = 0 \/ readOverflow < held

\* read_callback hands out the bytes of successive writes in order and none of
\* them twice.
SentInOrder ==
    /\ \A i, j \in 1..Len(sent) : i < j => sent[i] < sent[j]
    /\ \A i \in 1..Len(sent) : sent[i] <= offered

\* A read into an array that returns -1 without an exception has met the end:
\* the transfer is over, this read got nothing, and nothing that curl accepted
\* as delivered is missing.
EofOnlyAtTheEnd ==
    last.call = "read" /\ last.buf /\ last.exc = "none" /\ last.val = -1 =>
        /\ ~running /\ last.got = 0
        /\ writeFn = "write" => Len(delivered) >= consumed

\* The count a read into an array reports is the number of bytes it delivered.
\* (read() of exactly one byte at an offset other than 0 is left out: there the
\* code returns the end offset, see the README.)
ReadCountHonest ==
    /\ last.call = "read" /\ last.buf /\ last.exc = "none" /\ last.val # -1
    /\ last.count = 1 => last.off = 0
    => last.val = last.got

\* A write that comes back short, neither interrupted nor with an exception,
\* means curl takes no more of this request (or closeOutput came first): no byte
\* is dropped from the middle of an upload that goes on.
ShortWriteOnlyAtTheEnd ==
    /\ last.call = "write" /\ last.exc = "none" /\ ~last.intr
    /\ running /\ uploading /\ "DONE_SENDING" \notin state
    => last.val = last.count

\* The flags that tell curlPerform what its caller waits for are set during
\* that call only, on every path out of it.
NeedFlagsMatchCall ==
    /\ "NEED_INPUT" \in state <=> call = "read"
    /\ "NEED_OUTPUT" \in state <=> call \in {"write", "closeOutput"}

\* A direction curl has paused is flagged as paused, so that the next call in
\* that direction unpauses it.
PausesAreFlagged ==
    /\ recvPaused => "RECV_PAUSED" \in state
    /\ sendPaused => "SEND_PAUSED" \in state

\* curl can take no step until someone unpauses it
CurlStuck == recvPaused /\ (sendPaused \/ ~uploading)

\* configure, read and closeOutput never wait for a transfer that is paused in
\* every direction it has left: nothing but the timeout would end that wait.
NoWaitOnPausedTransfer == pc = "wait" /\ call # "write" => ~CurlStuck

\* KNOWN_ISSUES.txt, 5: an early response with a body that leaves the upload
\* "indefinitely blocked, waiting for download" is listed as fixed, so write
\* should not wait on a paused transfer either.
WriteNotBlockedByDownload == pc = "wait" /\ call = "write" => ~CurlStuck

\* The single-byte read() returns the byte that comes next in the body, as a signed
\* number: only a byte of 0xFF looks like the end of the stream.
SingleByteIsNext ==
    call = "none" /\ last.call = "read" /\ ~last.buf /\ last.exc = "none" /\ last.got = 1
    => last.val = Body[Len(delivered)]

\* The fairness of a peer that goes on talking: each engine step is taken, and
\* what curl can do again and again at successive curl_multi_perform calls
\* (headers, data, end of the response) happens.
Fairness ==
    /\ WF_vars(Engine)
    /\ SF_vars(StatusLine) /\ SF_vars(\E loc, stop \in BOOLEAN : HeaderEnd(loc, TRUE, stop))
    /\ WF_vars(\E k \in 1..MaxChunk : Redeliver(k))
    /\ SF_vars(Complete)

FairSpec == Spec /\ Fairness

\* With a peer that ends its response every read, configure and closeOutput
\* comes back, without counting on any timeout.
CallsReturn == call \in {"configure", "read", "closeOutput"} ~> call = "none"
=============================================================================
