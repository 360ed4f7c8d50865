----------------------------- MODULE Connection -----------------------------
(***************************************************************************)
(* CurlConnection and the streams of CurlHttp, used by one thread: what    *)
(* they remember of a response, of the URL and of the native handle, over  *)
(* failed and interrupted connects, resets and new requests.  The native   *)
(* engine is reduced to the transfer that is attached to it, which goes on *)
(* by some of its steps in every native call.  The text of the URL is      *)
(* MutableUrl's.                                                           *)
(*                                                                         *)
(* The time between two resets is a period; streams and responses are told *)
(* apart by theirs.                                                        *)
(***************************************************************************)
EXTENDS Integers

CONSTANTS
    Urls,
    None,
    MaxPeriod       \* bound on the periods

Periods == 1..MaxPeriod

\* a status: nothing yet, an interim response, a redirect with a Location, final ones
Stages == {"none", "100", "302", "200", "404"}

\* stage is the status of the last response, and whole says that its headers have ended
Transfers == [url : Urls, follow : BOOLEAN, period : Periods, stage : Stages,
              whole : BOOLEAN, over : BOOLEAN]

\* None is no value of any kind
ASSUME PeriodAssumption == None \notin Urls \union Transfers /\ MaxPeriod \in Nat \ {0}

VARIABLES
    url,
    connected, responseCode, responseMessage, headerMap,
    inputStream, outputStream,             \* the period of the stream, or 0
    inputs, outputs,                       \* the periods of the streams not closed
    doOutput, fixedLength,                 \* set before the first request
    transfer,                              \* the transfer attached to the handle, or None
    allSent,                               \* uploadedCount has reached uploadGoal
    busy,                                  \* the native lock was never given back
    call,                                  \* the method that waits for connect, or "none"
    period,
    listStale,      \* history: request headers have changed since libcurl was given them
    asked,          \* history: the URL that configure was last given in this period
    retried,        \* history: an earlier connect of this period has failed
    interim         \* history: connect, with no upload, came back with an interim response

caches == <<responseCode, responseMessage, headerMap>>
streams == <<inputStream, outputStream, inputs, outputs>>
settings == <<doOutput, fixedLength>>
engine == <<transfer, allSent, busy>>
history == <<asked, retried, interim>>
vars == <<url, connected, caches, streams, settings, engine, call, period, listStale, history>>

Init ==
    /\ url = None
    /\ connected = FALSE
    /\ responseCode = "none" /\ responseMessage = None /\ headerMap = None
    /\ inputStream = 0 /\ outputStream = 0
    /\ inputs = {} /\ outputs = {}
    /\ doOutput \in BOOLEAN /\ fixedLength \in BOOLEAN /\ (fixedLength => doOutput)
    /\ transfer = None /\ allSent = FALSE /\ busy = FALSE
    /\ call = "none"
    /\ period = 1
    /\ listStale = FALSE
    /\ asked = None /\ retried = FALSE /\ interim = FALSE

-----------------------------------------------------------------------------
setUrlString(u) ==
    /\ call = "none"
    /\ ~connected
    /\ url' = u
    /\ UNCHANGED <<connected, caches, streams, settings, engine, call, period,
                   listStale, history>>

-----------------------------------------------------------------------------
(* The native engine *)

\* the responses that may come after one with status s
Later(s, follow) ==
    CASE s = "none" -> {"100", "302", "200", "404"}
      [] s = "100" -> {"100", "302", "200", "404"}
      [] s = "302" /\ follow -> {"100", "302", "200", "404"}
      [] OTHER -> {}

\* where t may stand next: at the same response, with its headers ended or not, or at
\* the status line, some header or the end of the headers of a later one; and whether
\* the transfer is over then
Following(t) ==
    {t.stage} \X {t.whole} \X {t.over, TRUE}
    \union IF t.over THEN {}
           ELSE ({t.stage} \ {"none"}) \X {TRUE} \X BOOLEAN
                \union Later(t.stage, t.follow) \X BOOLEAN \X BOOLEAN

\* the transfers that a native call may make of t
MovedTo(t, n) == [t EXCEPT !.stage = n[1], !.whole = n[2], !.over = n[3]]

Onward(t) ==
    IF t = None THEN {None}
    ELSE {MovedTo(t, n) : n \in Following(t)}

\* where a transfer may have got to
Effective(follow) == IF follow THEN Urls ELSE {url}

\* curl_multi_add_handle, unless it was done before: the transfer then goes on, with
\* the old URL, and with the new setting for redirects unless it has read one already
Attached(follow) ==
    IF transfer = None
    THEN [url |-> url, follow |-> follow, period |-> period,
          stage |-> "none", whole |-> FALSE, over |-> FALSE]
    ELSE IF transfer.stage = "302" /\ transfer.whole THEN transfer
    ELSE [transfer EXCEPT !.follow = follow]

-----------------------------------------------------------------------------
(* connect *)

Methods == {"connect", "getResponseCode", "getResponseMessage",
            "getInputStream", "getContent", "getOutputStream"}

\* the checks that a method makes before it calls connect; getInputStream without
\* doInput throws
Begin(m) ==
    /\ call = "none" /\ ~connected
    /\ url # None
    /\ m = "getOutputStream" => doOutput
    /\ m = "getResponseMessage" => responseMessage = None \/ responseCode = "100"
    /\ call' = m
    /\ UNCHANGED <<url, connected, caches, streams, settings, engine, period, listStale, history>>

\* interrupted before configure, or turned away by the native lock
ConnectRefused ==
    /\ call # "none" /\ ~connected
    /\ call' = "none"
    /\ UNCHANGED <<url, connected, caches, streams, settings, engine, period, listStale, history>>

\* what every call of nativeConfigure does before the first perform
Configured ==
    /\ call # "none" /\ ~connected /\ ~busy
    /\ listStale' = FALSE
    /\ asked' = url

\* libcurl reports an error, or the wait times out
ConnectFails(follow, t) ==
    /\ Configured
    /\ t \in Onward(Attached(follow))
    /\ transfer' = t
    /\ retried' = TRUE
    /\ call' = "none"
    /\ UNCHANGED <<url, connected, caches, streams, settings, allSent, busy, period, interim>>

\* mutant: the redirect is not told from an answer
RespondsAtRedirect(follow, t) == doOutput \/ t.over \/ t.whole

\* why curlPerform ends: a paused upload, the transfer over, or the end of headers that
\* have no redirect to follow
Responds(follow, t) ==
    doOutput \/ t.over \/ (t.whole /\ (t.stage = "302" => ~follow))

\* nativeConfigure comes back without an exception; the URL is written back unless
\* the transfer is over already
Returns(follow, t, e) ==
    /\ t \in Onward(Attached(follow))
    /\ transfer' = t
    /\ e \in IF t.over THEN {url} ELSE Effective(follow)
    /\ url' = e

\* nativeConfigure returns early for an interruption, and throws nothing: Java does,
\* with the URL updated and `connected' not set
ConnectInterrupted(follow, t, e) ==
    /\ Configured
    /\ Returns(follow, t, e)
    /\ retried' = TRUE
    /\ call' = "none"
    /\ UNCHANGED <<connected, caches, streams, settings, allSent, busy, period, interim>>

\* the code that is kept, or the one of the current response
CurrentCode(t) == IF responseCode \notin {"none", "100"} THEN responseCode ELSE t.stage

\* connected, and the first getResponseCode
ConnectSucceeds(follow, t, e) ==
    /\ Configured
    /\ Responds(follow, t)
    /\ Returns(follow, t, e)
    /\ connected' = TRUE
    /\ responseCode' = CurrentCode(t)
    /\ interim' = (t.stage = "100" /\ ~doOutput)
    /\ UNCHANGED <<responseMessage, headerMap, streams, settings, allSent, busy, call,
                   period, retried>>

-----------------------------------------------------------------------------
(* The rest of each method, once connected *)

\* the response that a message or a map is taken from
Tag == [period |-> transfer.period, stage |-> transfer.stage]
FieldsTag == [period |-> transfer.period, stage |-> transfer.stage,
              whole |-> transfer.whole \/ transfer.over]

\* m goes on after connect, which returns at once if there is a connection
Done(m) == call \in {m, "none"} /\ connected /\ call' = "none"

ConnectReturns ==
    /\ call = "connect" /\ Done("connect")
    /\ UNCHANGED <<url, connected, caches, streams, settings, engine, period, listStale, history>>

GetResponseCode ==
    /\ Done("getResponseCode")
    /\ ~busy
    /\ responseCode' = CurrentCode(transfer)
    /\ UNCHANGED <<url, connected, responseMessage, headerMap, streams, settings, engine,
                   period, listStale, history>>

\* the status line may be missing, or have no phrase
GetResponseMessage ==
    /\ Done("getResponseMessage")
    /\ responseMessage = None \/ responseCode = "100"
    /\ ~busy
    /\ \/ transfer.stage # "none" /\ responseMessage' = Tag
       \/ UNCHANGED responseMessage
    /\ UNCHANGED <<url, connected, responseCode, headerMap, streams, settings, engine,
                   period, listStale, history>>

\* the stream of this period, new when there is none
NewInput ==
    IF inputStream # 0 THEN UNCHANGED <<inputStream, inputs>>
    ELSE inputStream' = period /\ inputs' = inputs \union {period}

\* getInputStream and getContent; the first throws for an error status, with the
\* stream made
GetInputStream ==
    /\ Done("getInputStream") \/ Done("getContent")
    /\ NewInput
    /\ UNCHANGED <<url, connected, caches, outputStream, outputs, settings, engine, period,
                   listStale, history>>

GetErrorStream ==
    /\ call = "none" /\ connected
    /\ responseCode = "404"
    /\ NewInput
    /\ UNCHANGED <<url, connected, caches, outputStream, outputs, settings, engine, call,
                   period, listStale, history>>

GetOutputStream ==
    /\ Done("getOutputStream")
    /\ IF outputStream # 0 THEN UNCHANGED <<outputStream, outputs>>
       ELSE outputStream' = period /\ outputs' = outputs \union {period}
    /\ UNCHANGED <<url, connected, caches, inputStream, inputs, settings, engine, period,
                   listStale, history>>

\* getHeaderFields makes the map once, of the headers that have come so far; an empty
\* one is not kept
GetHeaderFields ==
    /\ call = "none" /\ connected
    /\ headerMap = None /\ ~busy
    /\ transfer.stage # "none"
    /\ headerMap' = FieldsTag
    /\ UNCHANGED <<url, connected, responseCode, responseMessage, streams, settings,
                   engine, call, period, listStale, history>>

-----------------------------------------------------------------------------
(* The streams; a closed one throws and changes nothing *)

Read(p, t) ==
    /\ call = "none" /\ p \in inputs /\ ~busy
    /\ t \in Onward(transfer)
    /\ transfer' = t
    /\ UNCHANGED <<url, connected, caches, streams, settings, allSent, busy, call, period,
                   listStale, history>>

\* the count that was written is not looked at
Write(p, t, all) ==
    /\ call = "none" /\ p \in outputs /\ ~busy /\ ~allSent
    /\ t \in Onward(transfer)
    /\ transfer' = t
    /\ all => fixedLength
    /\ allSent' = all
    /\ UNCHANGED <<url, connected, caches, streams, settings, busy, call, period,
                   listStale, history>>

\* write() past the announced length returns inside the native lock
WriteAfterGoal(p) ==
    /\ call = "none" /\ p \in outputs /\ ~busy /\ allSent
    /\ busy' = TRUE
    /\ UNCHANGED <<url, connected, caches, streams, settings, transfer, allSent, call, period,
                   listStale, history>>

CloseInput(p) ==
    /\ call = "none" /\ p \in inputs
    /\ inputs' = inputs \ {p}
    /\ UNCHANGED <<url, connected, caches, inputStream, outputStream, outputs, settings, engine,
                   call, period, listStale, history>>

\* the stream is closed even if it was interrupted, or the native call throws
CloseOutput(p, t) ==
    /\ call = "none" /\ p \in outputs
    /\ outputs' = outputs \ {p}
    /\ t \in IF busy THEN {transfer} ELSE Onward(transfer)
    /\ transfer' = t
    /\ UNCHANGED <<url, connected, caches, inputStream, inputs, outputStream, settings, allSent,
                   busy, call, period, listStale, history>>

-----------------------------------------------------------------------------
(* The end of a period, and what may be set between two *)

\* mutant: the code is kept
ForgetState ==
    /\ connected' = FALSE
    /\ UNCHANGED <<responseCode, responseMessage, headerMap>>

\* reset forgets the code and keeps the header map and the message
Forget ==
    /\ connected' = FALSE
    /\ responseCode' = "none"
    /\ UNCHANGED <<responseMessage, headerMap>>

\* mutant: only the input stream is closed
CloseStreamsInput ==
    /\ inputStream' = 0 /\ inputs' = inputs \ {inputStream}
    /\ outputStream' = 0 /\ UNCHANGED outputs

CloseStreams ==
    /\ inputStream' = 0 /\ inputs' = inputs \ {inputStream}
    /\ outputStream' = 0 /\ outputs' = outputs \ {outputStream}

\* mutant: the handle stays attached
NativeResetAttached == allSent' = FALSE /\ UNCHANGED <<transfer, busy>>

NativeReset == transfer' = None /\ allSent' = FALSE /\ UNCHANGED busy

\* reset; with the native lock lost, closing the output or the native call throws
ResetAll ==
    /\ call = "none" /\ period < MaxPeriod
    /\ Forget
    /\ CloseStreams
    /\ \/ busy /\ UNCHANGED <<engine, period, retried>>
       \/ ~busy /\ NativeReset /\ period' = period + 1 /\ retried' = FALSE
    /\ interim' = FALSE
    /\ asked' = None
    /\ UNCHANGED <<url, settings, call>>

Reset == ResetAll /\ UNCHANGED listStale

\* disconnect frees the request headers too, if reset has returned
Disconnect == ResetAll /\ listStale' = (listStale \/ ~busy)

\* mutant: headers may be set at any time
SetRequestPropertyLate ==
    /\ call = "none" /\ ~busy
    /\ listStale' = TRUE
    /\ UNCHANGED <<url, connected, caches, streams, settings, engine, call, period, history>>

\* setRequestProperty and addRequestProperty, which may free or move the list
SetRequestProperty ==
    /\ call = "none" /\ ~connected /\ ~busy
    /\ listStale' = TRUE
    /\ UNCHANGED <<url, connected, caches, streams, settings, engine, call, period, history>>

Connect ==
    \/ ConnectRefused
    \/ \E follow \in BOOLEAN : \E t \in Onward(Attached(follow)) :
         \/ ConnectFails(follow, t)
         \/ \E e \in Effective(follow) :
              ConnectInterrupted(follow, t, e) \/ ConnectSucceeds(follow, t, e)

Next ==
    \/ \E u \in Urls : setUrlString(u)
    \/ \E m \in Methods : Begin(m)
    \/ Connect
    \/ ConnectReturns \/ GetResponseCode \/ GetResponseMessage
    \/ GetInputStream \/ GetErrorStream \/ GetOutputStream \/ GetHeaderFields
    \/ \E p \in Periods :
         \/ \E t \in Onward(transfer) : Read(p, t) \/ CloseOutput(p, t)
         \/ \E t \in Onward(transfer), all \in BOOLEAN : Write(p, t, all)
         \/ WriteAfterGoal(p) \/ CloseInput(p)
    \/ Reset \/ Disconnect \/ SetRequestProperty

Spec == Init /\ [][Next]_vars

-----------------------------------------------------------------------------
(* Properties *)

\* Every variable stays in its type, and a connection has a transfer.
TypeOK ==
    /\ {url, asked} \subseteq Urls \union {None}
    /\ {connected, doOutput, fixedLength, allSent, busy} \subseteq BOOLEAN
    /\ {listStale, retried, interim} \subseteq BOOLEAN
    /\ responseCode \in Stages
    /\ responseMessage \in [period : Periods, stage : Stages] \union {None}
    /\ headerMap \in [period : Periods, stage : Stages, whole : BOOLEAN] \union {None}
    /\ {inputStream, outputStream} \subseteq 0..MaxPeriod
    /\ inputs \subseteq Periods /\ outputs \subseteq Periods
    /\ transfer = None \/ transfer \in Transfers
    /\ connected => transfer # None
    /\ call \in Methods \union {"none"} /\ period \in Periods

\* A connection that says it is connected shows the response to what was asked for
\* in this period, unless a connect had failed before: the handle is then attached
\* already and the old transfer goes on, whatever URL has been set since.
AnswersThisRequest ==
    /\ TypeOK
    /\ connected /\ ~retried => transfer.url = asked /\ transfer.period = period

\* A stream that can still be read or written is one of the current transfer: none
\* outlives a reset and then takes the bytes of a later exchange.
OpenStreamsAreCurrent ==
    \A p \in inputs \union outputs :
        p = period /\ transfer # None /\ transfer.period = p

\* A final code that is remembered is the code of the response being read.
CodeIsCurrent ==
    connected /\ responseCode \in {"200", "404"} => responseCode = transfer.stage

\* The code, the message and the header map, which separate calls take while the
\* transfer goes on, are those of one response, and of all its headers: connect waits for
\* a response that none follows.  Uploads are outside, where connect waits for none of
\* it, and so is a connection made after an interim response, or on a transfer whose
\* connect had failed.  Nothing is said of a message and a map that a reset has kept.
OneResponseShown ==
    connected /\ ~doOutput /\ ~interim /\ ~retried =>
        /\ responseCode = transfer.stage
        /\ \A c \in {headerMap, responseMessage} \ {None} :
             c.period = period => c.stage = responseCode
        /\ headerMap # None /\ headerMap.period = period => headerMap.whole

\* libcurl's list of request headers, which it was given once and reads when it
\* sends the request, is not changed or freed while a transfer may go on.
HeaderListLive == connected => ~listStale
=============================================================================
