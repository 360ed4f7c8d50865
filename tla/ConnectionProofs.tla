-------------------------- MODULE ConnectionProofs --------------------------
(***************************************************************************)
(* Theorems about Connection, for any URLs and any number of periods.      *)
(***************************************************************************)
EXTENDS Connection, TLAPS

\* Nothing more will come of t's response.
Ended(t) == t.over \/ (t.whole /\ (t.stage \in {"200", "404"} \/ (t.stage = "302" /\ ~t.follow)))

\* Headers end after a status line.
Begun(t) == t.whole => t.stage # "none"

(* The inductive invariant, in parts. *)

\* A transfer belongs to the period in which it was attached, and one that outlives the
\* connection has failed a connect before, or the native lock is lost and no connect can
\* follow.
TransferInv ==
    /\ transfer # None => transfer.period = period /\ Begun(transfer)
    /\ transfer # None /\ ~connected => retried \/ busy
    /\ connected /\ ~retried => transfer.url = asked
    /\ call # "none" => url # None

\* Only the stream that the connection remembers may be open, and it has a transfer.
StreamInv ==
    /\ inputs \subseteq {inputStream} /\ outputs \subseteq {outputStream}
    /\ \A p \in {inputStream, outputStream} \ {0} : p = period /\ transfer # None

\* Without a connection no code is remembered.
CodeInv ==
    /\ ~connected => responseCode = "none"
    /\ CodeIsCurrent

\* What is taken of a response belongs to its period or an earlier one, and to an earlier
\* one as long as there is no connection and a connect can follow.
CacheInv ==
    /\ \A c \in {headerMap, responseMessage} \ {None} :
         /\ c.period \in Nat /\ c.period <= period
         /\ ~connected /\ ~busy => c.period # period
    /\ ~connected => ~interim

\* Connect, if there is no upload, comes back to a response that none follows, or to an
\* interim one.
ResponseInv ==
    /\ connected /\ ~doOutput /\ ~interim /\ ~retried => Ended(transfer)
    /\ OneResponseShown

IInv ==
    /\ TypeOK /\ TransferInv /\ StreamInv /\ CodeInv /\ CacheInv /\ ResponseInv
    /\ HeaderListLive
-----------------------------------------------------------------------------
(* What a native call may make of a transfer. *)

\* None is no URL and no transfer, and periods are counted from 1.
LEMMA NoneApart ==
    /\ None \notin Urls /\ None \notin Transfers /\ MaxPeriod \in Nat \ {0}
    /\ 1 \in Periods /\ Periods \subseteq Nat \ {0}
  BY PeriodAssumption DEF Periods

\* What may come of a response is a status and whether its headers have ended; nothing
\* comes of one that has ended but the response itself, and no other of a final status
\* (Following).
LEMMA StatusesToCome ==
    ASSUME NEW t \in Transfers, NEW n \in Following(t)
    PROVE  /\ n[1] \in Stages /\ n[2] \in BOOLEAN /\ n[3] \in BOOLEAN
           /\ Ended(t) => n[1] = t.stage /\ (t.whole => n[2]) /\ (t.over => n[3])
           /\ Begun(t) => (n[2] => n[1] # "none")
           /\ t.stage \in {"200", "404"} => n[1] = t.stage
  <1>1. t.stage \in Stages /\ t.whole \in BOOLEAN /\ t.over \in BOOLEAN /\ t.follow \in BOOLEAN
    BY DEF Transfers
  <1>2. /\ Later(t.stage, t.follow) \subseteq Stages \ {"none"}
        /\ t.stage \in {"200", "404"} => Later(t.stage, t.follow) = {}
        /\ t.stage = "302" /\ ~t.follow => Later(t.stage, t.follow) = {}
    BY <1>1 DEF Later, Stages
  <1>3. \/ n \in {t.stage} \X {t.whole} \X {t.over, TRUE}
        \/ ~t.over /\ n \in ({t.stage} \ {"none"}) \X {TRUE} \X BOOLEAN
        \/ ~t.over /\ n \in Later(t.stage, t.follow) \X BOOLEAN \X BOOLEAN
    BY DEF Following
  <1>4. CASE n \in {t.stage} \X {t.whole} \X {t.over, TRUE}
    <2>1. n[1] = t.stage /\ n[2] = t.whole /\ n[3] \in {t.over, TRUE}
      BY <1>4
    <2> QED
      BY <1>1, <2>1 DEF Begun
  <1>5. CASE ~t.over /\ n \in ({t.stage} \ {"none"}) \X {TRUE} \X BOOLEAN
    <2>1. n[1] = t.stage /\ n[2] = TRUE /\ n[3] \in BOOLEAN /\ t.stage # "none"
      BY <1>5
    <2> QED
      BY <1>1, <1>5, <2>1
  <1>6. CASE ~t.over /\ n \in Later(t.stage, t.follow) \X BOOLEAN \X BOOLEAN
    <2>1. n[1] \in Later(t.stage, t.follow) /\ n[2] \in BOOLEAN /\ n[3] \in BOOLEAN
      BY <1>6
    <2> QED
      BY <1>2, <1>6, <2>1 DEF Ended
  <1> QED
    BY <1>3, <1>4, <1>5, <1>6

\* A native call keeps the URL, the period and the setting for redirects of a transfer,
\* and moves on from its response only while more may come.
LEMMA OnwardKeeps ==
    ASSUME NEW t \in Transfers, NEW u \in Onward(t)
    PROVE  /\ u \in Transfers /\ u # None
           /\ u.url = t.url /\ u.follow = t.follow /\ u.period = t.period
           /\ Ended(t) => Ended(u) /\ u.stage = t.stage
           /\ Begun(t) => Begun(u)
           /\ t.stage \in {"200", "404"} => u.stage = t.stage
  <1>1. PICK n \in Following(t) : u = MovedTo(t, n)
    BY NoneApart DEF Onward
  <1>2. /\ n[1] \in Stages /\ n[2] \in BOOLEAN /\ n[3] \in BOOLEAN
        /\ Ended(t) => n[1] = t.stage /\ (t.whole => n[2]) /\ (t.over => n[3])
        /\ Begun(t) => (n[2] => n[1] # "none")
        /\ t.stage \in {"200", "404"} => n[1] = t.stage
    BY StatusesToCome
  <1>3. u \in Transfers
    BY <1>1, <1>2 DEF Transfers, MovedTo
  <1>4. /\ u.url = t.url /\ u.follow = t.follow /\ u.period = t.period
        /\ u.stage = n[1] /\ u.whole = n[2] /\ u.over = n[3]
    BY <1>1 DEF Transfers, MovedTo
  <1>5. Ended(t) => Ended(u) /\ u.stage = t.stage
    BY <1>2, <1>4 DEF Ended
  <1>6. Begun(t) => Begun(u)
    BY <1>2, <1>4 DEF Begun
  <1> QED
    BY <1>2, <1>3, <1>4, <1>5, <1>6, NoneApart, Zenon

\* Without a transfer none moves on.
LEMMA OnwardOfNone == Onward(None) = {None}
  BY DEF Onward

\* A native call on whatever is attached.
LEMMA NativeCall ==
    ASSUME TypeOK, NEW u \in Onward(transfer)
    PROVE  /\ u = None <=> transfer = None
           /\ u = None \/ u \in Transfers
           /\ transfer # None =>
                /\ u.url = transfer.url /\ u.follow = transfer.follow
                /\ u.period = transfer.period
                /\ Ended(transfer) => Ended(u) /\ u.stage = transfer.stage
                /\ Begun(transfer) => Begun(u)
                /\ transfer.stage \in {"200", "404"} => u.stage = transfer.stage
  <1>1. CASE transfer = None
    BY <1>1, OnwardOfNone
  <1>2. CASE transfer # None
    <2>1. transfer \in Transfers
      BY <1>2 DEF TypeOK
    <2> QED
      BY <1>2, <2>1, OnwardKeeps, Zenon
  <1> QED
    BY <1>1, <1>2

\* A native call may leave a transfer as it was.
LEMMA CallKeeps ==
    ASSUME TypeOK
    PROVE  transfer \in Onward(transfer)
  <1>1. CASE transfer = None
    BY <1>1, OnwardOfNone
  <1>2. CASE transfer # None
    <2> DEFINE n == <<transfer.stage, transfer.whole, transfer.over>>
    <2>1. transfer = MovedTo(transfer, n)
      BY <1>2 DEF TypeOK, Transfers, MovedTo
    <2>2. n \in Following(transfer)
      BY DEF Following
    <2> HIDE DEF n
    <2> QED
      BY <1>2, <2>1, <2>2 DEF Onward
  <1> QED
    BY <1>1, <1>2

\* What connect finds attached, or attaches.
LEMMA AttachedKnown ==
    ASSUME TypeOK, TransferInv, url # None, NEW follow \in BOOLEAN
    PROVE  /\ Attached(follow) \in Transfers /\ Attached(follow).period = period
           /\ Attached(follow).url = IF transfer = None THEN url ELSE transfer.url
           /\ transfer = None => Attached(follow).follow = follow
           /\ Begun(Attached(follow))
  <1>1. CASE transfer = None
    BY <1>1 DEF Attached, TypeOK, Transfers, Stages, Begun
  <1>2. CASE transfer # None
    <2>1. transfer \in Transfers /\ transfer.period = period /\ Begun(transfer)
      BY <1>2 DEF TypeOK, TransferInv
    <2> QED
      BY <1>2, <2>1 DEF Attached, Transfers, Begun
  <1> QED
    BY <1>1, <1>2

-----------------------------------------------------------------------------
(* The invariant is inductive. *)

\* A new connection satisfies the invariant.
LEMMA InitInv ==
    ASSUME Init
    PROVE  IInv
  <1>1. /\ url = None /\ asked = None /\ transfer = None /\ call = "none" /\ period = 1
        /\ responseCode = "none" /\ responseMessage = None /\ headerMap = None
        /\ inputStream = 0 /\ outputStream = 0 /\ inputs = {} /\ outputs = {}
        /\ connected = FALSE /\ listStale = FALSE /\ interim = FALSE
    BY DEF Init
  <1>2. {connected, doOutput, fixedLength, allSent, busy} \subseteq BOOLEAN
        /\ {listStale, retried, interim} \subseteq BOOLEAN
    BY DEF Init
  <1>3. TypeOK
    BY <1>1, <1>2, NoneApart DEF TypeOK, Stages
  <1>4. TransferInv /\ StreamInv
    BY <1>1 DEF TransferInv, StreamInv
  <1>5. CodeInv /\ CacheInv /\ ResponseInv /\ HeaderListLive
    BY <1>1 DEF CodeInv, CodeIsCurrent, CacheInv, ResponseInv, OneResponseShown, HeaderListLive
  <1> QED
    BY <1>3, <1>4, <1>5 DEF IInv

\* A method begins, or comes back from connect: only `call' changes.
LEMMA CallSteps ==
    ASSUME IInv, (\E m \in Methods : Begin(m)) \/ ConnectRefused \/ ConnectReturns
    PROVE  IInv'
  <1>1. /\ UNCHANGED <<url, connected, caches, streams, settings, engine, period, listStale, history>>
        /\ call' \in Methods \union {"none"} /\ (call' # "none" => url # None)
    BY DEF Begin, ConnectRefused, ConnectReturns, Done, Methods
  <1>2. UNCHANGED <<responseCode, responseMessage, headerMap, inputStream, outputStream,
                    inputs, outputs, doOutput, fixedLength, transfer, allSent, busy, asked, retried, interim>>
    BY <1>1 DEF caches, streams, settings, engine, history
  <1>3. TypeOK'
    BY <1>1, <1>2 DEF IInv, TypeOK
  <1>4. (TransferInv /\ StreamInv)'
    BY <1>1, <1>2 DEF IInv, TransferInv, StreamInv
  <1>5. (CodeInv /\ CacheInv /\ ResponseInv /\ HeaderListLive)'
    BY <1>1, <1>2 DEF IInv, CodeInv, CodeIsCurrent, CacheInv, ResponseInv, OneResponseShown, HeaderListLive
  <1> QED
    BY <1>3, <1>4, <1>5 DEF IInv

\* Between connections the URL and the request headers may change.
LEMMA SetStep ==
    ASSUME IInv, (\E u \in Urls : setUrlString(u)) \/ SetRequestProperty
    PROVE  IInv'
  <1>1. /\ UNCHANGED <<connected, caches, streams, settings, engine, call, period, history>>
        /\ url' \in Urls \union {url} /\ (url # None => url' # None)
        /\ listStale' \in {listStale, TRUE} /\ ~connected
    BY NoneApart DEF setUrlString, SetRequestProperty
  <1>2. UNCHANGED <<responseCode, responseMessage, headerMap, inputStream, outputStream,
                    inputs, outputs, doOutput, fixedLength, transfer, allSent, busy, asked, retried, interim>>
    BY <1>1 DEF caches, streams, settings, engine, history
  <1>3. TypeOK'
    <2>1. {url, asked}' \subseteq Urls \union {None}
      BY <1>1, <1>2 DEF IInv, TypeOK
    <2>2. {listStale, retried, interim}' \subseteq BOOLEAN
      BY <1>1, <1>2, Zenon DEF IInv, TypeOK
    <2> QED
      BY <1>1, <1>2, <2>1, <2>2 DEF IInv, TypeOK
  <1>4. (TransferInv /\ StreamInv)'
    BY <1>1, <1>2 DEF IInv, TransferInv, StreamInv
  <1>5. (CodeInv /\ CacheInv /\ ResponseInv /\ HeaderListLive)'
    BY <1>1, <1>2 DEF IInv, CodeInv, CodeIsCurrent, CacheInv, ResponseInv, OneResponseShown, HeaderListLive
  <1> QED
    BY <1>3, <1>4, <1>5 DEF IInv

\* A connect that fails, or is interrupted, leaves a transfer attached and says so.
LEMMA ConnectEnds ==
    ASSUME IInv, NEW follow \in BOOLEAN, NEW t \in Onward(Attached(follow)), NEW e,
           ConnectFails(follow, t) \/ ConnectInterrupted(follow, t, e)
    PROVE  IInv'
  <1>1. /\ Configured /\ transfer' = t /\ retried' = TRUE /\ call' = "none"
        /\ url' = url \/ (url' = e /\ e \in IF t.over THEN {url} ELSE Effective(follow))
        /\ UNCHANGED <<connected, caches, streams, settings, allSent, busy, period, interim>>
    BY DEF ConnectFails, ConnectInterrupted, Returns
  <1>2. UNCHANGED <<responseCode, responseMessage, headerMap, inputStream, outputStream,
                    inputs, outputs, doOutput, fixedLength, allSent, busy, connected, period,
                    interim>>
    BY <1>1 DEF caches, streams, settings
  <1>3. call # "none" /\ ~connected /\ ~busy /\ listStale' = FALSE /\ asked' = url
    BY <1>1 DEF Configured
  <1>4. TypeOK /\ TransferInv /\ StreamInv /\ CodeInv /\ CacheInv /\ ResponseInv /\ HeaderListLive
    BY DEF IInv
  <1>5. /\ t \in Transfers /\ t # None /\ t.period = period /\ Begun(t)
    BY <1>3, <1>4, AttachedKnown, OnwardKeeps DEF TransferInv
  <1>6. url' \in Urls \union {None}
    BY <1>1, <1>4 DEF TypeOK, Effective
  <1>7. TypeOK'
    <2>1. {url, asked}' \subseteq Urls \union {None}
      BY <1>3, <1>4, <1>6 DEF TypeOK
    <2>2. {listStale, retried, interim}' \subseteq BOOLEAN
      BY <1>1, <1>2, <1>3, <1>4, Zenon DEF TypeOK
    <2> QED
      BY <1>1, <1>2, <1>4, <1>5, <2>1, <2>2 DEF TypeOK
  <1>8. TransferInv'
    BY <1>1, <1>2, <1>3, <1>5 DEF TransferInv
  <1>9. StreamInv'
    BY <1>1, <1>2, <1>4, <1>5 DEF StreamInv
  <1>10. (CodeInv /\ CacheInv /\ ResponseInv /\ HeaderListLive)'
    BY <1>2, <1>3, <1>4 DEF CodeInv, CodeIsCurrent, CacheInv, ResponseInv, OneResponseShown, HeaderListLive
  <1> QED
    BY <1>7, <1>8, <1>9, <1>10 DEF IInv

\* A connect that succeeds finds a transfer of this period: the one it has attached, or
\* one whose earlier connect failed.
LEMMA ConnectOk ==
    ASSUME IInv, NEW follow \in BOOLEAN, NEW t \in Onward(Attached(follow)), NEW e,
           ConnectSucceeds(follow, t, e)
    PROVE  IInv'
  <1>1. /\ Configured /\ transfer' = t /\ connected' = TRUE /\ responseCode' = CurrentCode(t)
        /\ url' = e /\ e \in IF t.over THEN {url} ELSE Effective(follow)
        /\ UNCHANGED <<responseMessage, headerMap, streams, settings, allSent, busy, call,
                       period, retried>>
        /\ interim' = (t.stage = "100" /\ ~doOutput)
    BY DEF ConnectSucceeds, Returns
  <1>2. UNCHANGED <<responseMessage, headerMap, inputStream, outputStream,
                    inputs, outputs, doOutput, fixedLength, allSent, busy, call, period, retried>>
    BY <1>1 DEF streams, settings
  <1>3. call # "none" /\ ~connected /\ ~busy /\ listStale' = FALSE /\ asked' = url
    BY <1>1 DEF Configured
  <1>4. TypeOK /\ TransferInv /\ StreamInv /\ CodeInv /\ CacheInv /\ ResponseInv /\ HeaderListLive
    BY DEF IInv
  <1>5. /\ t \in Transfers /\ t # None /\ t.period = period /\ Begun(t)
        /\ ~retried => t.url = url /\ t.follow = follow
    <2>1. url # None
      BY <1>3, <1>4 DEF TransferInv
    <2>2. ~retried => transfer = None
      BY <1>3, <1>4 DEF TransferInv
    <2>3. /\ Attached(follow) \in Transfers /\ Attached(follow).period = period
          /\ Attached(follow).url = IF transfer = None THEN url ELSE transfer.url
          /\ transfer = None => Attached(follow).follow = follow
          /\ Begun(Attached(follow))
      BY <1>4, <2>1, AttachedKnown
    <2> QED
      BY <2>2, <2>3, OnwardKeeps
  <1>6. url' \in Urls \union {None} /\ url' # None
    BY <1>1, <1>3, <1>4, NoneApart DEF TypeOK, TransferInv, Effective
  <1>7. responseCode' = t.stage /\ t.stage \in Stages
    BY <1>1, <1>3, <1>4, <1>5 DEF CodeInv, CurrentCode, Transfers
  <1>8. TypeOK'
    <2>1. {url, asked}' \subseteq Urls \union {None}
      BY <1>3, <1>4, <1>6 DEF TypeOK
    <2>2. {listStale, retried, interim}' \subseteq BOOLEAN
      <3>1. interim' \in BOOLEAN
        BY <1>1, Zenon
      <3> QED
        BY <1>2, <1>3, <1>4, <3>1, Zenon DEF TypeOK
    <2>3. {connected, doOutput, fixedLength, allSent, busy}' \subseteq BOOLEAN
      BY <1>1, <1>2, <1>4, Zenon DEF TypeOK
    <2> QED
      BY <1>1, <1>2, <1>4, <1>5, <1>7, <2>1, <2>2, <2>3 DEF TypeOK
  <1>9. TransferInv'
    BY <1>1, <1>2, <1>3, <1>5, <1>6 DEF TransferInv
  <1>10. StreamInv'
    BY <1>1, <1>2, <1>4, <1>5 DEF StreamInv
  <1>11. CodeInv'
    BY <1>1, <1>7 DEF CodeInv, CodeIsCurrent
  <1>12. (CacheInv /\ HeaderListLive)'
    BY <1>1, <1>2, <1>3, <1>4 DEF CacheInv, HeaderListLive
  <1>13. ResponseInv'
    <2>1. Responds(follow, t) /\ interim' = (t.stage = "100" /\ ~doOutput)
      BY DEF ConnectSucceeds
    <2>2. ~doOutput /\ ~interim' /\ ~retried => Ended(t)
      <3>1. t.stage \in Stages /\ (t.whole => t.stage # "none")
        BY <1>5 DEF Transfers, Begun
      <3> QED
        BY <1>5, <2>1, <3>1 DEF Responds, Ended, Stages
    <2>3. \A c \in {headerMap, responseMessage} \ {None} : c.period # period
      BY <1>3, <1>4 DEF CacheInv
    <2> QED
      BY <1>1, <1>2, <1>7, <2>2, <2>3 DEF ResponseInv, OneResponseShown
  <1> QED
    BY <1>8, <1>9, <1>10, <1>11, <1>12, <1>13 DEF IInv

\* What is remembered of a response is that of the transfer.
LEMMA CacheSteps ==
    ASSUME IInv, GetResponseCode \/ GetResponseMessage \/ GetHeaderFields
    PROVE  IInv'
  <1>1. /\ connected /\ call' = "none"
        /\ responseCode' \in {responseCode, CurrentCode(transfer)}
        /\ responseMessage' = responseMessage
             \/ (transfer.stage # "none" /\ responseMessage' = Tag)
        /\ headerMap' = headerMap \/ (transfer.stage # "none" /\ headerMap' = FieldsTag)
        /\ UNCHANGED <<url, connected, streams, settings, engine, period, listStale, history>>
    BY DEF GetResponseCode, GetResponseMessage, GetHeaderFields, Done
  <1>2. UNCHANGED <<inputStream, outputStream,
                    inputs, outputs, doOutput, fixedLength, transfer, allSent, busy, asked, retried, interim>>
    BY <1>1 DEF streams, settings, engine, history
  <1>3. TypeOK /\ TransferInv /\ StreamInv /\ CodeInv /\ CacheInv /\ ResponseInv /\ HeaderListLive
    BY DEF IInv
  <1>4. transfer \in Transfers /\ transfer # None
    BY <1>1, <1>3 DEF TypeOK
  <1>5. /\ Tag \in [period : Periods, stage : Stages]
        /\ FieldsTag \in [period : Periods, stage : Stages, whole : BOOLEAN]
        /\ Tag.stage = transfer.stage /\ Tag.period = transfer.period
        /\ FieldsTag.stage = transfer.stage /\ FieldsTag.period = transfer.period
        /\ Ended(transfer) => FieldsTag.whole
    BY <1>4 DEF Tag, FieldsTag, Transfers, Ended
  <1>6. /\ responseCode' \in Stages
        /\ responseCode' \in {"200", "404"} => responseCode' = transfer.stage
    BY <1>1, <1>3, <1>4 DEF TypeOK, CodeInv, CodeIsCurrent, CurrentCode, Transfers
  <1>7. TypeOK'
    BY <1>1, <1>2, <1>3, <1>5, <1>6 DEF TypeOK
  <1>8. (TransferInv /\ StreamInv)'
    BY <1>1, <1>2, <1>3 DEF TransferInv, StreamInv
  <1>9. (CodeInv /\ HeaderListLive)'
    BY <1>1, <1>2, <1>3, <1>6 DEF CodeInv, CodeIsCurrent, HeaderListLive
  <1>10. CacheInv'
    <2>1. /\ headerMap' = headerMap \/ headerMap'.period = transfer.period
          /\ responseMessage' = responseMessage \/ responseMessage'.period = transfer.period
      BY <1>1, <1>5
    <2>2. transfer.period = period /\ period \in Nat
      BY <1>3, <1>4, NoneApart DEF TransferInv, TypeOK
    <2> QED
      BY <1>1, <1>2, <1>3, <2>1, <2>2 DEF CacheInv
  <1>11. ResponseInv'
    <2>1. SUFFICES ASSUME ~doOutput, ~interim, ~retried
                   PROVE  /\ Ended(transfer) /\ responseCode' = transfer.stage
                          /\ \A c \in {headerMap, responseMessage}' \ {None} :
                               c.period = period => c.stage = transfer.stage
                          /\ headerMap' # None /\ headerMap'.period = period => headerMap'.whole
      BY <1>1, <1>2, <1>3 DEF ResponseInv, OneResponseShown
    <2>2. /\ Ended(transfer) /\ responseCode = transfer.stage
          /\ \A c \in {headerMap, responseMessage} \ {None} :
               c.period = period => c.stage = transfer.stage
          /\ headerMap # None /\ headerMap.period = period => headerMap.whole
      BY <1>1, <1>3, <2>1 DEF ResponseInv, OneResponseShown
    <2>3. responseCode' = transfer.stage
      BY <1>1, <2>2 DEF CurrentCode
    <2> QED
      BY <1>1, <1>5, <2>2, <2>3
  <1> QED
    BY <1>7, <1>8, <1>9, <1>10, <1>11 DEF IInv

\* A stream is made for the current transfer, and once.
LEMMA StreamSteps ==
    ASSUME IInv, GetInputStream \/ GetErrorStream \/ GetOutputStream
    PROVE  IInv'
  <1>1. /\ connected /\ call' = "none"
        /\ \/ UNCHANGED <<inputStream, inputs>>
           \/ inputStream = 0 /\ inputStream' = period /\ inputs' = inputs \union {period}
        /\ \/ UNCHANGED <<outputStream, outputs>>
           \/ outputStream = 0 /\ outputStream' = period /\ outputs' = outputs \union {period}
        /\ UNCHANGED <<url, connected, caches, settings, engine, period, listStale, history>>
    BY DEF GetInputStream, GetErrorStream, GetOutputStream, NewInput, Done
  <1>2. UNCHANGED <<responseCode, responseMessage, headerMap, doOutput, fixedLength,
                    transfer, allSent, busy, asked, retried, interim>>
    BY <1>1 DEF caches, settings, engine, history
  <1>3. TypeOK /\ TransferInv /\ StreamInv /\ CodeInv /\ CacheInv /\ ResponseInv /\ HeaderListLive
    BY DEF IInv
  <1>4. /\ {inputStream, outputStream}' \subseteq 0..MaxPeriod
        /\ inputs' \subseteq Periods /\ outputs' \subseteq Periods
    <2>1. period \in Periods /\ period \in 0..MaxPeriod
      BY <1>3 DEF TypeOK, Periods
    <2>2. inputs' \subseteq Periods /\ outputs' \subseteq Periods
      BY <1>1, <1>3, <2>1 DEF TypeOK
    <2>3. {inputStream, outputStream}' \subseteq 0..MaxPeriod
      BY <1>1, <1>3, <2>1 DEF TypeOK
    <2> QED
      BY <2>2, <2>3
  <1>5. TypeOK'
    BY <1>1, <1>2, <1>3, <1>4 DEF TypeOK
  <1>6. StreamInv'
    <2>1. transfer # None /\ period # 0 /\ 0 \notin Periods
      BY <1>1, <1>3, NoneApart DEF TypeOK
    <2>2. inputStream = 0 => inputs = {}
      BY <1>3, <2>1 DEF StreamInv, TypeOK
    <2>3. outputStream = 0 => outputs = {}
      BY <1>3, <2>1 DEF StreamInv, TypeOK
    <2> QED
      BY <1>1, <1>2, <1>3, <2>1, <2>2, <2>3 DEF StreamInv
  <1>7. TransferInv'
    BY <1>1, <1>2, <1>3 DEF TransferInv
  <1>8. (CodeInv /\ CacheInv /\ ResponseInv /\ HeaderListLive)'
    BY <1>1, <1>2, <1>3 DEF CodeInv, CodeIsCurrent, CacheInv, ResponseInv, OneResponseShown, HeaderListLive
  <1> QED
    BY <1>5, <1>6, <1>7, <1>8 DEF IInv

\* A call of an open stream lets the transfer go on, or loses the native lock; closing
\* takes it from the open ones.
LEMMA OpenStreamSteps ==
    ASSUME IInv, NEW p \in Periods, NEW t \in Onward(transfer), NEW all \in BOOLEAN,
           \/ Read(p, t) \/ Write(p, t, all) \/ CloseOutput(p, t)
           \/ WriteAfterGoal(p) \/ CloseInput(p)
    PROVE  IInv'
  <1>1. /\ transfer' \in Onward(transfer)
        /\ inputs' \subseteq inputs /\ outputs' \subseteq outputs
        /\ allSent' \in {allSent, all} /\ busy' \in {busy, TRUE}
        /\ UNCHANGED <<url, connected, caches, inputStream, outputStream, settings, call, period,
                       listStale, history>>
    <2>1. transfer \in Onward(transfer)
      BY CallKeeps DEF IInv
    <2>2. CASE Read(p, t) \/ Write(p, t, all)
      BY <2>2 DEF Read, Write, streams
    <2>3. CASE CloseOutput(p, t)
      BY <2>1, <2>3 DEF CloseOutput
    <2>4. CASE WriteAfterGoal(p)
      BY <2>1, <2>4 DEF WriteAfterGoal, streams
    <2>5. CASE CloseInput(p)
      BY <2>1, <2>5 DEF CloseInput, engine
    <2> QED
      BY <2>2, <2>3, <2>4, <2>5
  <1>2. UNCHANGED <<responseCode, responseMessage, headerMap, doOutput, fixedLength,
                    asked, retried, interim>>
    BY <1>1 DEF caches, settings, history
  <1>3. TypeOK /\ TransferInv /\ StreamInv /\ CodeInv /\ CacheInv /\ ResponseInv /\ HeaderListLive
    BY DEF IInv
  <1>4. /\ transfer' = None <=> transfer = None
        /\ transfer' = None \/ transfer' \in Transfers
        /\ transfer # None =>
             /\ transfer'.url = transfer.url /\ transfer'.follow = transfer.follow
             /\ transfer'.period = transfer.period
             /\ Ended(transfer) => Ended(transfer') /\ transfer'.stage = transfer.stage
             /\ Begun(transfer) => Begun(transfer')
             /\ transfer.stage \in {"200", "404"} => transfer'.stage = transfer.stage
    BY <1>1, <1>3, NativeCall
  <1>5. TypeOK'
    <2>1. {connected, doOutput, fixedLength, allSent, busy}' \subseteq BOOLEAN
      BY <1>1, <1>2, <1>3, Zenon DEF TypeOK
    <2> QED
      BY <1>1, <1>2, <1>3, <1>4, <2>1 DEF TypeOK
  <1>6. TransferInv'
    <2>1. busy => busy'
      BY <1>1
    <2> QED
      BY <1>1, <1>2, <1>3, <1>4, <2>1 DEF TransferInv, TypeOK
  <1>7. StreamInv'
    BY <1>1, <1>2, <1>3, <1>4 DEF StreamInv
  <1>8. (CodeInv /\ HeaderListLive)'
    BY <1>1, <1>2, <1>3, <1>4 DEF CodeInv, CodeIsCurrent, HeaderListLive, TypeOK
  <1>9. CacheInv'
    <2>1. ~busy' => ~busy
      BY <1>1
    <2> QED
      BY <1>1, <1>2, <1>3, <2>1 DEF CacheInv
  <1>10. ResponseInv'
    BY <1>1, <1>2, <1>3, <1>4 DEF ResponseInv, OneResponseShown, TypeOK
  <1> QED
    BY <1>5, <1>6, <1>7, <1>8, <1>9, <1>10 DEF IInv

\* A reset closes both streams and forgets the code.  The transfer goes with the period,
\* or stays with a lock that is lost.
LEMMA ResetSteps ==
    ASSUME IInv, Reset \/ Disconnect
    PROVE  IInv'
  <1>1. /\ call = "none" /\ call' = call /\ connected' = FALSE /\ responseCode' = "none"
        /\ interim' = FALSE
        /\ UNCHANGED <<responseMessage, headerMap, url, settings>>
        /\ inputStream' = 0 /\ inputs' = inputs \ {inputStream}
        /\ outputStream' = 0 /\ outputs' = outputs \ {outputStream}
        /\ \/ busy /\ UNCHANGED <<engine, period, retried>>
           \/ /\ transfer' = None /\ allSent' = FALSE /\ UNCHANGED busy
              /\ period < MaxPeriod /\ period' = period + 1 /\ retried' = FALSE
        /\ asked' = None
    BY DEF Reset, Disconnect, ResetAll, Forget, CloseStreams, NativeReset
  <1>2. listStale' \in BOOLEAN
    BY Zenon DEF Reset, Disconnect, IInv, TypeOK
  <1>3. TypeOK /\ TransferInv /\ StreamInv /\ CodeInv /\ CacheInv /\ ResponseInv /\ HeaderListLive
    BY DEF IInv
  <1>4. /\ \/ busy /\ busy' = busy /\ transfer' = transfer /\ allSent' = allSent
              /\ period' = period /\ retried' = retried
           \/ transfer' = None /\ allSent' = FALSE /\ busy' = busy
              /\ period < MaxPeriod /\ period' = period + 1 /\ retried' = FALSE
        /\ UNCHANGED <<doOutput, fixedLength>>
    BY <1>1 DEF engine, settings
  <1>5. inputs' = {} /\ outputs' = {}
    BY <1>1, <1>3 DEF StreamInv
  <1>6. TypeOK'
    <2>1. period' \in Periods
      <3>1. period \in Int /\ 1 <= period /\ period <= MaxPeriod
        BY <1>3, NoneApart DEF TypeOK, Periods
      <3> QED
        BY <1>3, <1>4, <3>1, NoneApart DEF Periods
    <2>2. {connected, doOutput, fixedLength, allSent, busy}' \subseteq BOOLEAN
      BY <1>1, <1>3, <1>4, Zenon DEF TypeOK
    <2>3. {listStale, retried, interim}' \subseteq BOOLEAN
      <3>1. interim' \in BOOLEAN
        BY <1>1, Zenon
      <3>2. retried' \in BOOLEAN
        BY <1>3, <1>4, Zenon DEF TypeOK
      <3> QED
        BY <1>2, <3>1, <3>2, Zenon
    <2>4. {inputStream, outputStream}' \subseteq 0..MaxPeriod
      BY <1>1, NoneApart
    <2>5. responseCode' \in Stages /\ (transfer' = None \/ transfer' \in Transfers)
          /\ {url, asked}' \subseteq Urls \union {None}
      BY <1>1, <1>3, <1>4 DEF TypeOK, Stages
    <2> QED
      BY <1>1, <1>3, <1>5, <2>1, <2>2, <2>3, <2>4, <2>5 DEF TypeOK
  <1>7. TransferInv'
    BY <1>1, <1>3, <1>4 DEF TransferInv
  <1>8. StreamInv'
    BY <1>1, <1>5 DEF StreamInv
  <1>9. (CodeInv /\ HeaderListLive)'
    BY <1>1 DEF CodeInv, CodeIsCurrent, HeaderListLive
  <1>10. CacheInv'
    <2>1. period \in Nat
      BY <1>3, NoneApart DEF TypeOK
    <2> QED
      BY <1>1, <1>3, <1>4, <2>1 DEF CacheInv
  <1>11. ResponseInv'
    BY <1>1 DEF ResponseInv, OneResponseShown
  <1> QED
    BY <1>6, <1>7, <1>8, <1>9, <1>10, <1>11 DEF IInv

\* Every call of CurlConnection and every step of the transfer keeps the invariant.
LEMMA NextInv ==
    ASSUME IInv, [Next]_vars
    PROVE  IInv'
  <1>1. CASE Connect
    BY <1>1, CallSteps, ConnectEnds, ConnectOk DEF Connect
  <1>2. CASE \E p \in Periods :
               \/ \E t \in Onward(transfer) : Read(p, t) \/ CloseOutput(p, t)
               \/ \E t \in Onward(transfer), all \in BOOLEAN : Write(p, t, all)
               \/ WriteAfterGoal(p) \/ CloseInput(p)
    <2>1. \E t \in Onward(transfer) : TRUE
      BY CallKeeps DEF IInv
    <2> QED
      BY <1>2, <2>1, OpenStreamSteps
  <1>3. CASE (\E u \in Urls : setUrlString(u)) \/ (\E m \in Methods : Begin(m)) \/ ConnectReturns
             \/ SetRequestProperty
    BY <1>3, CallSteps, SetStep
  <1>4. CASE GetResponseCode \/ GetResponseMessage \/ GetHeaderFields
    BY <1>4, CacheSteps
  <1>5. CASE GetInputStream \/ GetErrorStream \/ GetOutputStream
    BY <1>5, StreamSteps
  <1>6. CASE Reset \/ Disconnect
    BY <1>6, ResetSteps
  <1>7. CASE UNCHANGED vars
    <2>1. UNCHANGED <<url, connected, responseCode, responseMessage, headerMap, inputStream,
                      outputStream, inputs, outputs, doOutput, fixedLength, transfer, allSent,
                      busy, call, period, listStale, asked, retried, interim>>
      BY <1>7 DEF vars, caches, streams, settings, engine, history
    <2> QED
      BY <2>1 DEF IInv, TypeOK, TransferInv, StreamInv, CodeInv, CodeIsCurrent, CacheInv,
                  ResponseInv, OneResponseShown, HeaderListLive
  <1> QED
    BY <1>1, <1>2, <1>3, <1>4, <1>5, <1>6, <1>7 DEF Next

\* The connection and the native handle agree as IInv says, over failed connects and resets.
THEOREM Invariance == Spec => []IInv
  <1>1. Init => IInv
    BY InitInv
  <1>2. IInv /\ [Next]_vars => IInv'
    BY NextInv
  <1> QED
    BY <1>1, <1>2, PTL DEF Spec

-----------------------------------------------------------------------------
(* The properties. *)

\* A connection whose connect did not fail before shows the response to the URL it was
\* configured with.
THEOREM Answers == Spec => []AnswersThisRequest
  <1>1. IInv => AnswersThisRequest
    BY DEF IInv, TypeOK, TransferInv, AnswersThisRequest
  <1> QED
    BY <1>1, Invariance, PTL

\* No stream outlives the reset that ends its period.
THEOREM StreamsEndWithTheirPeriod == Spec => []OpenStreamsAreCurrent
  <1>1. IInv => OpenStreamsAreCurrent
    <2>1. SUFFICES ASSUME IInv, NEW p \in inputs \union outputs
                   PROVE  p = period /\ transfer # None /\ transfer.period = p
      BY DEF OpenStreamsAreCurrent
    <2>2. p \in {inputStream, outputStream} \ {0}
      BY <2>1, NoneApart DEF IInv, TypeOK, StreamInv
    <2> QED
      BY <2>1, <2>2 DEF IInv, StreamInv, TransferInv
  <1> QED
    BY <1>1, Invariance, PTL

\* A final code is that of the transfer: reset forgets it before another is attached.
THEOREM FinalCodeIsCurrent == Spec => []CodeIsCurrent
  <1>1. IInv => CodeIsCurrent
    BY DEF IInv, CodeInv
  <1> QED
    BY <1>1, Invariance, PTL

\* What a connection shows is of one response, the last that comes, and of all its
\* headers, if it has waited for it.
THEOREM OneResponse == Spec => []OneResponseShown
  <1>1. IInv => OneResponseShown
    BY DEF IInv, ResponseInv
  <1> QED
    BY <1>1, Invariance, PTL

\* The list that libcurl reads is the one the connection has given it last.
THEOREM ListLivesOn == Spec => []HeaderListLive
  <1>1. IInv => HeaderListLive
    BY DEF IInv
  <1> QED
    BY <1>1, Invariance, PTL
=============================================================================
