# chttpc: a verification project

chttpc is an HTTP client for Android: Java classes on top of libcurl's multi
interface, joined by one C file. This directory holds TLA+ models of the parts
of it that carry state, the TLC runs that check them on small instances, and
TLAPS proofs, for every instance, of all the safety properties that these runs
find to hold, the three refinements of abstract specifications among them. Liveness
is left to TLC.

## 1. Inventory

| Part | State | Operations | Talks to |
| --- | --- | --- | --- |
| Native transfer engine, `lib/src/main/jni/native-lib.c` | `struct curl_data`: state flags, `busy`, `readOffset`, `countToRead`, `readOverflow`, `writeOffset`, `countToWrite`, `uploadedCount`, `uploadGoal`, installed callbacks | `nativeCreate`, `nativeConfigure`, `read`, `write`, `closeOutput`, `reset`, `dispose`; callbacks for data in, data out and headers | called by `CurlHttp`; calls libcurl, which calls the callbacks back; interrupted by a signal from another thread |
| Request headers, same file | `outHeaders` (a `curl_slist`), `outHeaderCount` | `setHeader`, `addHeader`, `clearHeaders`; readers `outHeader`, `getRequestHeaders` | libcurl reads the list at `CURLOPT_HTTPHEADER` |
| Response headers, same file | `headerPairs`, `headerPairCount`, rings of values of one name | `header_callback`; readers `header`, `intHeader`, `getResponseHeaders` | filled from inside `curl_multi_perform`; uses the hash map |
| Hash map, `hashmap.c`, and header text, `native-lib.c` | an array of chains, its size | create, put, get, memoize, remove, clear, free, the doubling; hash, comparison and trimming of names | the response headers |
| Handle lock | `busy`, a try-lock word | `ACQUIRE` / `RELEASE` around every native call but `dispose` and `getLastFd` | a caller that fails gets `IllegalThreadStateException` |
| Reclamation, `CleanerRef.java`, `Curl.java` | static list `first`/`next`/`prev`, a `ReferenceQueue` | `create`, `add`, `remove`, `close`; the reaper thread's loop | the garbage collector; `dispose` |
| `CurlConnection.java` | `connected`, `responseCode`, `responseMessage`, `headerMap`, two streams | the `HttpURLConnection` methods, `reset`, `disconnect` | `CurlHttp` |
| `CurlHttp.java` | `url`, `closed` flags of the streams | `configure`, stream reads and writes, interruption checks | the native calls |
| Timeouts, `curlPerform` | `timeout`, two timestamps, `fdEvents` | the countdown after `curl_multi_wait` | the clock, the interrupting thread |
| `MutableUrl.java` | `buffer`, `length` | `append`, `clear`, `release`, growth | written to by `setUrlString` and, after a redirect, by native code |
| `CurlProxy`, network detection, `HeaderMap` and its relatives, the demo | views | string handling | |

What is hard here. libcurl may cut data as it likes, and offers a chunk again
after a callback has paused it; the code keeps a debt (`readOverflow`) to skip
what the caller has already. Uploads and downloads share one loop
(`curlPerform`) that has to know, from a handful of flags, when waiting makes
sense. A call can end at any step by an error, a timeout or an interruption, and
the next call starts from what it left. Handles are freed by a reaper thread
that competes with explicit `close()` calls. The request headers are a linked
list edited in place whose length is kept in a separate 16-bit counter. Several
threads may use one handle, each turned away while another is inside, and what a
call leaves in `struct curl_data` dangles when it is over. A connection is used
again after `reset`, after a failed connect and after an interrupted one, with
things remembered in Java that belong to an earlier response.

What makes each part correct: body bytes arrive in order and once; counts and
end-of-stream reports are true; no call waits for what cannot happen; flags and
lock are given back on every path; header edits do what `CurlHttp` documents;
the hash map is a dictionary; one thread is in a handle at a time; a timeout is
neither early nor late without bound; a connection shows the response to its own
request; the URL is kept whole; each handle is disposed of once, and in the end.

## 2. Modules

| Module | Models | Used by |
| --- | --- | --- |
| `Transfer` | the engine of one handle | `MCTransfer`, `TransferProofs` |
| `TransferProofs` | theorems about `Transfer` | |
| `HeaderContract` | what `CurlHttp` documents about request headers (abstract) | `RequestHeaders` |
| `RequestHeaders` | the list and its counter | `MCRequestHeaders`, `RequestProofs` |
| `Subsequence` | what is left of a list when entries are dropped | `RequestHeaders`, `HeaderContract` |
| `ResponseHeaders` | `header_callback`, the array, the map and the rings, the readers by position and by name | `HeaderListing` |
| `HeaderListing` | `getResponseHeaders` and `getHeaderFields` | `MCResponseHeaders`, `ResponseProofs` |
| `ResponseProofs` | theorems about `ResponseHeaders` and `HeaderListing` | |
| `HashmapContract` | the dictionary that `hashmap.h` documents (abstract) | `Hashmap` |
| `Hashmap` | the chains, their doubling entry by entry, failing allocations | `HeaderNames` |
| `HeaderText` | hash, comparison, trimming and conversion of header text, on bytes | `HeaderNames` |
| `HeaderNames` | the map with names of headers as keys | `MCHashmap`, `HashmapProofs` |
| `HashmapProofs` | theorems about `Hashmap` and `HeaderNames`, and that the map implements `HashmapContract` | |
| `HandleLock` | several threads on one handle | `MCHandleLock`, `LockProofs` |
| `LockProofs` | theorems about `HandleLock` | |
| `Timeout` | the countdown of `curlPerform` on a clock | `MCTimeout`, `TimeoutProofs` |
| `TimeoutProofs` | theorems about `Timeout` | |
| `Connection` | `CurlConnection` and the streams of `CurlHttp` over an abstract engine | `MCConnection`, `ConnectionProofs` |
| `ConnectionProofs` | theorems about `Connection` | |
| `MutableUrl` | the URL buffer and those who write to it | `MCMutableUrl`, `RequestProofs` |
| `RequestProofs` | theorems about `RequestHeaders` and `MutableUrl`, the two parts of a request | |
| `HandleRegistry` | a set of handles, each disposed of once (abstract) | `CleanerRegistry` |
| `CleanerRegistry` | the list, the collector, the reaper, closing threads | `CleanerProofs`, and its run |
| `CleanerProofs` | theorems about `CleanerRegistry` | |
| `MC...` | constants for TLC | |

`PROJECT.json` maps every definition to the source lines it stands for.

### Transfer

State: the transfer fields of `struct curl_data`, with the flags as a set
(`state`); the native call in progress (`call`, its arguments, and `pc`, where
in the call it is); libcurl's side (`running`, the queued message, what is
paused, how much of the body it holds back, `uploading`); and a history:
`delivered` and `sent` are the positions of the body bytes that went through,
in order. Bytes are positions, so a lost, repeated or reordered byte is visible
without any contents; only for the single-byte `read()`, which returns the byte
itself, is the value looked up in `Body`.

Control points. `unpause`: inside `curl_easy_pause`, where libcurl offers held
data again; `entered`: the checks after it; `connect`: the `curl_multi_perform`
of `nativeConfigure`; `loop`, `perform`, `check`, `wait`: one round of
`curlPerform`. While a call is in `connect` or `perform`, libcurl makes
callbacks in any order it may: `Deliver`, `Pull`, `StatusLine`, `HeaderEnd`,
`HoldMore`, and it may `Complete` or `Fail`. `Interrupt` may happen at any step.

| Code | Actions |
| --- | --- |
| `nativeConfigure` | `Configure`, `ConnectReturns`, then the loop |
| `read`, `write`, `closeOutput` | `Read`, `Write`, `WriteAfterGoal`, `CloseOutput`, `UnpauseReturns`, `UnpauseFails`, `Entered`, then the loop |
| `curlPerform` | `LoopTop`, `PerformReturns`, `MultiError`, `Check`, `WaitReturns`, `WaitFails`, `TimesOut` |
| `write_callback`, `skip_`/`abort_receive_callback` | `ReceiveCallback` inside `Deliver` and `Redeliver` |
| `read_callback`, `eof_callback` | `Pull` |
| `header_callback` | `StatusLine`, `HeaderEnd` |
| `reset` | `Reset` |
| `ACQUIRE` failing | `LockedOut` |

libcurl is external. Assumed of it, from its documentation and from how the code
uses it: a paused chunk is kept and offered again, perhaps cut differently and
perhaps with more behind it; `curl_easy_pause` with the argument 0 (which both
`CURLPAUSE_RECV_CONT` and `CURLPAUSE_SEND_CONT` are) unpauses both directions; a
transfer does not complete while its download is paused; the upload ends when a
read callback returns 0, when the announced length is sent, or at an error
status.

A handle that is configured again without `reset` (`CurlConnection.connect`
after a failure) is given the same directions and length; other uses are
excluded by the documentation of `CurlHttp.configure`.

### RequestHeaders and HeaderContract

Each native call is one step, as it holds the handle's lock. The list is a
sequence of entries (name, value), where the value `Disabled` stands for the
entry `name:` that makes libcurl leave out a default header. `Extends` says
which names begin with which others, as `setHeader` compares prefixes. The
counter is kept modulo 2^16. `HeaderContract` states the documented meaning;
`ImplementsContract` maps its `fields` to the entries that are sent and compares
call by call: after any calls before, a set, add, removal or clear is the
contract's action of that name. Three cases are left out, each an operator of its
own: a name taken for another one (`Strays`), a removal that meets the first entry
(`MeetsHead`), and a set that brings a removed name back in its old place
(`Refills`). The readers are compared with what is sent (`ReadersAgree`) as long
as the history `plain` is true: it turns false with the first removal, or with the
first name that is taken for another one, and true again with `clearHeaders`.

### CleanerRegistry and HandleRegistry

`add` and `remove` are one step each (static synchronized); `nativeDispose`
comes after the lock and is a step of its own. The collector enqueues the
reference of a dropped scope only if the reference itself is still reachable,
which is what the static list is for. In this repository only the reaper calls
`close()`, but the class and the method are public and documented for users
that make their own handles, so `Users` are threads that call it at any time.
`HandleRegistry` is the promise: a set, from which each handle is taken once and
then disposed of once. `ImplementsRegistry` maps `members` to what is reached
from `first`.

### ResponseHeaders and HeaderListing

`header_callback` copies each line into a block. A block is a number in order of
arrival and stands for its own value, so a value that is lost, repeated or taken
from another line shows. `headerPairs` is an array of pairs of blocks that
grows; what was never written in it is `Wild`. `headers` is the hash map, a
function from hashes to entries: `hashKeyCompare` evaluates its argument `*p2++`
several times inside a macro and inverts its result, so it accepts any two names
whose hashes agree, and a look-up goes by the hash alone. (For names like `aba`,
of which it compares no two characters that differ, it reads past the end of the
key; that it then finds them equal is an idealisation.) Only
that spellings of one name share a hash is assumed of hashes; names that share one
by accident are in the model, as they are in the code. `Folded` says which spellings
are one name. `blocks[b].ref` is the ring.

Actions: `StatusLine`, `FirstOfName`, `AnotherOfName` and `HeaderEnd` are the
four ways through `header_callback`, and there is `Reset`. A `connect` after a failed
one adds nothing: the handle is attached still (`native-lib.c:1212`), and the lines
go on where they were. libcurl gives a status line first or after an empty line, and
header lines after a status line, trailers included. A status line whose phrase
holds a colon is left out, see below. The readers are operators; the history
`arrived` is what they are compared with: `Lines` are those that the map takes for
a name, by its hash, `Named` those that have the name, and a name is `Alone` in a
response that has no other name of its hash. `HeaderListing` adds the array of all
headers, for every order in which the map may be walked, and its taking apart
in Java.

### Hashmap, HashmapContract and HeaderText

A key is an address, so two keys may hold the same text; `Hash` and `Equals` are
what the map is given. Every call is one step, as the handle's lock is held, but
`expandIfNecessary` moves one entry at a time (`Relink`) between two arrays, so
that the middle of it is a state too. `createEntry` and `calloc` may fail. `Assign`
is `header_callback` writing through the entry that `entryGet` gave it. `live` is
a history of allocations.

`HeaderText` is `hashCalc`, the secondary `hashKey`, `hashKeyCompare`, the
trimming functions, `headerToString` and `asciiDecode` as operators on byte
sequences; 32-bit words are pairs of 16-bit halves, as TLC's integers do not wrap
around. `HeaderNames` is the map of `nativeCreate`: it computes the hashes and the
comparison that `Hashmap` is given from the texts of the names. `MCHashmap` takes
these texts from whole header lines: `x-ts` and `x-v5` have the same hash, one name
has a byte above 0x7F, and is asked for in capitals by the string Java was given, and
one begins with `WWW-`. Of two names whose characters differ where the comparison
looks, it is known to accept them (`DifferWithin`); what it makes of others depends on
the memory behind the name, and `Equals` is left free there. `Contract` (in
`Hashmap`) maps the contents of both arrays to the abstract `dict`.

### HandleLock

Threads make native calls in any order. `Acquire` is `ACQUIRE` succeeding,
`Refuse` is it failing. `env`, the buffers and `interrupted` hold the thread they
belong to, `Stale` once its call has returned. Of libcurl only the two callbacks
that use the pointers are left. `write` gives the lock back before its last line
(`WriteLeaves`, `WriteReturns`); `getLastFd` takes none.

### Timeout

One run of `curlPerform`. Time is counted in ticks, `Milli` in a millisecond and
`Second` in a second, so the seconds and nanoseconds of a `timespec` are quotient
and remainder, and the countdown is the code's arithmetic on them. A wait ends by
events, by its time, early by a signal, or by an error; `curl_multi_timeout`
answers anything in `Timers`, -1 included. `Interrupt` may come at any step.

### Connection

One thread uses a `CurlConnection`; the time between two resets is a period, and
transfers, streams and remembered values carry theirs. `Begin` is a method up to
its call of `connect`, then one of `ConnectRefused`, `ConnectFails`,
`ConnectInterrupted` and `ConnectSucceeds`, then the rest of the method. The
engine is the transfer attached to the handle: its URL, how far the responses
have got (`Onward`: an interim response, a redirect, a final one, and whether its
headers have ended), and whether it is over. Every native call may take it further,
by some headers or by several responses. A message and a map carry the response they
were taken from, and a map whether all its headers were there. A status line in the
trailers does not occur, and trailers are not told from headers. A transfer that is attached
stays attached over a failed connect, with its URL. `busy` is the lock that a
write past the announced length has kept.

### MutableUrl

The array is a sequence of cells, and every character of a URL is a cell that
names it. `Redirected` is what `nativeConfigure` writes over the buffer,
`ConfigureSameUrl` and `ConfigureRedirected` include `updateUrl`, which takes the
text up to the first NUL of the array. `wanted` is what was put together or redirected
to; what a connect takes in from behind the text (`spoilt`) is no part of it. Its specification is `UrlSpec`, since
`RequestProofs` extends it beside `RequestHeaders`.

## 3. Runs

| Run | Shows | Bounds |
| --- | --- | --- |
| `download` | a body of three bytes, chunks of 1 or 2 bytes, reads of 0 to 2, the response read, refused or skipped, two responses (a redirect or 100 before the final one), all faults and interruptions: delivery, end of stream and counts | three bytes and chunks of two allow a chunk to be cut, paused, offered again joined with the next and paused again |
| `upload` | request bodies with announced length 1 and with unknown length, up to two bytes offered in writes of 0 to 2, the response read | the goal of 1 is passed by a write of 2; a response body of one byte suffices to pause the download |
| `calls_return` | `configure`, `read`, `closeOutput` return, under fairness | one byte each way, length of the request unknown |
| `headers` | sets, adds, removals and clears over three names, one a prefix of another: the calls implement `HeaderContract` but for three named cases; until the first removal or mistaken name, the readers show what is sent | lists up to 4 entries, the counter up to 4 away from 0 in either direction |
| `response_headers` | positions, names, the map of all fields, over redirects, trailers and resets | six lines in all: two responses of three, or one of five headers, for which an array of two grows twice; two spellings of one name and two names of one hash |
| `cleaner` | the reaper and one other closing thread: list, set, single disposal, and every dropped handle disposed of in the end | three handles allow a removal between two others |
| `hashmap` | `hashmap.c` on real hashes of names: every entry found, counted and freed, the load factor kept, and the documented dictionary implemented, with one entry per key | six keys that are four to the map, arrays of 1 bucket doubling three times and of 4 doubling once |
| `lock` | three threads: exclusion, callbacks on their own pointers, the lock accounted for, the result of a write after `RELEASE` | reads and writes of 0 to 2 bytes, an announced length of 0 or 2 |
| `timeout` | how early and how late a timeout may be, which limit and which exception it is, how many waits an interruption may miss | limits of none, 1 and 2 ms, two ticks in a ms, two ms in a second, a clock of 14 ticks: several seconds end within one countdown |
| `connection` | what a connection shows belongs to its request, and its code, message and header map to one response, over failures, interruptions, redirects, headers in parts, resets and a lost lock | two URLs and two periods: every property is about the present period and one before it; states that differ by the names of the URLs, or by the response of a map or message that a reset has kept or that was taken with an upload, are one (`UrlSymmetry`, `View`): no step and no property looks at these |
| `url` | the URL shown and asked for next begins with the one put together or redirected to, and is that one unless a longer text was behind it | URLs of length 2 and 4, growth by at least 2, arrays up to 10: growth, reuse in place, and replacement of the array |

One more run ends in a violation on purpose. It states what a document of
the repository says, and the counterexample shows what the code does instead:

| Run | Said | Done |
| --- | --- | --- |
| `write_blocked` | `KNOWN_ISSUES.txt` 5, fixed | a `write()` after an early response with a body waits while curl is paused in both directions |

Deadlock is checked in `lock`, `connection` and `url`. In the others the system may stop: a client stops calling, `curlPerform` is over, a map
is freed, or a bound on offered bytes or list lengths is met.

**Fairness.** `calls_return`: weak fairness of the engine's own steps (a running
thread goes on) and of `Redeliver` (`curl_easy_pause` works through what it
holds); strong fairness of `StatusLine`, the final `HeaderEnd` and `Complete`,
each of which libcurl can take again and again at successive
`curl_multi_perform` calls: a peer that answers and ends its answer. No fairness
of timeouts, of faults, of interruptions or of anything the caller does next.
`write` is not among the calls that return: `write_blocked` shows why.
`cleaner`: weak fairness of the collector, of the reaper's loop (which survives
every exception) and of threads inside `close()`; none of creating or dropping.

**Cases seen and given no run.**

- Removing the name of the first entry sets the whole list to NULL and so drops the
  other names too (`native-lib.c:1874`), where `CurlHttp.java:167-168` says "all
  headers with specified name will be removed"; `ImplementsContract` leaves it out
  as `MeetsHead`.
- `connect` after a failed or interrupted one configures the attached handle again
  (`CurlConnection.java:197`), though `CurlHttp.java:333-334` says "Before calling
  this method again, you have to call reset": the old transfer goes on, whatever URL
  was set since. `AnswersThisRequest` leaves out what was `retried`.
- `getRequestHeader` returns the value of the first header of a name, where
  `CurlHttp` documents the last (`native-lib.c:2032`).
- After a removal `getRequestHeaders` counts entries it does not list and misses
  the last ones (`native-lib.c:1616`): `ReadersAgree` without `plain` fails.
- `setHeader` compares the first `kLen` characters only: setting `accept`
  replaces an entry `accept-charset` (`native-lib.c:1867`).
- `ReadCountHonest` excludes `read(buf, off, 1)` with `off > 0`: `read` returns
  `readOffset` for every count of 1, which is then `off + 1`.
- `hashKeyCompare` evaluates `*p2++` several times inside a macro, so that it may
  read past the end of a key, and inverts its result: two names of one hash, such
  as `x-ts` and `x-v5`, are taken for one. `InOrder`, `LastValueByName` and
  `FieldsComplete` say what then comes of them: the values of both under the name that
  came first, and the last value of either for each.
- A status line with a colon in its phrase is taken for a header
  (`native-lib.c:384`): the headers before it are not cleared.
- `releaseHeaders` frees half of the blocks (`native-lib.c:233`).
- `getResponseHeaderKey` past the last header reads a slot that is stale or was
  never written (`native-lib.c:1703`).
- A single byte 0xFF is returned as -1, which is the end (`native-lib.c:545`);
  `SingleByteIsNext` states the signed value that is returned.
- A write past the announced length keeps the lock for good (`native-lib.c:1387`);
  `LockAccounted` names the case.
- The result of `write` is computed after `RELEASE` (`native-lib.c:1431`): a thread
  that enters just then changes it. `WriteCountHonest` leaves it out.
- `setOptionInt` hands `CURLMOPT_MAXCONNECTS`, an option of the multi interface,
  to the easy handle (`native-lib.c:2071`).
- Parts of a second count only when the nanoseconds have wrapped around
  (`native-lib.c:991`), so a timeout may be late by a factor of almost 1000: a limit
  of n milliseconds ends before n seconds of silence have passed, which is what
  `LateButBounded` states. Events start the countdown anew but leave
  the timestamp (`native-lib.c:983`), so a timeout after activity may come earlier
  than its limit after the last event; `NotTooEarly` counts from the call.
- With no timer in libcurl the loop spins instead of waiting (`native-lib.c:965`),
  and the first wait after the headers still has the limit of connecting.
- `reset` keeps `headerMap` and `responseMessage`, so the next response may show
  those of the one before (`CurlConnection.java:307`). With an upload `connect` does
  not wait for the response, and `getHeaderFields` then keeps for good a map of the
  headers that have come so far (`CurlConnection.java:165`); after an interim response
  it keeps the map of that one. A 302 seen before a redirect is followed stays the
  code of such a connection. `OneResponseShown` is about the connections where none
  of this applies. `getInputStream` looks at the remembered
  code only, and so need not throw for an error status that comes after an upload.
- `setUrlString` leaves the old characters behind the new ones, and so does a
  redirect to a shorter URL behind its NUL; the next connect that follows
  redirects takes them in unless a NUL is between (`CurlHttp.java:384`). `UrlKept`
  says that they then follow the whole URL, and that they come in no other way.

## 4. Proofs

Each proof module extends the module it is about, and its theorems hold for every
value of the constants that the named assumptions allow. A theorem about a state
rests on an inductive invariant: the properties alone are seldom inductive, and
what had to be added says why the code is right. Where a theorem needs more than
the assumptions, its hypothesis is part of its statement.

**`TransferProofs`**, for every body, chunk size, count, set of modes and goals
(`BodyAssumption`, `BoundAssumption`):

| Theorem | Property |
| --- | --- |
| `TypeCorrect` | `TypeOK` |
| `Delivery` | `DeliveredInOrder`, `OverflowWithinHeld` |
| `Sending` | `SentInOrder` |
| `HonestEnd` | `EofOnlyAtTheEnd` |
| `HonestReads` | `ReadCountHonest` |
| `SingleBytes` | `SingleByteIsNext` |
| `HonestWrites` | `ShortWriteOnlyAtTheEnd` |
| `HonestFlags` | `NeedFlagsMatchCall` |
| `NoPauseForgotten` | `PausesAreFlagged` |
| `NoSelfDeadlock` | `NoWaitOnPausedTransfer` |

`OverflowWithinHeld` is a lemma of delivery and has no run of its own. `IInv` adds:
`readOverflow` tied to what libcurl holds (`CurlInv`), so that a chunk's bytes are
the next ones; what a detached handle looks like (`ModeInv`), so that a new
`configure` starts with no debt; how `countToRead`, `readOffset` and the bytes
delivered since the call began move together (`ReadInv`), so that a count is true;
that the bytes of the write in progress come after all earlier ones (`SendInv`);
and the check made before a wait (`WaitInv`). `SingleInv` adds that the byte of a
single-byte read is kept in `readOffset`, and `ShortInv` that a write finds its
direction paused only when it is done or nothing more can be sent. The steps of the
engine are first brought to two shapes, going on and leaving a call (`EngineShape`),
and the receive callback to copying or not copying (`ReceiveCases`), so each shape
is treated once.

**`CleanerProofs`**, for any set of handles and any threads (`RegistryAssumption`):

| Theorem | Property |
| --- | --- |
| `RegistryTypeCorrect` | `TypeOK` |
| `ListSound` | `DoublyLinked` |
| `DisposeOnce` | `DisposedOnce` |
| `ListIsSet` | `ImplementsRegistry` |

The invariant of the first three needs no reachability: next and prev are inverse on every
reference that is linked, a removed reference points to itself and nothing else
points to it, a reference not yet added is touched by no link, and at most one
thread is between `remove` and `nativeDispose` of a handle. `ListIsSet` is about
what is reached from `first`. `Listed` is the least set that holds the head and is
closed under next, and both parts of that are used: what `add` and `remove` leave
reachable is closed under the new links and holds the new head, and what could be
reached before without the removed reference still can. `LiveInv` adds that every
reference added and not removed is reached. Each step is then an action of
`HandleRegistry` or a stutter.

**`ResponseProofs`**, for any names, hashes, statuses and sizes (`NamesAssumption`:
spellings of one name share a hash; `SizeAssumption`):

| Theorem | Property |
| --- | --- |
| `ResponseTypeCorrect` | `TypeOK`, with the count within the array |
| `ArrivalOrder` | `InOrder` |
| `LastOfName` | `LastValueByName` |
| `NoUseAfterFree` | `NothingFreedReachable` |
| `AllFieldsListed` | `FieldsComplete` |

None has a hypothesis on hashes: where names collide the properties say what the
readers give instead. The invariant of the first says that nothing is counted before
the first status line (`StartInv`); that the counted slots are the lines that arrived
is `OrderInv`. The others rest on one about pointers (`HeapInv`), and on `OrderInv` where
the order of arrival matters: counted slots hold
different blocks, none of them freed (`LineInv`), and for every hash the entry
points to the first and the last of its lines, while `ref` leads from each line
to the next one and from the last to the first (`RingInv`). What a reader that
follows a ring for n steps gets to is then the n-th line after its start; that
recursion is unfolded by hand with a least counterexample (`StepsExist`,
`RingReaches`, `RingCloses`).

`AllFieldsListed` follows a listing from the slots to the map that Java shows. The
slots of a hash, numbered in order (`PlacesInOrder`), are its ring from the first
value to the last (`RingInOrder`). A walk over the map meets every entry once
(`WalkMeetsAll`), in any order, and writes two elements more for each than it has
lines, so the j-th group ends at 2j plus the lines of the first j entries, and all of
them one element behind the array (`GroupsEnd`). Concatenation puts every group in its
place (`Flattened`), and the loop of `getHeaderFields` takes one group after the
other (`FieldsParsed`): its recursion is defined for every array because the places
it reaches from a given one are a least closed set (`FieldsFrom`). An entry is the
name that came first under its hash (`NamesAreEntries`).

**`HashmapProofs`**, for any keys, hashes, values and capacities, where being the
same key is symmetric and transitive (`KeyAssumption`, `CapacityAssumption`):

| Theorem | Property |
| --- | --- |
| `LookupsAreComplete` | `LookupComplete` |
| `BucketsArePower` | `PowerInv`: `bucketCount` is a power of two |
| `WalksAgree` | `Accounted` |
| `EverySpellingFound` | `FoundInAnySpelling`, for names that are any bytes (`NameAssumption`), hashed and compared as `ComparisonAssumption` says |
| `Dictionary` | `ImplementsDictionary` |

Every operation is first shown to do one thing to the set of all entries, whatever
it does to the chains. The invariant says that an entry lies in the chain of its
hash, in the old array or in the new one (`ChainInv`), that no two entries have the
same key and none is in both arrays (`UniqueInv`), and that `size` and the
allocations are those entries (`CountInv`, `LoadInv`). That there are buckets at all,
and as many as the mask of `calculateIndex` needs, is a theorem about the loop of
`hashmapCreate` and the doubling (`PowerInv`). The walks of `hashmapForEach` and
`hashmapCountCollisions` are sums over the chains, taken apart chain by chain.
`EverySpellingFound` joins the map to the text of names: `hashCalc` gives spellings
that differ in case only the same hash, byte by byte, and `hashKeyCompare` stops with
"equal" at the first difference that it meets, which for two spellings is where it
would meet one between the name asked for and itself. The property leaves out the
names where it meets none before their end, and only as names that are asked for;
what it makes of these depends on the memory behind them. The two assumptions are
used by this theorem alone; TLC evaluates them on the names of the run.
`LookupsAreComplete` is about the map between calls: during an expansion nobody looks
anything up, and what holds then is in the invariant below it.
`Dictionary` is a refinement:
the initial map is empty, each of put, memoize, assign, remove, clear and free is
the contract's action of that name, with its result, and each step of an expansion
a stutter.

**`LockProofs`**, for any threads, counts and announced lengths (`LockAssumption`):

| Theorem | Property |
| --- | --- |
| `MutualExclusion` | `Exclusive` |
| `OwnPointers` | `CallbacksUseOwnPointers` |
| `LockHeldForAReason` | `LockAccounted` |
| `HonestWriteCount` | `WriteCountHonest` |

Exclusion follows from `LockAccounted` and one call inside at a time (`OneInside`);
a callback touches no foreign buffer because a call that runs libcurl has cleared
the count of the direction it does not use (`OneDirection`); the late result of
`write` is true because what is left and what was taken add up until somebody
else enters, who is then noted as overtaking (`WriteSum`, `EntryOvertakes`).

**`TimeoutProofs`**, for any clock, limits and timers (`ClockAssumption`: a second is a
multiple of a millisecond and longer, and no limit is above `INT32_MAX`):

| Theorem | Property |
| --- | --- |
| `TimeoutsAreEarned` | `NotTooEarly` |
| `SilenceIsBounded` | `LateButBounded` |
| `PhaseIsNamed` | `LimitOfPhase` |
| `InterruptionIsSeen` | `OneWaitAfterInterrupt` |

Never early: what was counted off since the countdown began is no more than what
the clock shows (`CountedInv`), as each round takes off at most the time between
its timestamps (`StampInv`). Never later than that bound: every second that ended
since the countdown began took off a millisecond (`SecondsInv`). The arithmetic of
quotients and remainders behind both is in lemmas of its own.

**`ConnectionProofs`**, for any URLs and any number of resets (`PeriodAssumption`):

| Theorem | Property |
| --- | --- |
| `Answers` | `AnswersThisRequest` |
| `StreamsEndWithTheirPeriod` | `OpenStreamsAreCurrent` |
| `FinalCodeIsCurrent` | `CodeIsCurrent` |
| `OneResponse` | `OneResponseShown` |
| `ListLivesOn` | `HeaderListLive` |

The invariant ties the Java side to the native one: a transfer belongs to the
present period, and one without a connection comes of a failed connect or of a
lost lock (`TransferInv`); only remembered streams may be open, and they have a
transfer (`StreamInv`); without a connection no code is remembered (`CodeInv`), and
no map or message of the present period (`CacheInv`), which is what makes those that
a connection shows its own. `ResponseInv` says of the transfer that connect has waited
for that no other response comes of it (`Ended`), a native call keeps that
(`OnwardKeeps`), and so the separate calls that take code, message and map find the
same one.

**`RequestProofs`**, for any names, values and prefixes (`HeaderAssumption`) and any
URLs and sizes (`UrlAssumption`):

| Theorem | Property |
| --- | --- |
| `WalkHasAnEntry` | `WalkIsSafe` |
| `ReadersTellWhatIsSent` | `ReadersAgree`, if `MaxLen < Width` |
| `CallsAsDocumented` | `ImplementsContract` |
| `UrlIsKept` | `UrlKept` |

`WalkIsSafe` needs no hypothesis about the counter, however far below zero removals
have taken it. The readers need one: with 65536 entries the `uint16_t` is 0 again
and they show nothing, so the theorem is about lists that it can count. Between is
`CountInv`: since the list was last empty nothing was turned off and every entry was
counted. `CallsAsDocumented` compares each call with `HeaderContract` on the entries
that are sent, which are what is left when the disabled ones are dropped; the lemmas
on `Kept` say what dropping does to the order of the rest, and `StubInv`, that a
disabled entry is the first of its name, why a set that meets one does not split the
fields of a name. It needs no hypothesis about the counter. For the URL the text holds no NUL, and NULs are behind it unless a shorter
text was written over a longer one (`UrlInv`), so that the search of `updateUrl`
ends where the text does. Whatever it takes in is behind what was wanted, so `wanted`
stays the beginning of the text.

The type invariants of these modules are part of their inductive invariants.

**Only model-checked:**

- `CallsReturn` and `Reclaimed`: liveness; the prover does not reason about fairness
  or about when an action is enabled.
- `WriteNotBlockedByDownload`, which is violated.
- The parts of `HeaderText` that only give the run its names (`NameOf`, `asciiDecode`,
  `headerToString` and the trimming functions): what they do is seen in the run, and no
  theorem depends on them.

The one hypothesis in a theorem's statement is `MaxLen < Width`, of
`ReadersTellWhatIsSent`. Where a property describes what the code does in place of
excluding it (colliding names, a spoilt URL, a lost lock), the theorem does no more.

## 5. Not modelled

- `dispose` while a call runs: it takes no lock, and that no call runs then rests
  on when the virtual machine takes an object for unreachable.
- Proxy, DNS and interface strings, and options that libcurl only stores.
- `nativeInit`, `getDnsCompat` and the log; start-up and system properties.
- Allocation failures, but for those of the hash map.
- The formatting of numbers by `MutableUrl`, `setLength` to lengths other than 0,
  arrays near 2^31.
- `HeaderMap` and its relatives, immutable views of the array that
  `HeaderListing` takes apart; `CurlProxy`; the demo.
- `linux_syscall_support.h` and `moar_syscall.h`: third-party headers of inline
  system calls, which `native-lib.c` includes and never calls.
- `hashmapHash` and the int key functions, `connect_and_pause_callback`,
  `buffer_read` and `buffer_write`, which nothing calls.

`PROJECT.json` gives the reasons under `components` and lists the hazards no
property covers yet.

## 6. Plan

The parts that were planned are modelled, and every safety property that holds is
proved. What would come next is a composition of the reaper with threads inside a
handle, once `dispose` takes the lock (now nothing but reachability keeps them
apart), and properties for the hazards that `PROJECT.json` lists without one, as the
code comes to answer them.
