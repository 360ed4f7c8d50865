------------------------------- MODULE Timeout -------------------------------
(***************************************************************************)
(* One run of curlPerform, seen as a clock: the countdown of `timeout'     *)
(* against the two timestamps, the waits, what they report, and an         *)
(* interruption.  What libcurl transfers is reduced to whether headers and *)
(* data have come.  Time is counted in ticks, Milli of them in a           *)
(* millisecond and Second of them in a second, so that a timespec is       *)
(* <<now \div Second, now % Second>>.                                      *)
(***************************************************************************)
EXTENDS Integers

CONSTANTS
    Milli, Second,
    Timeouts,       \* what setConnectTimeout and setReadTimeout were given, in ms
    Timers,         \* what curl_multi_timeout may answer, in ms; -1: no timer
    Delay,          \* bound on the ticks that a perform, or the return of a wait, takes
    MaxNow          \* bound on the clock

\* INT32_MAX: more than the clock will show
Forever == MaxNow + 1

\* a second has several milliseconds, the clock shows more than a second, and no int
\* is above INT32_MAX
ASSUME ClockAssumption ==
    /\ Milli \in Nat \ {0} /\ Second \in Nat \ {0}
    /\ Second % Milli = 0 /\ Second > Milli
    /\ Timeouts \subseteq Int /\ Timers \subseteq Int
    /\ Delay \in Nat /\ MaxNow \in Nat /\ MaxNow >= Second
    /\ \A t \in Timeouts : t <= Forever

VARIABLES
    now,                        \* CLOCK_MONOTONIC
    connTimeout, readTimeout,
    headerPairCount,            \* 0, or 1 for any more
    timeout, timeoutTimestamp, fdEvents,    \* locals of curlPerform
    waitTime,                   \* local of a round, 0 between rounds
    interrupted,
    pc,
    outcome,
    started,                    \* history: when the call began
    limit,                      \* history: what `timeout' was last set to
    since,                      \* history: when that was
    spun,                       \* history: a round since then did not wait its time
    told,                       \* history: a wait has reported events after headers had come
    lateWaits                   \* history: the waits begun after the interruption

timing == <<timeout, timeoutTimestamp, fdEvents, waitTime>>
hist == <<started, limit, since, spun, told, lateWaits>>
vars == <<now, connTimeout, readTimeout, headerPairCount, timing, interrupted, pc,
          outcome, hist>>

\* nativeConfigure: 0 and less are for ever
Limit(t) == IF t <= 0 THEN Forever ELSE t

\* mutant: the limit of the connection all along
ConnectLimit == connTimeout

\* the limit of the phase that the transfer is in
PhaseLimit == IF headerPairCount = 0 THEN connTimeout ELSE readTimeout

\* curlPerform up to its loop
Init ==
    /\ now \in 0..(Second - 1)
    /\ \E c, r \in Timeouts : connTimeout = Limit(c) /\ readTimeout = Limit(r)
    /\ headerPairCount \in {0, 1}
    /\ timeout = PhaseLimit
    /\ timeoutTimestamp = now
    /\ fdEvents = FALSE
    /\ waitTime = 0
    /\ interrupted = FALSE
    /\ pc = "top"
    /\ outcome = "none"
    /\ started = now /\ since = now /\ limit = PhaseLimit
    /\ spun = FALSE /\ told = FALSE /\ lateWaits = 0

Return(o) == pc' = "done" /\ outcome' = o

-----------------------------------------------------------------------------
\* mutant: the flag as the call found it
LookCached(next) == pc' = next /\ UNCHANGED outcome

\* a look at the interruption flag
Look(next) ==
    \/ interrupted /\ Return("interrupted")
    \/ ~interrupted /\ pc' = next /\ UNCHANGED outcome

\* the head of the loop
LoopTop ==
    /\ pc = "top"
    /\ Look("perform")
    /\ UNCHANGED <<now, connTimeout, readTimeout, headerPairCount, timing, interrupted, hist>>

\* curl_multi_perform: headers may come; it takes d ticks
Perform(d, h) ==
    /\ pc = "perform"
    /\ now + d <= MaxNow
    /\ now' = now + d
    /\ h \in {headerPairCount, 1}
    /\ headerPairCount' = h
    /\ pc' = "check"
    /\ UNCHANGED <<connTimeout, readTimeout, timing, interrupted, outcome, hist>>

\* an error, the end of the transfer, or a pause that the caller asked for
Finishes ==
    /\ pc = "check"
    /\ Return("finished")
    /\ UNCHANGED <<now, connTimeout, readTimeout, headerPairCount, timing, interrupted, hist>>

\* the second look at the interruption flag
Check ==
    /\ pc = "check"
    /\ Look("decide")
    /\ UNCHANGED <<now, connTimeout, readTimeout, headerPairCount, timing, interrupted, hist>>

\* curl_multi_timeout answers t; there is a wait only for a positive time
Decide(t) ==
    /\ pc = "decide"
    /\ waitTime' = IF timeout < t THEN timeout ELSE t
    /\ IF waitTime' > 0
         THEN /\ pc' = "waiting"
              /\ lateWaits' = IF interrupted THEN lateWaits + 1 ELSE lateWaits
              /\ UNCHANGED spun
         ELSE /\ pc' = "after"
              /\ spun' = TRUE
              /\ UNCHANGED lateWaits
    /\ UNCHANGED <<now, connTimeout, readTimeout, headerPairCount, timeout,
                   timeoutTimestamp, fdEvents, interrupted, outcome, started, limit, since, told>>

\* curl_multi_wait reports sockets with events after d ticks
EventsCome(d) ==
    /\ pc = "waiting"
    /\ d <= waitTime * Milli /\ now + d <= MaxNow
    /\ now' = now + d
    /\ fdEvents' = TRUE
    /\ told' = (headerPairCount > 0)
    /\ pc' = "after"
    /\ UNCHANGED <<connTimeout, readTimeout, headerPairCount, timeout, timeoutTimestamp,
                   waitTime, interrupted, outcome, started, limit, since, spun, lateWaits>>

\* curl_multi_wait ends without events: after its time, or before it by a signal
\* or because libcurl has no socket to wait for
NothingComes(d) ==
    /\ pc = "waiting"
    /\ now + d <= MaxNow
    /\ now' = now + d
    /\ fdEvents' = FALSE
    /\ spun' = (spun \/ d < waitTime * Milli)
    /\ pc' = "after"
    /\ UNCHANGED <<connTimeout, readTimeout, headerPairCount, timeout, timeoutTimestamp,
                   waitTime, interrupted, outcome, started, limit, since, told, lateWaits>>

WaitFails ==
    /\ pc = "waiting"
    /\ Return("failed")
    /\ UNCHANGED <<now, connTimeout, readTimeout, headerPairCount, timing, interrupted, hist>>

-----------------------------------------------------------------------------
\* mutant: the milliseconds are taken off as if a second had passed
CountedOffUp ==
    LET sec == now \div Second - timeoutTimestamp \div Second
        diff_nsec == (now % Second) - (timeoutTimestamp % Second)
    IN IF diff_nsec < 0
         THEN sec * (Second \div Milli) + (diff_nsec + Second) \div Milli
         ELSE sec * (Second \div Milli)

\* mutant: whole seconds only
CountedOffSeconds ==
    LET sec == now \div Second - timeoutTimestamp \div Second
        diff_nsec == (now % Second) - (timeoutTimestamp % Second)
    IN IF diff_nsec < 0 THEN (sec - 1) * (Second \div Milli) ELSE sec * (Second \div Milli)

\* what the countdown takes off: the fraction of a second counts only when the
\* nanoseconds have wrapped around
CountedOff ==
    LET sec == now \div Second - timeoutTimestamp \div Second
        diff_nsec == (now % Second) - (timeoutTimestamp % Second)
    IN IF diff_nsec < 0
         THEN (sec - 1) * (Second \div Milli) + (diff_nsec + Second) \div Milli
         ELSE sec * (Second \div Milli)

\* fdEvents, of this wait or of an earlier one, starts the countdown anew; the
\* timestamp stays
Restart ==
    /\ pc = "after" /\ fdEvents
    /\ timeout' = PhaseLimit
    /\ limit' = PhaseLimit /\ since' = now /\ spun' = FALSE
    /\ waitTime' = 0
    /\ pc' = "top"
    /\ UNCHANGED <<now, connTimeout, readTimeout, headerPairCount, timeoutTimestamp,
                   fdEvents, interrupted, outcome, started, told, lateWaits>>

\* throwTimeout
Thrown == IF headerPairCount > 0 THEN "readTimeout" ELSE "connectTimeout"

CountDown ==
    /\ pc = "after" /\ ~fdEvents
    /\ timeout' = timeout - CountedOff
    /\ \/ /\ timeout' <= 0
          /\ Return(Thrown)
          /\ UNCHANGED timeoutTimestamp
       \/ /\ timeout' > 0
          /\ timeoutTimestamp' = now
          /\ pc' = "top"
          /\ UNCHANGED outcome
    /\ waitTime' = 0
    /\ UNCHANGED <<now, connTimeout, readTimeout, headerPairCount, fdEvents, interrupted, hist>>

\* another thread interrupts this one
Interrupt ==
    /\ pc # "done" /\ ~interrupted
    /\ interrupted' = TRUE
    /\ UNCHANGED <<now, connTimeout, readTimeout, headerPairCount, timing, pc, outcome, hist>>

Next ==
    \/ LoopTop
    \/ \E d \in 0..Delay, h \in {0, 1} : Perform(d, h)
    \/ Finishes \/ Check \/ WaitFails
    \/ \E t \in Timers : Decide(t)
    \/ \E d \in 0..MaxNow : EventsCome(d)
    \/ \E d \in 0..(waitTime * Milli + Delay) : NothingComes(d)
    \/ Restart \/ CountDown \/ Interrupt

Spec == Init /\ [][Next]_vars

-----------------------------------------------------------------------------
(* Properties *)

\* Every variable stays in its type, and the countdown stays above 0 while the
\* loop goes on.
TypeOK ==
    /\ now \in 0..MaxNow /\ timeoutTimestamp \in 0..now
    /\ {started, since} \subseteq 0..now
    /\ connTimeout \in 1..Forever /\ readTimeout \in 1..Forever
    /\ headerPairCount \in {0, 1}
    /\ timeout \in Int /\ (pc # "done" => timeout > 0)
    /\ waitTime \in Int /\ (pc = "waiting" => waitTime \in 1..timeout)
    /\ {fdEvents, interrupted, spun, told} \subseteq BOOLEAN
    /\ pc \in {"top", "perform", "check", "decide", "waiting", "after", "done"}
    /\ outcome \in {"none", "interrupted", "finished", "failed",
                    "connectTimeout", "readTimeout"}
    /\ limit \in {connTimeout, readTimeout}
    /\ lateWaits \in Nat

TimedOut == outcome \in {"connectTimeout", "readTimeout"}

\* A call times out only if it has lasted at least its limit, although seconds and
\* nanoseconds are subtracted apart, and never with a limit of 0.
NotTooEarly ==
    /\ TypeOK
    /\ TimedOut => now - started >= limit * Milli /\ limit < Forever

\* A call that waits in every round and meets silence goes on for less than as many
\* seconds as its limit has milliseconds: every second that ends within a wait takes
\* off a millisecond or more.
LateButBounded ==
    pc = "top" /\ ~spun /\ ~fdEvents => now - since < limit * Second

\* The exception names the phase: a timeout before any header is one of connecting.
\* The limit follows with the first events that are reported after headers came.
LimitOfPhase ==
    /\ outcome = "connectTimeout" => limit = connTimeout
    /\ TimedOut /\ told => outcome = "readTimeout" /\ limit = readTimeout

\* An interruption may come between the last look at the flag and the wait, and
\* that wait may then run to its end; no other wait is begun after it.
OneWaitAfterInterrupt == lateWaits <= 1
=============================================================================
