---------------------------- MODULE MCConnection ----------------------------
(* Connection as it is; the instance is given in the configuration.  No URL is told *)
(* from another.  Of a message and a map that a reset has kept nothing is told, and *)
(* neither of those taken with an upload, of which no property speaks.              *)
EXTENDS Connection, TLC

UrlSymmetry == Permutations(Urls)

Seen(c) == IF c # None /\ (c.period < period \/ doOutput) THEN "taken" ELSE c

View == <<url, connected, responseCode, Seen(responseMessage), Seen(headerMap), streams, settings,
          engine, call, period, listStale, history>>
=============================================================================
