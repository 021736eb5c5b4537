------------------------------- MODULE Transport -------------------------------
(***************************************************************************)
(* GitHubTransport._collect of github.py: one page after another, with     *)
(* retries, rate-limit waits, redirects and budgets, and the waiting time  *)
(* that one collection leaves to the next.                                 *)
(*                                                                         *)
(* Time is relative: wait is _ready_at minus the clock and owed what the   *)
(* server still asks for, so sleeping lowers both.  The server is free to  *)
(* answer anything, and inconsistently, at every request.                  *)
(***************************************************************************)
EXTENDS Integers

CONSTANTS
  Urls,         \* addresses of the API
  PageSizes,    \* numbers of records a page may hold
  Delays,       \* seconds a server may ask to wait; beyond MaxWait: endless
  Jitters,      \* values of the jitter
  Minute,       \* the 60 seconds of the fallbacks
  MaxCalls,     \* bound on the collections
  MaxRequests, MaxPages, MaxRecords, MaxRetries, MaxWait  \* TransportLimits

ASSUME LimitsAssumption ==
  /\ PageSizes \subseteq Nat /\ Delays \subseteq Nat /\ Jitters \subseteq Nat
  /\ Minute \in Nat /\ MaxCalls \in Nat
  /\ MaxRequests \in Nat \ {0} /\ MaxPages \in Nat \ {0}
  /\ MaxRecords \in Nat \ {0} /\ MaxRetries \in Nat /\ MaxWait \in Nat

(* A fact of arithmetic that the provers do not know of themselves.        *)
ASSUME BackoffAssumption == \A n \in 0 .. MaxRetries : 2 ^ n \in Nat

None == -1     \* a header that is absent
Garbled == -2  \* a header that does not parse

VARIABLES
  phase,      \* "idle" between collections, "loop" before a request, "sent"
  calls,      \* collections started
  c,          \* the locals of the collection
  wait,       \* seconds until _ready_at
  result,     \* the latest Collection returned
  owed,       \* history: seconds until the deadline the server announced
  received,   \* history: records of the pages received
  redirects   \* history: redirects followed, of which each took a request

vars == <<phase, calls, c, wait, result, owed, received, redirects>>

history == <<owed, received, redirects>>

Larger(a, b) == IF a >= b THEN a ELSE b

Smaller(a, b) == IF a <= b THEN a ELSE b

Minus(a, b) == Larger(0, a - b)

Fresh(u) == [url |-> u, pages |-> 0, requests |-> 0, retries |-> 0,
             records |-> 0, seen |-> {}]

Init ==
  /\ phase = "idle" /\ calls = 0
  /\ \E u \in Urls : c = Fresh(u)
  /\ wait = 0 /\ owed = 0 /\ received = 0 /\ redirects = 0
  /\ result = [status |-> "complete", reason |-> "none", records |-> 0, pages |-> 0]

-----------------------------------------------------------------------------
Return(status, reason) ==
  /\ phase' = "idle"
  /\ result' = [status |-> status, reason |-> reason,
                records |-> c'.records, pages |-> c'.pages]

(* Mutant: the pages already read do not count.                            *)
FailedPlainly(reason, partial) ==
  Return(IF partial THEN "partial" ELSE "unavailable", reason)

Failed(reason, partial) ==
  Return(IF c'.pages > 0 \/ partial THEN "partial" ELSE "unavailable", reason)

(* The headers retry-after and x-ratelimit-reset, the second only counting *)
(* once the primary limit is exhausted.                                    *)
Headers == [after : {None, Garbled} \cup Delays, reset : {None, Garbled} \cup Delays]

Announced(h) == Larger(0, Larger(h.after, h.reset))

(* Mutant: the reset is only used without a retry-after.                   *)
DelayAfterFirst(h, fallback) ==
  IF h.after = Garbled THEN fallback
  ELSE IF h.after # None THEN h.after
  ELSE IF h.reset = Garbled THEN Larger(Minute, fallback)
  ELSE IF h.reset # None THEN h.reset ELSE fallback

(* _delay: the latest of the deadlines given, or the fallback.             *)
Delay(h, fallback) ==
  LET after == IF h.after = Garbled THEN fallback ELSE h.after
      reset == IF h.reset = Garbled THEN Larger(Minute, fallback) ELSE h.reset
  IN  IF h.after = None /\ h.reset = None THEN fallback ELSE Larger(after, reset)

(* Mutant: one retry too many.                                             *)
ExhaustedLate == c.retries > MaxRetries

Exhausted == c.retries >= MaxRetries

-----------------------------------------------------------------------------
(* Between collections time passes.                                        *)
Elapse ==
  /\ phase = "idle" /\ (wait > 0 \/ owed > 0)
  /\ wait' = Minus(wait, 1) /\ owed' = Minus(owed, 1)
  /\ UNCHANGED <<phase, calls, c, result, received, redirects>>

(* A collection starts at its path; one with an unsafe path or validators  *)
(* that no header can carry ends before any request.                       *)
Collect ==
  /\ phase = "idle" /\ calls < MaxCalls
  /\ calls' = calls + 1
  /\ \E u \in Urls : c' = Fresh(u)
  /\ received' = 0 /\ redirects' = 0
  /\ \/ phase' = "loop" /\ UNCHANGED result
     \/ \E reason \in {"unsafe_url", "invalid_validator"} : Failed(reason, FALSE)
  /\ UNCHANGED <<wait, owed>>

OutOfPages == c.pages >= MaxPages
OutOfRequests == c.requests >= MaxRequests

(* The checks at the top of the loop, in their order.                      *)
GiveUp ==
  /\ phase = "loop"
  /\ \/ OutOfPages \/ OutOfRequests \/ wait > MaxWait
  /\ UNCHANGED c
  /\ Failed(IF OutOfPages THEN "page_limit"
            ELSE IF OutOfRequests THEN "request_limit" ELSE "wait_limit", TRUE)
  /\ UNCHANGED <<calls, wait, history>>

Proceeds == phase = "loop" /\ ~OutOfPages /\ ~OutOfRequests /\ wait <= MaxWait

(* Mutant: requests are not counted.                                       *)
SendUncounted ==
  /\ Proceeds
  /\ phase' = "sent"
  /\ wait' = 0 /\ owed' = 0
  /\ UNCHANGED <<calls, c, result, received, redirects>>

(* Sleep until _ready_at, then send.  What was still owed then is counted  *)
(* against this request only.                                              *)
Send ==
  /\ Proceeds
  /\ phase' = "sent"
  /\ c' = [c EXCEPT !.requests = @ + 1]
  /\ wait' = 0 /\ owed' = 0
  /\ UNCHANGED <<calls, result, received, redirects>>

-----------------------------------------------------------------------------
(* The exchange fails without a response.                                  *)
Lost ==
  /\ phase = "sent"
  /\ IF Exhausted
     THEN UNCHANGED <<c, wait>> /\ Failed("network_error", FALSE)
     ELSE /\ c' = [c EXCEPT !.retries = @ + 1]
          /\ \E j \in Jitters : wait' = 2 ^ c.retries + j
          /\ phase' = "loop"
          /\ UNCHANGED result
  /\ UNCHANGED <<calls, history>>

(* A redirect is followed within the same page, or refused: it leads out   *)
(* of the API, or nowhere.                                                 *)
Redirect ==
  /\ phase = "sent"
  /\ \/ /\ \E u \in Urls : c' = [c EXCEPT !.url = u]
        /\ phase' = "loop" /\ redirects' = Smaller(redirects + 1, MaxRequests)
        /\ UNCHANGED result
     \/ /\ UNCHANGED <<c, redirects>>
        /\ \E reason \in {"unsafe_url", "invalid_response"} : Failed(reason, FALSE)
  /\ UNCHANGED <<calls, wait, owed, received>>

(* A rate limit (429, or a 403 that says so) or a server error: wait what  *)
(* the server asks for, and retry.                                         *)
Limited(rateLimited) ==
  /\ phase = "sent"
  /\ \E h \in Headers :
       /\ owed' = Announced(h)
       /\ IF Exhausted
          THEN UNCHANGED <<c, wait>> /\ Failed("retry_limit", FALSE)
          ELSE LET backoff == 2 ^ c.retries
                   fallback == (IF rateLimited THEN Minute ELSE 1) * backoff
               IN /\ c' = [c EXCEPT !.retries = @ + 1]
                  /\ \E j \in Jitters :
                       wait' = Larger(backoff, Delay(h, fallback)) + j
                  /\ phase' = "loop" /\ UNCHANGED result
  /\ UNCHANGED <<calls, received, redirects>>

(* Any other response that is not a page: a refusal (401, 403, 404, 304),  *)
(* a body that is encoded, too large, malformed or echoes the credential,  *)
(* or a connection lost in the middle of the body.                         *)
Refused ==
  /\ phase = "sent"
  /\ UNCHANGED c
  /\ \/ \E reason \in {"unavailable", "invalid_payload", "invalid_response"} :
          Failed(reason, FALSE)
     \/ \E reason \in {"unsupported_encoding", "payload_limit"} :
          Failed(reason, TRUE)
  /\ UNCHANGED <<calls, wait, history>>

-----------------------------------------------------------------------------
Room == MaxRecords - c.records

Overflows(n) == n > Room

(* The page just received, kept as far as there is room.                   *)
Kept(n) == [c EXCEPT !.records = @ + Smaller(n, Room), !.pages = @ + 1]

(* Mutant: the page itself is not among the pages seen.                    *)
RevisitsEarlier(u) == u \in c.seen

Revisits(u) == u \in c.seen \cup {c.url}

(* With a page retry-after only counts once the primary limit is exhausted.*)
PageHeaders == {h \in Headers : h.reset = None => h.after = None}

Receive(n, h) ==
  /\ phase = "sent"
  /\ received' = received + n
  /\ owed' = Announced(h)

(* A page with more records than the budget leaves.                        *)
OverfullPage ==
  /\ \E n \in PageSizes, h \in PageHeaders :
       Receive(n, h) /\ Overflows(n) /\ c' = Kept(n)
  /\ Failed("record_limit", TRUE)
  /\ UNCHANGED <<calls, wait, redirects>>

(* An exhausted primary limit delays whatever request comes next.          *)
Fits(n, h) ==
  /\ Receive(n, h) /\ ~Overflows(n)
  /\ wait' = IF h.reset # None THEN Delay(h, 0) ELSE wait

(* The last page of a collection names no next one.                        *)
LastPage ==
  /\ \E n \in PageSizes, h \in PageHeaders :
       Fits(n, h) /\ c' = Kept(n)
  /\ Return("complete", "none")
  /\ UNCHANGED <<calls, redirects>>

(* The next page is refused: unsafe, seen before, or beyond the records.   *)
StopAtPage ==
  \E n \in PageSizes, h \in PageHeaders :
    /\ Fits(n, h) /\ c' = Kept(n)
    /\ \/ Failed("unsafe_url", FALSE)
       \/ \E u \in Urls : Revisits(u) /\ Failed("pagination_cycle", FALSE)
       \/ /\ c'.records >= MaxRecords
          /\ \E u \in Urls : ~Revisits(u)
          /\ Failed("record_limit", TRUE)
    /\ UNCHANGED <<calls, redirects>>

(* Follow the link to the next page, with a retry budget of its own.       *)
FollowPage ==
  /\ \E n \in PageSizes, h \in PageHeaders, u \in Urls :
       /\ Fits(n, h) /\ ~Revisits(u)
       /\ c' = [Kept(n) EXCEPT !.seen = @ \cup {c.url}, !.url = u, !.retries = 0]
       /\ c'.records < MaxRecords
  /\ phase' = "loop"
  /\ UNCHANGED <<calls, result, redirects>>

Next ==
  \/ Elapse \/ Collect \/ GiveUp \/ Send
  \/ Lost \/ Redirect \/ Limited(TRUE) \/ Limited(FALSE) \/ Refused
  \/ OverfullPage \/ LastPage \/ StopAtPage \/ FollowPage

(* A collection runs in one thread, and every exchange ends: the timeouts  *)
(* bound each operation of the connection.                                 *)
Spec == Init /\ [][Next]_vars /\ WF_vars(phase # "idle" /\ Next)

-----------------------------------------------------------------------------
(* A result is honest: complete only with every record of every page that  *)
(* was received; and a failure after some pages is partial, with what they *)
(* held up to the budget, never an empty or unavailable collection.        *)
ResultHonest ==
  phase = "idle" /\ calls > 0 =>
    /\ result.status = "complete" => result.records = received
    /\ result.pages > 0 => /\ result.status # "unavailable"
                           /\ result.records = Smaller(received, MaxRecords)

(* Retries are budgeted per page: what is sent beyond one request for each *)
(* page and redirect is at most MaxRetries for each page begun.            *)
RetryBudget ==
  phase # "idle" =>
    c.requests <= c.pages + redirects + (c.pages + 1) * MaxRetries + 1

(* Without redirects no page is read twice, however the server links them. *)
NoPageTwice ==
  [][calls' = calls /\ c'.pages = c.pages + 1 /\ redirects = 0 =>
       c.url \notin c.seen]_vars

Sends == calls' = calls /\ c'.requests = c.requests + 1

(* Never retry early: within a collection, and after a complete one, no    *)
(* request is sent before the deadline the server announced last.          *)
NeverEarly ==
  [][Sends /\ (c.requests > 0 \/ result.status = "complete") => owed <= wait]_vars

(* Announced deadlines are honoured, "including the next collection"       *)
(* (docs/github-transport.md:56-60), whatever the previous one came to.    *)
DeadlinesHonoured == [][Sends => owed <= wait]_vars

(* Every collection returns, however the server answers.                   *)
Returns == phase # "idle" ~> phase = "idle"
=============================================================================
