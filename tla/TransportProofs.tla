---------------------------- MODULE TransportProofs ----------------------------
(***************************************************************************)
(* Proofs about Transport for any server, any limits and any number of     *)
(* collections: results are honest, retries are budgeted per page, no page *)
(* is read twice without redirects and no request is sent early.           *)
(***************************************************************************)
EXTENDS Transport, TLAPS

Locals == [url : Urls, pages : Nat, requests : 0 .. MaxRequests,
           retries : 0 .. MaxRetries, records : 0 .. MaxRecords,
           seen : SUBSET Urls]

Shape ==
  /\ phase \in {"idle", "loop", "sent"}
  /\ calls \in Nat /\ wait \in Nat /\ owed \in Nat
  /\ received \in Nat /\ redirects \in Nat
  /\ c \in Locals

(* While a collection runs nothing it received has been dropped.           *)
Accounted == phase # "idle" => c.records = received

(* What was sent is explained by pages, redirects and failures.            *)
Explained ==
  phase # "idle" =>
    c.requests <= c.pages + redirects + c.pages * MaxRetries + c.retries
                    + (IF phase = "sent" THEN 1 ELSE 0)

(* Without redirects the next address is a new one.                        *)
Straight == phase # "idle" /\ redirects = 0 => c.url \notin c.seen

(* Before a request that must not be early, the wait covers the deadline.  *)
Patient ==
  /\ phase = "sent" => wait = 0 /\ owed = 0
  /\ \/ phase = "loop" /\ c.requests > 0
     \/ phase # "sent" /\ result.status = "complete"
     => owed <= wait

TInv ==
  /\ Shape /\ Accounted /\ Explained /\ Straight /\ Patient /\ ResultHonest

-----------------------------------------------------------------------------
(* The wait that headers lead to covers what they announce.                *)
LEMMA DelayCovers ==
  ASSUME NEW h \in Headers, NEW fallback \in Nat
  PROVE  /\ Announced(h) \in Nat /\ Delay(h, fallback) \in Int
         /\ Announced(h) <= Larger(0, Delay(h, fallback))
         /\ h.reset # None => /\ Delay(h, fallback) \in Nat
                              /\ Announced(h) <= Delay(h, fallback)
         /\ h.after = None /\ h.reset = None => Announced(h) = 0
<1>1. h.after \in {None, Garbled} \cup Delays /\ h.reset \in {None, Garbled} \cup Delays
  BY DEF Headers
<1>2. h.after \in Int /\ h.reset \in Int
  <2>1. None \in Int /\ Garbled \in Int BY DEF None, Garbled
  <2>2. Delays \subseteq Int BY LimitsAssumption
  <2> QED BY <1>1, <2>1, <2>2
<1>3. CASE h.after = None
  BY <1>1, <1>2, <1>3, LimitsAssumption DEF Announced, Delay, Larger, None, Garbled
<1>4. CASE h.after = Garbled
  BY <1>1, <1>2, <1>4, LimitsAssumption DEF Announced, Delay, Larger, None, Garbled
<1>5. CASE h.after \in Delays
  <2>1. h.after \in Nat BY <1>5, LimitsAssumption
  <2>2. CASE h.reset \in {None, Garbled}
    BY <1>2, <2>1, <2>2, LimitsAssumption
       DEF Announced, Delay, Larger, None, Garbled
  <2>3. CASE h.reset \in Delays
    <3>1. h.reset \in Nat BY <2>3, LimitsAssumption
    <3> QED
      BY <1>2, <2>1, <3>1 DEF Announced, Delay, Larger, None, Garbled
  <2> QED BY <1>1, <2>2, <2>3
<1> QED BY <1>1, <1>3, <1>4, <1>5

(* A collection that fails as it stands keeps the invariant.               *)
LEMMA FailedAsItStands ==
  ASSUME TInv, phase # "idle", NEW reason, NEW partial \in BOOLEAN,
         UNCHANGED <<c, calls, received, redirects>>,
         wait' \in Nat, owed' \in Nat, Failed(reason, partial)
  PROVE  TInv'
<1>1. phase' = "idle" /\ result'.status # "complete" /\ result'.pages = c.pages
      /\ result'.records = c.records
      /\ (c.pages > 0 => result'.status = "partial")
  BY DEF Failed, Return
<1>2. Shape' BY <1>1 DEF TInv, Shape
<1>3. Accounted' /\ Explained' /\ Straight' /\ Patient'
  BY <1>1 DEF Accounted, Explained, Straight, Patient
<1>4. ResultHonest'
  <2>1. c.records = received /\ c.records <= MaxRecords /\ c.records \in Nat
    BY DEF TInv, Shape, Locals, Accounted
  <2> QED BY <1>1, <2>1, LimitsAssumption DEF ResultHonest, Smaller
<1> QED BY <1>2, <1>3, <1>4 DEF TInv

(* The initial states satisfy the invariant.                               *)
LEMMA InitTInv == Init => TInv
<1> SUFFICES ASSUME Init PROVE TInv OBVIOUS
<1>1. PICK u \in Urls : c = Fresh(u) BY DEF Init
<1>2. Shape BY <1>1, LimitsAssumption DEF Init, Shape, Locals, Fresh
<1> QED
  BY <1>2 DEF Init, TInv, Accounted, Explained, Straight, Patient, ResultHonest

(* Time passing lowers wait and owed alike.                                *)
LEMMA ElapseTInv == ASSUME TInv, Elapse PROVE TInv'
<1>1. Shape' BY DEF TInv, Shape, Elapse, Minus, Larger
<1>2. Accounted' /\ Explained' /\ Straight'
  BY DEF Elapse, Accounted, Explained, Straight
<1>3. Patient'
  BY DEF TInv, Shape, Elapse, Patient, Minus, Larger
<1>4. ResultHonest' BY DEF TInv, Elapse, ResultHonest
<1> QED BY <1>1, <1>2, <1>3, <1>4 DEF TInv

(* A collection begins with everything at zero.                            *)
LEMMA CollectTInv == ASSUME TInv, Collect PROVE TInv'
<1>1. PICK u \in Urls : c' = Fresh(u) BY DEF Collect
<1>2. /\ c' \in Locals /\ c'.records = 0 /\ c'.pages = 0 /\ c'.requests = 0
      /\ c'.retries = 0 /\ c'.seen = {}
  BY <1>1, LimitsAssumption DEF Fresh, Locals
<1>3. phase = "idle" /\ calls' = calls + 1 /\ received' = 0 /\ redirects' = 0
      /\ wait' = wait /\ owed' = owed
  BY DEF Collect
<1>4. CASE phase' = "loop" /\ UNCHANGED result
  <2>1. Shape' BY <1>2, <1>3, <1>4 DEF TInv, Shape
  <2>2. Accounted' /\ Straight' BY <1>2, <1>3 DEF Accounted, Straight
  <2>3. Explained' BY <1>2, <1>3, <1>4, LimitsAssumption DEF Explained
  <2>4. Patient' BY <1>2, <1>3, <1>4 DEF TInv, Patient
  <2>5. ResultHonest' BY <1>4 DEF ResultHonest
  <2> QED BY <2>1, <2>2, <2>3, <2>4, <2>5 DEF TInv
<1>5. CASE \E reason \in {"unsafe_url", "invalid_validator"} : Failed(reason, FALSE)
  <2>1. phase' = "idle" /\ result'.status = "unavailable" /\ result'.pages = 0
    BY <1>2, <1>5 DEF Failed, Return
  <2>2. Shape' BY <1>2, <1>3, <2>1 DEF TInv, Shape
  <2>3. Accounted' /\ Straight' /\ Explained' /\ Patient' /\ ResultHonest'
    BY <2>1 DEF Accounted, Straight, Explained, Patient, ResultHonest
  <2> QED BY <2>2, <2>3 DEF TInv
<1> QED BY <1>4, <1>5 DEF Collect

(* Sending settles what the wait covered.                                  *)
LEMMA SendTInv == ASSUME TInv, Send PROVE TInv'
<1>1. phase = "loop" /\ phase' = "sent" /\ c' = [c EXCEPT !.requests = @ + 1]
      /\ wait' = 0 /\ owed' = 0 /\ c.requests < MaxRequests
      /\ UNCHANGED <<calls, result, received, redirects>>
  BY LimitsAssumption DEF TInv, Shape, Locals, Send, Proceeds, OutOfRequests
<1>2. Shape' BY <1>1, LimitsAssumption DEF TInv, Shape, Locals
<1>3. Accounted' /\ Straight' /\ Patient' /\ ResultHonest'
  BY <1>1 DEF TInv, Shape, Locals, Accounted, Straight, Patient, ResultHonest
<1>4. Explained' BY <1>1, LimitsAssumption DEF TInv, Shape, Locals, Explained
<1> QED BY <1>2, <1>3, <1>4 DEF TInv

-----------------------------------------------------------------------------
(* A failed exchange is retried: it takes one retry of the page's budget.  *)
LEMMA RetryTInv ==
  ASSUME TInv, phase = "sent", ~Exhausted, phase' = "loop",
         c' = [c EXCEPT !.retries = @ + 1],
         UNCHANGED <<calls, result, received, redirects>>,
         wait' \in Nat, owed' \in Nat, owed' <= wait'
  PROVE  TInv'
<1>1. c.retries < MaxRetries
  BY LimitsAssumption DEF Exhausted, TInv, Shape, Locals
<1>2. Shape' BY <1>1, LimitsAssumption DEF TInv, Shape, Locals
<1>3. Accounted' /\ Straight' /\ Patient' /\ ResultHonest'
  BY DEF TInv, Shape, Locals, Accounted, Straight, Patient, ResultHonest
<1>4. Explained' BY LimitsAssumption DEF TInv, Shape, Locals, Explained
<1> QED BY <1>2, <1>3, <1>4 DEF TInv

LEMMA LostTInv == ASSUME TInv, Lost PROVE TInv'
<1>1. phase = "sent" /\ UNCHANGED <<calls, owed, received, redirects>>
  BY DEF Lost, history
<1>2. CASE Exhausted
  BY <1>1, <1>2, FailedAsItStands DEF Lost, TInv, Shape
<1>3. CASE ~Exhausted
  <2>1. PICK j \in Jitters : wait' = 2 ^ c.retries + j BY <1>3 DEF Lost
  <2>2. wait' \in Nat
    <3>1. c.retries \in 0 .. MaxRetries BY DEF TInv, Shape, Locals
    <3>2. 2 ^ c.retries \in Nat BY <3>1, BackoffAssumption
    <3> QED BY <2>1, <3>2, LimitsAssumption
  <2>3. owed' = 0 BY <1>1 DEF TInv, Patient
  <2> QED BY <1>1, <1>3, <2>2, <2>3, RetryTInv DEF Lost
<1> QED BY <1>2, <1>3

LEMMA LimitedTInv ==
  ASSUME TInv, NEW rateLimited \in BOOLEAN, Limited(rateLimited) PROVE TInv'
<1>1. phase = "sent" /\ UNCHANGED <<calls, received, redirects>> BY DEF Limited
<1> DEFINE backoff == 2 ^ c.retries
           fallback == (IF rateLimited THEN Minute ELSE 1) * backoff
<1>2. PICK h \in Headers :
        /\ owed' = Announced(h)
        /\ IF Exhausted
           THEN UNCHANGED <<c, wait>> /\ Failed("retry_limit", FALSE)
           ELSE /\ c' = [c EXCEPT !.retries = @ + 1]
                /\ \E j \in Jitters :
                     wait' = Larger(backoff, Delay(h, fallback)) + j
                /\ phase' = "loop" /\ UNCHANGED result
  BY DEF Limited
<1>3. backoff \in Nat
  <2>1. c.retries \in 0 .. MaxRetries BY DEF TInv, Shape, Locals
  <2> QED BY <2>1, BackoffAssumption
<1>4. fallback \in Nat
  <2>1. CASE rateLimited BY <1>3, <2>1, LimitsAssumption
  <2>2. CASE ~rateLimited BY <1>3, <2>2
  <2> QED BY <2>1, <2>2
<1>5. owed' \in Nat BY <1>2, <1>4, DelayCovers
<1>6. CASE Exhausted
  BY <1>1, <1>2, <1>5, <1>6, FailedAsItStands DEF TInv, Shape
<1>7. CASE ~Exhausted
  <2> HIDE DEF backoff, fallback
  <2>1. PICK j \in Jitters : wait' = Larger(backoff, Delay(h, fallback)) + j
    BY <1>2, <1>7
  <2>2. /\ Delay(h, fallback) \in Int /\ Announced(h) \in Nat
        /\ Announced(h) <= Larger(0, Delay(h, fallback))
    BY <1>4, DelayCovers
  <2>3. wait' \in Nat /\ owed' <= wait'
    BY <1>2, <1>3, <2>1, <2>2, LimitsAssumption DEF Larger
  <2> QED BY <1>1, <1>2, <1>5, <1>7, <2>3, RetryTInv
<1> QED BY <1>6, <1>7

(* A redirect stands for the request it took.                              *)
LEMMA RedirectTInv == ASSUME TInv, Redirect PROVE TInv'
<1>1. phase = "sent" /\ UNCHANGED <<calls, wait, owed, received>> BY DEF Redirect
<1>2. CASE /\ \E u \in Urls : c' = [c EXCEPT !.url = u]
           /\ phase' = "loop" /\ redirects' = Smaller(redirects + 1, MaxRequests)
           /\ UNCHANGED result
  <2>1. PICK u \in Urls : c' = [c EXCEPT !.url = u] BY <1>2
  <2>2. redirects' \in Nat /\ redirects' # 0
        /\ (redirects' = redirects + 1 \/ redirects' = MaxRequests)
    BY <1>2, LimitsAssumption DEF Smaller, TInv, Shape
  <2>3. Shape' BY <1>1, <1>2, <2>1, <2>2 DEF TInv, Shape, Locals
  <2>4. Accounted' /\ Straight' /\ Patient' /\ ResultHonest'
    BY <1>1, <1>2, <2>1, <2>2
       DEF TInv, Shape, Locals, Accounted, Straight, Patient, ResultHonest
  <2>5. Explained'
    <3> DEFINE spent == c.pages * MaxRetries
    <3>1. /\ spent \in Nat /\ c.pages \in Nat /\ c.retries \in Nat
          /\ c.requests <= MaxRequests /\ c.requests \in Nat
      BY LimitsAssumption DEF TInv, Shape, Locals
    <3>2. c.requests <= c.pages + redirects + spent + c.retries + 1
      BY <1>1 DEF TInv, Explained
    <3>3. c'.requests = c.requests /\ c'.pages = c.pages /\ c'.retries = c.retries
      BY <2>1 DEF TInv, Shape, Locals
    <3> HIDE DEF spent
    <3>4. c.requests <= c.pages + redirects' + spent + c.retries
      BY <2>2, <3>1, <3>2, LimitsAssumption DEF TInv, Shape
    <3> QED BY <1>2, <3>1, <3>3, <3>4, <2>2 DEF Explained, spent
  <2> QED BY <2>3, <2>4, <2>5 DEF TInv
<1>3. CASE /\ UNCHANGED <<c, redirects>>
           /\ \E reason \in {"unsafe_url", "invalid_response"} : Failed(reason, FALSE)
  BY <1>1, <1>3, FailedAsItStands DEF TInv, Shape
<1> QED BY <1>2, <1>3 DEF Redirect

-----------------------------------------------------------------------------
(* Keeping a page adds its records and counts it, and nothing else.        *)
LEMMA KeptIs ==
  ASSUME c \in Locals, NEW n \in Nat,
         c.records + Smaller(n, Room) \in 0 .. MaxRecords
  PROVE  /\ Kept(n) \in Locals
         /\ Kept(n).records = c.records + Smaller(n, Room)
         /\ Kept(n).pages = c.pages + 1
         /\ Kept(n).url = c.url /\ Kept(n).seen = c.seen
         /\ Kept(n).requests = c.requests /\ Kept(n).retries = c.retries
<1> DEFINE total == c.records + Smaller(n, Room)
           longer == [c EXCEPT !.records = total]
<1>1. total \in 0 .. MaxRecords OBVIOUS
<1>2. Kept(n) = [longer EXCEPT !.pages = c.pages + 1] BY DEF Kept
<1> HIDE DEF total
<1>3. /\ longer \in Locals /\ longer.records = total
      /\ longer.url = c.url /\ longer.seen = c.seen /\ longer.pages = c.pages
      /\ longer.requests = c.requests /\ longer.retries = c.retries
  BY <1>1 DEF Locals
<1>4. c.pages + 1 \in Nat BY DEF Locals
<1> HIDE DEF longer
<1> QED BY <1>2, <1>3, <1>4 DEF Locals, total

(* What a page that fits leaves behind.                                    *)
LEMMA FitsKeeps ==
  ASSUME TInv, NEW n \in PageSizes, NEW h \in PageHeaders, Fits(n, h)
  PROVE  /\ phase = "sent" /\ received' = received + n
         /\ Kept(n) \in Locals /\ Kept(n).records = c.records + n
         /\ Kept(n).pages = c.pages + 1 /\ Kept(n).url = c.url
         /\ Kept(n).seen = c.seen /\ Kept(n).requests = c.requests
         /\ c.records + n \in 0 .. MaxRecords /\ c.records = received
         /\ wait' \in Nat /\ owed' \in Nat /\ owed' <= wait'
<1>1. phase = "sent" /\ received' = received + n /\ owed' = Announced(h)
      /\ ~Overflows(n) /\ wait' = (IF h.reset # None THEN Delay(h, 0) ELSE wait)
  BY DEF Fits, Receive
<1>2. c.records \in 0 .. MaxRecords /\ c.records = received
  BY <1>1 DEF TInv, Shape, Locals, Accounted
<1>3. n \in Nat /\ Smaller(n, Room) = n /\ c.records + n \in 0 .. MaxRecords
  BY <1>1, <1>2, LimitsAssumption DEF Overflows, Room, Smaller
<1>4. wait' \in Nat /\ owed' \in Nat /\ owed' <= wait'
  <2>1. wait = 0 BY <1>1 DEF TInv, Patient
  <2>2. /\ Announced(h) \in Nat
        /\ h.reset # None => /\ Delay(h, 0) \in Nat
                             /\ Announced(h) <= Delay(h, 0)
        /\ h.reset = None => Announced(h) = 0
    BY DelayCovers DEF PageHeaders
  <2> QED BY <1>1, <2>1, <2>2
<1>5. c \in Locals BY DEF TInv, Shape
<1> QED BY <1>1, <1>2, <1>3, <1>4, <1>5, KeptIs

(* A collection that ends with a page it kept whole.                       *)
LEMMA EndWithPage ==
  ASSUME TInv, NEW n \in PageSizes, NEW h \in PageHeaders, Fits(n, h),
         c' = Kept(n), UNCHANGED <<calls, redirects>>,
         phase' = "idle", result'.records = c'.records, result'.pages = c'.pages,
         result'.status # "unavailable"
  PROVE  TInv'
<1>1. /\ received' = received + n /\ wait' \in Nat /\ owed' \in Nat
      /\ owed' <= wait' /\ c.records + n \in 0 .. MaxRecords
      /\ c.records = received /\ c' \in Locals /\ c'.records = c.records + n
  BY FitsKeeps
<1>2. c'.records = received' BY <1>1
<1>3. Shape' BY <1>1, <1>2, LimitsAssumption DEF TInv, Shape
<1>4. Accounted' /\ Explained' /\ Straight' /\ Patient'
  BY <1>1 DEF Accounted, Explained, Straight, Patient
<1>5. ResultHonest'
  BY <1>1, <1>2, LimitsAssumption DEF ResultHonest, Smaller
<1> QED BY <1>3, <1>4, <1>5 DEF TInv

LEMMA LastPageTInv == ASSUME TInv, LastPage PROVE TInv'
<1>1. PICK n \in PageSizes, h \in PageHeaders :
        Fits(n, h) /\ c' = Kept(n)
  BY DEF LastPage
<1>2. phase' = "idle" /\ result'.status = "complete"
      /\ result'.records = c'.records /\ result'.pages = c'.pages
  BY DEF LastPage, Return
<1> QED BY <1>1, <1>2, EndWithPage DEF LastPage

LEMMA StopAtPageTInv == ASSUME TInv, StopAtPage PROVE TInv'
<1>1. PICK n \in PageSizes, h \in PageHeaders :
        /\ Fits(n, h) /\ c' = Kept(n)
        /\ \E reason, partial : Failed(reason, partial)
        /\ UNCHANGED <<calls, redirects>>
  BY DEF StopAtPage
<1>2. c'.pages > 0 BY <1>1 DEF Kept, TInv, Shape, Locals
<1>3. phase' = "idle" /\ result'.status = "partial"
      /\ result'.records = c'.records /\ result'.pages = c'.pages
  BY <1>1, <1>2 DEF Failed, Return
<1> QED BY <1>1, <1>3, EndWithPage

LEMMA OverfullPageTInv == ASSUME TInv, OverfullPage PROVE TInv'
<1>1. PICK n \in PageSizes, h \in PageHeaders :
        Receive(n, h) /\ Overflows(n) /\ c' = Kept(n)
  BY DEF OverfullPage
<1>2. phase = "sent" /\ received' = received + n /\ owed' = Announced(h)
      /\ UNCHANGED <<calls, wait, redirects>>
  BY <1>1 DEF OverfullPage, Receive
<1>3. owed' \in Nat BY <1>2, DelayCovers DEF PageHeaders
<1>4. c.records \in 0 .. MaxRecords /\ c.records = received
  BY <1>2 DEF TInv, Shape, Locals, Accounted
<1>5. n \in Nat /\ received' > MaxRecords /\ c.records + Smaller(n, Room) = MaxRecords
  BY <1>1, <1>2, <1>4, LimitsAssumption DEF Overflows, Room, Smaller
<1>6. c' \in Locals /\ c'.records = MaxRecords
  BY <1>1, <1>5, KeptIs, LimitsAssumption DEF TInv, Shape
<1>7. phase' = "idle" /\ result'.status = "partial" /\ result'.records = c'.records
  BY DEF OverfullPage, Failed, Return
<1>8. Shape' BY <1>2, <1>3, <1>5, <1>6, <1>7 DEF TInv, Shape
<1>9. Accounted' /\ Explained' /\ Straight' /\ Patient'
  BY <1>7 DEF Accounted, Explained, Straight, Patient
<1>10. ResultHonest'
  BY <1>5, <1>6, <1>7, <1>2, LimitsAssumption DEF ResultHonest, Smaller
<1> QED BY <1>8, <1>9, <1>10 DEF TInv

(* The next page has a retry budget of its own, and a new address.         *)
LEMMA FollowPageTInv == ASSUME TInv, FollowPage PROVE TInv'
<1>1. PICK n \in PageSizes, h \in PageHeaders, u \in Urls :
        /\ Fits(n, h) /\ ~Revisits(u)
        /\ c' = [Kept(n) EXCEPT !.seen = @ \cup {c.url}, !.url = u, !.retries = 0]
  BY DEF FollowPage
<1>2. phase' = "loop" /\ UNCHANGED <<calls, result, redirects>> BY DEF FollowPage
<1>3. /\ phase = "sent" /\ received' = received + n /\ wait' \in Nat
      /\ owed' \in Nat /\ owed' <= wait' /\ c.records + n \in 0 .. MaxRecords
      /\ c.records = received
      /\ Kept(n) \in Locals /\ Kept(n).records = c.records + n
      /\ Kept(n).pages = c.pages + 1 /\ Kept(n).requests = c.requests
      /\ Kept(n).seen = c.seen
  BY <1>1, FitsKeeps
<1>4. /\ c' \in Locals /\ c'.records = c.records + n /\ c'.pages = c.pages + 1
      /\ c'.requests = c.requests /\ c'.retries = 0 /\ c'.url = u
      /\ c'.seen = c.seen \cup {c.url}
  <2>1. c.url \in Urls BY DEF TInv, Shape, Locals
  <2> DEFINE kept == Kept(n)
             read == [kept EXCEPT !.seen = kept.seen \cup {c.url}]
             onward == [read EXCEPT !.url = u]
  <2>2. c' = [onward EXCEPT !.retries = 0] BY <1>1
  <2>3. kept \in Locals /\ kept.records = c.records + n
        /\ kept.pages = c.pages + 1 /\ kept.requests = c.requests
        /\ kept.seen = c.seen
    BY <1>3
  <2> HIDE DEF kept
  <2>4. read \in Locals /\ read.records = c.records + n
        /\ read.pages = c.pages + 1 /\ read.requests = c.requests
        /\ read.seen = c.seen \cup {c.url}
    BY <2>1, <2>3 DEF Locals
  <2> HIDE DEF read
  <2>5. onward \in Locals /\ onward.records = c.records + n
        /\ onward.pages = c.pages + 1 /\ onward.requests = c.requests
        /\ onward.seen = c.seen \cup {c.url} /\ onward.url = u
    BY <1>1, <2>4 DEF Locals
  <2> HIDE DEF onward
  <2> QED BY <2>2, <2>5, LimitsAssumption DEF Locals
<1>5. Shape' BY <1>2, <1>3, <1>4, LimitsAssumption DEF TInv, Shape
<1>6. Accounted' /\ Straight' /\ Patient' /\ ResultHonest'
  BY <1>1, <1>2, <1>3, <1>4
     DEF Accounted, Straight, Patient, ResultHonest, Revisits
<1>7. Explained'
  <2>1. c.pages \in Nat /\ c.retries \in 0 .. MaxRetries /\ c.requests \in Nat
        /\ redirects \in Nat
    BY DEF TInv, Shape, Locals
  <2>2. c.requests <= c.pages + redirects + c.pages * MaxRetries + c.retries + 1
    BY <1>3 DEF TInv, Explained
  <2>3. (c.pages + 1) * MaxRetries = c.pages * MaxRetries + MaxRetries
    BY <2>1, LimitsAssumption
  <2>4. c.pages * MaxRetries \in Nat BY <2>1, LimitsAssumption
  <2>5. c.requests <= (c.pages + 1) + redirects + (c.pages + 1) * MaxRetries + 0
    BY <2>1, <2>2, <2>3, <2>4, LimitsAssumption
  <2> DEFINE spent == (c.pages + 1) * MaxRetries
  <2>6. /\ phase' = "loop" /\ redirects' = redirects /\ c'.requests = c.requests
        /\ c'.pages = c.pages + 1 /\ c'.retries = 0
        /\ c'.pages * MaxRetries = spent
    BY <1>2, <1>4
  <2>7. spent \in Nat BY <2>1, LimitsAssumption
  <2>8. c.requests <= (c.pages + 1) + redirects + spent + 0 BY <2>5
  <2> HIDE DEF spent
  <2>9. c'.requests <= c'.pages + redirects' + c'.pages * MaxRetries + c'.retries
    BY <2>1, <2>6, <2>7, <2>8
  <2> QED BY <2>1, <2>6, <2>7, <2>9 DEF Explained
<1> QED BY <1>5, <1>6, <1>7 DEF TInv

-----------------------------------------------------------------------------
(* Every step keeps the invariant.                                         *)
LEMMA NextTInv == TInv /\ [Next]_vars => TInv'
<1> SUFFICES ASSUME TInv, [Next]_vars PROVE TInv' OBVIOUS
<1>1. CASE GiveUp
  <2>1. PICK reason : Failed(reason, TRUE) BY <1>1 DEF GiveUp
  <2> QED BY <1>1, <2>1, FailedAsItStands DEF GiveUp, TInv, Shape, history
<1>2. CASE Refused
  <2>1. /\ phase = "sent" /\ UNCHANGED <<c, calls, wait, owed, received, redirects>>
        /\ wait \in Nat /\ owed \in Nat
    BY <1>2 DEF Refused, TInv, Shape, history
  <2>2. CASE \E reason \in {"unavailable", "invalid_payload", "invalid_response"} :
               Failed(reason, FALSE)
    BY <2>1, <2>2, FailedAsItStands
  <2>3. CASE \E reason \in {"unsupported_encoding", "payload_limit"} :
               Failed(reason, TRUE)
    BY <2>1, <2>3, FailedAsItStands
  <2> QED BY <1>2, <2>2, <2>3 DEF Refused
<1>3. CASE UNCHANGED vars
  BY <1>3 DEF vars, TInv, Shape, Accounted, Explained, Straight, Patient,
              ResultHonest
<1> QED
  BY <1>1, <1>2, <1>3, ElapseTInv, CollectTInv, SendTInv, LostTInv, RedirectTInv,
     LimitedTInv, OverfullPageTInv, LastPageTInv, StopAtPageTInv, FollowPageTInv
     DEF Next

(* The inductive invariant holds of every reachable state.                 *)
THEOREM TransportInvariant == Spec => []TInv
BY InitTInv, NextTInv, PTL DEF Spec

(* A collection is complete only with everything it received; one that     *)
(* read pages keeps them when it fails.                                    *)
THEOREM ResultsAreHonest == Spec => []ResultHonest
<1>1. TInv => ResultHonest BY DEF TInv
<1> QED BY <1>1, TransportInvariant, PTL

(* Retries never exceed the budget of the pages begun.                     *)
THEOREM RetriesAreBudgeted == Spec => []RetryBudget
<1>1. TInv => RetryBudget
  <2> SUFFICES ASSUME TInv, phase # "idle"
               PROVE  c.requests <= c.pages + redirects
                                      + (c.pages + 1) * MaxRetries + 1
    BY DEF RetryBudget
  <2>1. c.pages \in Nat /\ c.retries \in 0 .. MaxRetries /\ c.requests \in Nat
        /\ redirects \in Nat
    BY DEF TInv, Shape, Locals
  <2>2. c.pages * MaxRetries \in Nat BY <2>1, LimitsAssumption
  <2>3. c.requests <= c.pages + redirects + c.pages * MaxRetries + c.retries + 1
    BY <2>1, <2>2, LimitsAssumption DEF TInv, Explained
  <2>4. (c.pages + 1) * MaxRetries = c.pages * MaxRetries + MaxRetries
    BY <2>1, LimitsAssumption
  <2> QED BY <2>1, <2>2, <2>3, <2>4, LimitsAssumption
<1> QED BY <1>1, TransportInvariant, PTL

(* Only an answer that is a page counts pages, and only Send requests.     *)
LEMMA WhatCounts ==
  ASSUME TInv, Next, calls' = calls
  PROVE  /\ c'.pages = c.pages + 1 => phase = "sent"
         /\ c'.requests = c.requests + 1 => phase = "loop"
<1>1. c \in Locals /\ c.pages \in Nat /\ c.requests \in Nat /\ calls \in Nat
  BY LimitsAssumption DEF TInv, Shape, Locals
<1>2. CASE Elapse \/ GiveUp \/ Refused
  <2>1. c' = c BY <1>2 DEF Elapse, GiveUp, Refused
  <2> QED BY <1>1, <2>1
<1>3. CASE Collect
  BY <1>1, <1>3 DEF Collect
<1>4. CASE Send
  BY <1>1, <1>4 DEF Send, Proceeds, Locals
<1>5. CASE Lost \/ Redirect \/ Limited(TRUE) \/ Limited(FALSE)
  <2>1. /\ phase = "sent"
        /\ \/ c' = c
           \/ c' = [c EXCEPT !.retries = @ + 1]
           \/ \E u \in Urls : c' = [c EXCEPT !.url = u]
    BY <1>5 DEF Lost, Redirect, Limited
  <2>2. c'.requests = c.requests BY <1>1, <2>1 DEF Locals
  <2> QED BY <1>1, <2>1, <2>2
<1>6. CASE LastPage \/ StopAtPage \/ OverfullPage
  <2>1. PICK n \in PageSizes : phase = "sent" /\ c' = Kept(n)
    BY <1>6 DEF LastPage, StopAtPage, OverfullPage, Fits, Receive
  <2>2. c'.requests = c.requests BY <1>1, <2>1 DEF Kept, Locals
  <2> QED BY <1>1, <2>1, <2>2
<1>7. CASE FollowPage
  <2>1. PICK n \in PageSizes, u \in Urls :
          /\ phase = "sent"
          /\ c' = [Kept(n) EXCEPT !.seen = @ \cup {c.url}, !.url = u, !.retries = 0]
    BY <1>7 DEF FollowPage, Fits, Receive
  <2>2. c'.requests = c.requests BY <1>1, <2>1 DEF Kept, Locals
  <2> QED BY <1>1, <2>1, <2>2
<1> QED
  BY <1>2, <1>3, <1>4, <1>5, <1>6, <1>7 DEF Next

(* Without redirects no page is read twice.                                *)
THEOREM PagesAreReadOnce == Spec => NoPageTwice
<1>1. TInv /\ [Next]_vars =>
        [calls' = calls /\ c'.pages = c.pages + 1 /\ redirects = 0 =>
           c.url \notin c.seen]_vars
  <2> SUFFICES ASSUME TInv, Next, calls' = calls, c'.pages = c.pages + 1,
                      redirects = 0
               PROVE  c.url \notin c.seen
    OBVIOUS
  <2>1. phase = "sent" BY WhatCounts
  <2> QED BY <2>1 DEF TInv, Straight
<1> QED BY <1>1, TransportInvariant, PTL DEF Spec, NoPageTwice

(* No request is sent before the deadline announced last.                  *)
THEOREM NeverRetriesEarly == Spec => NeverEarly
<1>1. TInv /\ [Next]_vars =>
        [Sends /\ (c.requests > 0 \/ result.status = "complete") =>
           owed <= wait]_vars
  <2> SUFFICES ASSUME TInv, Next, Sends,
                      c.requests > 0 \/ result.status = "complete"
               PROVE  owed <= wait
    OBVIOUS
  <2>1. phase = "loop" BY WhatCounts DEF Sends
  <2> QED BY <2>1 DEF TInv, Patient
<1> QED BY <1>1, TransportInvariant, PTL DEF Spec, NeverEarly
=============================================================================
