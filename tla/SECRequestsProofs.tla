------------------------- MODULE SECRequestsProofs -------------------------
(***************************************************************************)
(* The client and its bucket, for any number of coroutines, any rate, any  *)
(* number of retries and any backoff: the requests implement the bucket,   *)
(* so the pace proved of the bucket is theirs.                             *)
(***************************************************************************)
EXTENDS SECRequests, TLAPS

LP == INSTANCE TokenBucketProofs WITH window <- sent

\* A step of the client is a step of its bucket, or leaves the bucket alone.
LEMMA BucketStep == [Next]_vars => [Limiter!Next]_(Limiter!vars)
  <1> SUFFICES ASSUME [Next]_vars PROVE [Limiter!Next]_(Limiter!vars)
    OBVIOUS
  <1> USE DEF Limiter!Next
  <1>1. ASSUME NEW c \in Callers, Ask(c) \/ Retry(c)
        PROVE  Limiter!Next
    BY <1>1 DEF Ask, Retry
  <1>2. ASSUME NEW c \in Callers, Send(c)
        PROVE  Limiter!Next
    BY <1>2 DEF Send
  <1>3. ASSUME NEW c \in Callers, Ends(c) \/ Refused(c)
        PROVE  UNCHANGED Limiter!vars
    BY <1>3 DEF Ends, Refused, bucket, Limiter!vars
  <1>4. CASE Throttle
    BY <1>4 DEF Throttle
  <1>5. CASE Abandon
    BY <1>5 DEF Abandon
  <1>6. CASE NewClient
    BY <1>6 DEF NewClient
  <1>7. CASE Tick
    BY <1>7 DEF Tick
  <1>8. CASE Watch
    BY <1>8 DEF Watch
  <1>9. CASE UNCHANGED vars
    BY <1>9 DEF vars, bucket, Limiter!vars
  <1> QED
    BY <1>1, <1>2, <1>3, <1>4, <1>5, <1>6, <1>7, <1>8, <1>9 DEF Next

(***************************************************************************)
(* The client implements its bucket: no request, and no retry, leaves      *)
(* without a token of its own.                                             *)
(***************************************************************************)
THEOREM TokenForEveryRequest == Spec => EveryRequestHasAToken
  <1>1. Init => Limiter!Init
    BY DEF Init
  <1>2. [Next]_vars => [Limiter!Next]_(Limiter!vars)
    BY BucketStep
  <1> QED
    BY <1>1, <1>2, PTL DEF Spec, EveryRequestHasAToken, Limiter!Spec

-----------------------------------------------------------------------------
\* The bucket that is proved about is the client's.
LEMMA SameInit == Limiter!Init <=> LP!Init
  BY DEF Limiter!Init, LP!Init, Limiter!Closed, LP!Closed

LEMMA SameStep == [Limiter!Next]_(Limiter!vars) <=> [LP!Next]_(LP!vars)
  <1> USE DEF Limiter!Closed, LP!Closed, Limiter!Opened, LP!Opened,
              Limiter!Filled, LP!Filled, Limiter!Least, LP!Least,
              Limiter!Counted, LP!Counted, Limiter!Watched, LP!Watched,
              Limiter!Aged, LP!Aged
  <1>1. Limiter!New <=> LP!New
    BY DEF Limiter!New, LP!New
  <1>2. ASSUME NEW c \in Callers
        PROVE  Limiter!Call(c) <=> LP!Call(c)
    BY DEF Limiter!Call, LP!Call
  <1>3. Limiter!Take <=> LP!Take
    BY DEF Limiter!Take, LP!Take
  <1>4. Limiter!Sleep <=> LP!Sleep
    BY DEF Limiter!Sleep, LP!Sleep
  <1>5. Limiter!Wake <=> LP!Wake
    BY DEF Limiter!Wake, LP!Wake
  <1>6. Limiter!Abandon <=> LP!Abandon
    BY DEF Limiter!Abandon, LP!Abandon
  <1>7. Limiter!Tick <=> LP!Tick
    BY DEF Limiter!Tick, LP!Tick
  <1>8. Limiter!Watch <=> LP!Watch
    BY DEF Limiter!Watch, LP!Watch
  <1>9. UNCHANGED Limiter!vars <=> UNCHANGED LP!vars
    BY DEF Limiter!vars, LP!vars
  <1> QED
    BY <1>1, <1>2, <1>3, <1>4, <1>5, <1>6, <1>7, <1>8, <1>9 DEF Limiter!Next, LP!Next

LEMMA BucketAssumed == LP!Parameters
  BY BucketAssumption DEF Limiter!Parameters, LP!Parameters

LEMMA BucketProvedOf == Spec => LP!Spec
  <1>1. Init => LP!Init
    BY SameInit DEF Init
  <1>2. [Next]_vars => [LP!Next]_(LP!vars)
    BY BucketStep, SameStep
  <1> QED
    BY <1>1, <1>2, PTL DEF Spec, LP!Spec

(***************************************************************************)
(* In no stretch of time does a client send more requests, retries         *)
(* included, than its bucket holds plus what grows meanwhile.              *)
(***************************************************************************)
THEOREM PaceKept == Spec => []Pace
  <1>1. LP!Spec => []LP!Pace
    BY BucketAssumed, LP!PaceKept
  <1>2. LP!Pace => Pace
    BY DEF LP!Pace, Pace, Limiter!Pace
  <1> QED
    BY BucketProvedOf, <1>1, <1>2, PTL

-----------------------------------------------------------------------------
\* Nobody waits for the lock twice, and who holds it does not wait for it.
WaitsOnce ==
    /\ \A i, j \in 1 .. Len(queue) : queue[i] = queue[j] => i = j
    /\ \A i \in 1 .. Len(queue) : queue[i] # sleeper

InQueue(c) == \E i \in 1 .. Len(queue) : queue[i] = c

\* Who waits once somebody joined the queue, or left it.
LEMMA Joined ==
    ASSUME queue \in Seq(Callers), NEW c \in Callers, queue' = Append(queue, c)
    PROVE  /\ \A d : InQueue(d)' <=> InQueue(d) \/ d = c
           /\ ~InQueue(c) /\ (\A i, j \in 1 .. Len(queue) : queue[i] = queue[j] => i = j)
                 => (\A i, j \in 1 .. Len(queue) : queue[i] = queue[j] => i = j)'
  <1>1. /\ Len(queue') = Len(queue) + 1
        /\ queue'[Len(queue) + 1] = c
        /\ \A i \in 1 .. Len(queue) : queue'[i] = queue[i]
        /\ Len(queue) \in Nat
    OBVIOUS
  <1>2. \A i : i \in 1 .. Len(queue') <=> i \in 1 .. Len(queue) \/ i = Len(queue) + 1
    BY <1>1
  <1> QED
    BY <1>1, <1>2 DEF InQueue

LEMMA Left ==
    ASSUME queue \in Seq(Callers), queue # <<>>, queue' = Tail(queue),
           \A i, j \in 1 .. Len(queue) : queue[i] = queue[j] => i = j
    PROVE  /\ \A d : InQueue(d)' <=> InQueue(d) /\ d # Head(queue)
           /\ (\A i, j \in 1 .. Len(queue) : queue[i] = queue[j] => i = j)'
           /\ InQueue(Head(queue)) /\ Head(queue) \in Callers
  <1>1. /\ Len(queue) \in Nat \ {0}
        /\ Len(queue') = Len(queue) - 1
        /\ \A i \in 1 .. Len(queue') : queue'[i] = queue[i + 1]
        /\ Head(queue) = queue[1]
        /\ Head(queue) \in Callers
    OBVIOUS
  <1>2. \A i \in 1 .. Len(queue') : i + 1 \in 1 .. Len(queue) /\ i + 1 # 1
    BY <1>1
  <1>3. \A i \in 1 .. Len(queue) : i # 1 => i - 1 \in 1 .. Len(queue') /\ (i - 1) + 1 = i
    BY <1>1
  <1>4. ASSUME NEW d, InQueue(d)'
        PROVE  InQueue(d) /\ d # Head(queue)
    <2>1. PICK i \in 1 .. Len(queue') : queue'[i] = d
      BY <1>4 DEF InQueue
    <2>2. queue[i + 1] = d /\ i + 1 \in 1 .. Len(queue) /\ i + 1 # 1
      BY <2>1, <1>1, <1>2
    <2> QED
      BY <2>2, <1>1 DEF InQueue
  <1>5. ASSUME NEW d, InQueue(d), d # Head(queue)
        PROVE  InQueue(d)'
    <2>1. PICK i \in 1 .. Len(queue) : queue[i] = d
      BY <1>5 DEF InQueue
    <2>2. i # 1
      BY <2>1, <1>1, <1>5
    <2>3. queue'[i - 1] = d /\ i - 1 \in 1 .. Len(queue')
      BY <2>1, <2>2, <1>1, <1>3
    <2> QED
      BY <2>3 DEF InQueue
  <1>6. (\A i, j \in 1 .. Len(queue) : queue[i] = queue[j] => i = j)'
    <2>1. SUFFICES ASSUME NEW i \in 1 .. Len(queue'), NEW j \in 1 .. Len(queue'),
                          queue'[i] = queue'[j]
                   PROVE  i = j
      OBVIOUS
    <2>2. queue[i + 1] = queue[j + 1] /\ i + 1 \in 1 .. Len(queue) /\ j + 1 \in 1 .. Len(queue)
      BY <2>1, <1>1, <1>2
    <2>3. i + 1 = j + 1
      BY <2>2
    <2> QED
      BY <2>3, <1>1
  <1>7. InQueue(Head(queue))
    BY <1>1 DEF InQueue
  <1> QED
    BY <1>1, <1>4, <1>5, <1>6, <1>7

-----------------------------------------------------------------------------
LEMMA BucketTypes == Spec => []Limiter!TypeOK
  <1>1. LP!Spec => []LP!TypeOK
    BY BucketAssumed, LP!TypeCorrect
  <1>2. LP!TypeOK => Limiter!TypeOK
    BY DEF LP!TypeOK, Limiter!TypeOK, LP!Window, Limiter!Window, LP!Closed, Limiter!Closed
  <1> QED
    BY BucketProvedOf, <1>1, <1>2, PTL

Requests ==
    /\ request \in [Callers -> Request]
    /\ \A c \in Callers : request[c].pc = "acquiring" <=> c = sleeper \/ InQueue(c)

\* What is known of the bucket, before a step and after it.
Known == queue \in Seq(Callers) /\ sleeper \in Callers \cup {NULL}

LEMMA RequestsInit == Init => Requests /\ WaitsOnce
  <1> SUFFICES ASSUME Init PROVE Requests /\ WaitsOnce
    OBVIOUS
  <1>1. queue = <<>> /\ sleeper = NULL /\ request = [c \in Callers |-> NoRequest]
    BY DEF Init, Limiter!Init
  <1>2. NoRequest \in Request /\ NoRequest.pc = "idle"
    BY RetryAssumption DEF NoRequest, Request
  <1>3. NULL \notin Callers
    BY BucketAssumption DEF Limiter!Parameters
  <1>4. \A i \in 1 .. Len(queue) : FALSE
    BY <1>1
  <1> QED
    BY <1>1, <1>2, <1>3, <1>4 DEF Requests, WaitsOnce, InQueue

LEMMA RequestsStep == Known /\ Requests /\ WaitsOnce /\ [Next]_vars => (Requests /\ WaitsOnce)'
  <1> SUFFICES ASSUME Known, Requests, WaitsOnce, [Next]_vars
               PROVE  (Requests /\ WaitsOnce)'
    OBVIOUS
  <1>0. /\ queue \in Seq(Callers)
        /\ sleeper \in Callers \cup {NULL}
        /\ NULL \notin Callers
        /\ MaxRetries \in Nat
        /\ \A i, j \in 1 .. Len(queue) : queue[i] = queue[j] => i = j
        /\ \A d : InQueue(d) => d # sleeper
        /\ \A c \in Callers : request[c] \in Request
    BY RetryAssumption, BucketAssumption
       DEF Known, WaitsOnce, InQueue, Requests, Limiter!Parameters
  <1>i. NoRequest \in Request /\ NoRequest.pc = "idle"
    BY <1>0 DEF NoRequest, Request
  \* Nobody comes to the lock or leaves it.
  <1>a. ASSUME UNCHANGED <<queue, sleeper>>,
               request' \in [Callers -> Request],
               \A c \in Callers : request'[c].pc = "acquiring" <=> request[c].pc = "acquiring"
        PROVE  (Requests /\ WaitsOnce)'
    BY <1>a DEF Requests, WaitsOnce, InQueue
  \* Somebody comes to it.
  <1>b. ASSUME NEW c \in Callers, Limiter!Call(c), NEW r \in Request, r.pc = "acquiring",
               request' = [request EXCEPT ![c] = r]
        PROVE  (Requests /\ WaitsOnce)'
    <2>1. /\ queue' = Append(queue, c)
          /\ sleeper' = sleeper
          /\ c # sleeper
          /\ ~InQueue(c)
      BY <1>b DEF Limiter!Call, InQueue
    <2>2. /\ \A d : InQueue(d)' <=> InQueue(d) \/ d = c
          /\ (\A i, j \in 1 .. Len(queue) : queue[i] = queue[j] => i = j)'
      BY <1>0, <2>1, Joined
    <2>3. request' \in [Callers -> Request] /\ request'[c] = r
          /\ \A d \in Callers \ {c} : request'[d] = request[d]
      BY <1>b DEF Requests
    <2>4. Requests'
      BY <2>1, <2>2, <2>3, <1>b DEF Requests
    <2>5. \A i \in 1 .. Len(queue') : queue'[i] # sleeper'
      BY <2>1, <2>2, <1>0 DEF InQueue
    <2> QED
      BY <2>2, <2>4, <2>5 DEF WaitsOnce
  <1>1. ASSUME NEW c \in Callers, Ask(c)
        PROVE  (Requests /\ WaitsOnce)'
    <2>1. [NoRequest EXCEPT !.pc = "acquiring"] \in Request
          /\ [NoRequest EXCEPT !.pc = "acquiring"].pc = "acquiring"
      BY <1>0 DEF NoRequest, Request
    <2> QED
      BY <1>1, <1>b, <2>1 DEF Ask
  <1>2. ASSUME NEW c \in Callers, Retry(c)
        PROVE  (Requests /\ WaitsOnce)'
    <2>1. [request[c] EXCEPT !.pc = "acquiring"] \in Request
          /\ [request[c] EXCEPT !.pc = "acquiring"].pc = "acquiring"
      BY <1>0 DEF Request
    <2>2. request' = [request EXCEPT ![c] = [request[c] EXCEPT !.pc = "acquiring"]]
      BY <1>2 DEF Retry, Goes
    <2> QED
      BY <1>2, <1>b, <2>1, <2>2 DEF Retry
  <1>3. ASSUME NEW c \in Callers, Send(c)
        PROVE  (Requests /\ WaitsOnce)'
    <2>1. /\ request' \in [Callers -> Request]
          /\ request'[c].pc = "sent"
          /\ \A d \in Callers \ {c} : request'[d] = request[d]
      BY <1>3, <1>0 DEF Send, Goes, Requests, Request
    <2>2. CASE Limiter!Take /\ c = Head(queue)
      <3>1. queue # <<>> /\ queue' = Tail(queue) /\ sleeper = NULL /\ sleeper' = NULL
        BY <2>2 DEF Limiter!Take
      <3>2. /\ \A d : InQueue(d)' <=> InQueue(d) /\ d # c
            /\ (\A i, j \in 1 .. Len(queue) : queue[i] = queue[j] => i = j)'
        BY <1>0, <2>2, <3>1, Left
      <3>3. Requests'
        BY <2>1, <3>1, <3>2, <1>0 DEF Requests
      <3>4. \A i \in 1 .. Len(queue') : queue'[i] # sleeper'
        BY <3>1, <3>2, <1>0 DEF InQueue
      <3> QED
        BY <3>2, <3>3, <3>4 DEF WaitsOnce
    <2>3. CASE Limiter!Wake /\ c = sleeper
      <3>1. queue' = queue /\ sleeper' = NULL
        BY <2>3 DEF Limiter!Wake
      <3>2. \A d : (InQueue(d)' <=> InQueue(d)) /\ (InQueue(d) => d # c)
        BY <2>3, <3>1, <1>0 DEF InQueue
      <3>3. Requests'
        BY <2>1, <2>3, <3>1, <3>2, <1>0 DEF Requests
      <3>4. \A i \in 1 .. Len(queue) : queue[i] \in Callers
        BY <1>0
      <3> QED
        BY <3>1, <3>3, <3>4, <1>0 DEF WaitsOnce
    <2> QED
      BY <1>3, <2>2, <2>3 DEF Send
  <1>4. ASSUME NEW c \in Callers, Ends(c)
        PROVE  (Requests /\ WaitsOnce)'
    BY <1>4, <1>a, <1>i DEF Ends, At, bucket, Requests
  <1>5. ASSUME NEW c \in Callers, Refused(c)
        PROVE  (Requests /\ WaitsOnce)'
    <2>1. PICK t \in Backoff(request[c].attempt) :
             request' = [request EXCEPT ![c].pc = "backoff", ![c].wait = t,
                                        ![c].attempt = Attempt(@)]
      BY <1>5 DEF Refused
    <2>2. /\ request[c].attempt \in 0 .. MaxRetries
          /\ request[c].attempt < MaxRetries
          /\ request[c].pc = "sent"
      BY <1>5, <1>0 DEF Refused, Request, At
    <2>3. t \in Nat
      BY <2>1, <2>2, RetryAssumption DEF Backoff
    <2>4. Attempt(request[c].attempt) \in 0 .. MaxRetries
      BY <2>2, <1>0 DEF Attempt
    <2>5. [request[c] EXCEPT !.pc = "backoff", !.wait = t, !.attempt = Attempt(@)] \in Request
      BY <2>3, <2>4, <1>0 DEF Request
    <2>6. /\ request' = [request EXCEPT ![c] = [request[c] EXCEPT !.pc = "backoff", !.wait = t,
                                                               !.attempt = Attempt(@)]]
          /\ [request[c] EXCEPT !.pc = "backoff", !.wait = t, !.attempt = Attempt(@)].pc = "backoff"
      BY <2>1, <1>0 DEF Requests, Request
    <2> QED
      BY <1>5, <1>a, <2>2, <2>5, <2>6 DEF Refused, bucket, Requests
  <1>6. CASE Throttle
    <2>1. /\ queue # <<>> /\ queue' = Tail(queue)
          /\ sleeper = NULL /\ sleeper' = Head(queue)
          /\ request' = request
      BY <1>6 DEF Throttle, Limiter!Sleep
    <2>2. /\ \A d : InQueue(d)' <=> InQueue(d) /\ d # Head(queue)
          /\ (\A i, j \in 1 .. Len(queue) : queue[i] = queue[j] => i = j)'
          /\ InQueue(Head(queue))
      BY <1>0, <2>1, Left
    <2>3. Requests'
      BY <2>1, <2>2, <1>0 DEF Requests
    <2>4. \A i \in 1 .. Len(queue') : queue'[i] # sleeper'
      BY <2>1, <2>2 DEF InQueue
    <2> QED
      BY <2>2, <2>3, <2>4 DEF WaitsOnce
  <1>7. CASE Abandon
    <2>1. queue' = <<>> /\ sleeper' = NULL /\ request' = [c \in Callers |-> NoRequest]
      BY <1>7 DEF Abandon, Limiter!Abandon
    <2>2. \A i \in 1 .. Len(queue') : FALSE
      BY <2>1
    <2> QED
      BY <2>1, <2>2, <1>0, <1>i DEF Requests, WaitsOnce, InQueue
  <1>8. CASE NewClient
    BY <1>8, <1>a DEF NewClient, Limiter!New, Requests
  <1>9. CASE Tick
    <2>1. UNCHANGED <<queue, sleeper>>
          /\ request' = [c \in Callers |->
                           [request[c] EXCEPT !.wait = IF @ > 0 THEN @ - 1 ELSE @]]
      BY <1>9 DEF Tick, Limiter!Tick
    <2>2. \A c \in Callers :
             /\ [request[c] EXCEPT !.wait = IF @ > 0 THEN @ - 1 ELSE @] \in Request
             /\ [request[c] EXCEPT !.wait = IF @ > 0 THEN @ - 1 ELSE @].pc = request[c].pc
      BY <1>0 DEF Request
    <2> QED
      BY <1>a, <2>1, <2>2
  <1>10. CASE Watch
    BY <1>10, <1>a DEF Watch, Limiter!Watch, Requests
  <1>11. CASE UNCHANGED vars
    BY <1>11, <1>a DEF vars, bucket, Requests
  <1> QED
    BY <1>1, <1>2, <1>3, <1>4, <1>5, <1>6, <1>7, <1>8, <1>9, <1>10, <1>11 DEF Next

\* The types of the client, and who waits for the lock.
THEOREM TypeCorrect == Spec => []TypeOK
  <1>1. Limiter!TypeOK => Known
    BY DEF Limiter!TypeOK, Known
  <1>2. Limiter!TypeOK /\ Requests => TypeOK
    BY DEF TypeOK, Requests, InQueue
  <1> QED
    BY <1>1, <1>2, BucketTypes, RequestsInit, RequestsStep, PTL DEF Spec

-----------------------------------------------------------------------------
\* What c does in a step that is not its own, or ends its request.
OnOrOut(c) ==
    \/ At(c, "idle") \/ At(c, "idle")'
    \/ UNCHANGED <<request[c].pc, request[c].attempt>>
    \/ HopsLeft(c)' < HopsLeft(c)

LEMMA StageIs ==
    /\ Stage("backoff") = 2 /\ Stage("acquiring") = 1 /\ Stage("sent") = 0 /\ Stage("idle") = 0
    /\ \A r \in Request : Stage(r.pc) \in 0 .. 2
  BY DEF Stage, Request

LEMMA HopsAre ==
    ASSUME Requests, NEW c \in Callers
    PROVE  HopsLeft(c) \in 0 .. 3 * MaxRetries + 2
  <1>1. request[c] \in Request
    BY DEF Requests
  <1>2. /\ MaxRetries \in Nat
        /\ request[c].attempt \in 0 .. MaxRetries
        /\ Stage(request[c].pc) \in 0 .. 2
    BY <1>1, RetryAssumption, StageIs DEF Request
  <1> QED
    BY <1>2 DEF HopsLeft

\* Another coroutine's step leaves c where it is.
LEMMA OthersWait ==
    ASSUME NEW c \in Callers, NEW d \in Callers, d # c, NEW r,
           Requests, request' = [request EXCEPT ![d] = r]
    PROVE  OnOrOut(c)
  BY DEF OnOrOut, Requests

LEMMA RetryStep ==
    ASSUME Known, Requests, Requests', [Next]_vars, NEW c \in Callers
    PROVE  OnOrOut(c)
  <1>0. /\ request[c] \in Request
        /\ request'[c] \in Request
        /\ request \in [Callers -> Request]
        /\ MaxRetries \in Nat
        /\ request[c].attempt \in 0 .. MaxRetries
    BY RetryAssumption DEF Requests, Request
  <1>1. ASSUME NEW d \in Callers, Ask(d)
        PROVE  OnOrOut(c)
    BY <1>1, OthersWait DEF Ask, OnOrOut
  \* A retry waits for a token, and the token sends it.
  <1>2. ASSUME NEW d \in Callers, Send(d) \/ Retry(d)
        PROVE  OnOrOut(c)
    <2>1. CASE d # c
      BY <1>2, <2>1, <1>0, OthersWait DEF Send, Retry, Goes, OnOrOut
    <2>2. CASE d = c /\ Retry(c)
      <3>1. /\ request[c].pc = "backoff" /\ request'[c].pc = "acquiring"
            /\ request'[c].attempt = request[c].attempt
        BY <2>2, <1>0 DEF Retry, Goes, At, Request
      <3> QED
        BY <3>1, <1>0, StageIs DEF HopsLeft, OnOrOut
    <2>3. CASE d = c /\ Send(c)
      <3>0. c = sleeper \/ InQueue(c)
        <4>1. CASE Limiter!Take /\ c = Head(queue)
          <5>1. queue # <<>> /\ queue \in Seq(Callers)
            BY <4>1 DEF Limiter!Take, Known
          <5>2. 1 \in 1 .. Len(queue) /\ queue[1] = Head(queue)
            BY <5>1
          <5> QED
            BY <4>1, <5>2 DEF InQueue
        <4> QED
          BY <2>3, <4>1 DEF Send
      <3>1. /\ request[c].pc = "acquiring" /\ request'[c].pc = "sent"
            /\ request'[c].attempt = request[c].attempt
        BY <2>3, <3>0, <1>0 DEF Send, Goes, Request, Requests
      <3> QED
        BY <2>3, <3>1, <1>0, StageIs DEF HopsLeft, OnOrOut
    <2> QED
      BY <1>2, <2>1, <2>2, <2>3
  <1>3. ASSUME NEW d \in Callers, Ends(d)
        PROVE  OnOrOut(c)
    BY <1>3, <1>0, OthersWait DEF Ends, OnOrOut, At, NoRequest
  \* What is refused has a retry less.
  <1>4. ASSUME NEW d \in Callers, Refused(d)
        PROVE  OnOrOut(c)
    <2>1. CASE d # c
      BY <1>4, <2>1, <1>0 DEF Refused, OnOrOut
    <2>2. CASE d = c
      <3>1. /\ request[c].pc = "sent" /\ request'[c].pc = "backoff"
            /\ request'[c].attempt = request[c].attempt + 1
        BY <1>4, <2>2, <1>0 DEF Refused, At, Attempt, Request
      <3>2. request'[c].attempt \in 0 .. MaxRetries
        BY <1>0 DEF Request
      <3> QED
        BY <3>1, <3>2, <1>0, StageIs DEF HopsLeft, OnOrOut
    <2> QED
      BY <2>1, <2>2
  <1>5. CASE Abandon
    BY <1>5 DEF Abandon, OnOrOut, At, NoRequest
  <1>6. CASE Throttle \/ NewClient \/ Watch \/ UNCHANGED vars
    BY <1>6 DEF Throttle, NewClient, Watch, vars, OnOrOut
  <1>7. CASE Tick
    BY <1>7, <1>0 DEF Tick, OnOrOut, Request
  <1> QED
    BY <1>1, <1>2, <1>3, <1>4, <1>5, <1>6, <1>7 DEF Next

(***************************************************************************)
(* The SEC hears of a request at most 1 + MaxRetries times, whatever it    *)
(* answers: the steps a request has left get fewer with each it takes, and *)
(* there are at most three for each attempt.                               *)
(***************************************************************************)
THEOREM RequestsRunOut ==
    Spec => RetriesRunOut /\ [](\A c \in Callers : HopsLeft(c) \in 0 .. 3 * MaxRetries + 2)
  <1>1. Limiter!TypeOK => Known
    BY DEF Limiter!TypeOK, Known
  <1>2. Known /\ Requests /\ Requests' /\ [Next]_vars => [\A c \in Callers : OnOrOut(c)]_vars
    BY RetryStep
  <1>3. Requests => \A c \in Callers : HopsLeft(c) \in 0 .. 3 * MaxRetries + 2
    BY HopsAre
  <1>4. [\A c \in Callers : OnOrOut(c)]_vars
           => [\A c \in Callers :
                 \/ At(c, "idle") \/ At(c, "idle")'
                 \/ UNCHANGED <<request[c].pc, request[c].attempt>>
                 \/ HopsLeft(c)' < HopsLeft(c)]_vars
    BY DEF OnOrOut
  <1> QED
    BY <1>1, <1>2, <1>3, <1>4, BucketTypes, RequestsInit, RequestsStep, PTL
       DEF Spec, RetriesRunOut
=============================================================================
