------------------------------- MODULE RateLimit -------------------------------
(***************************************************************************)
(* The throttled requests to the Maimemo cloud (core/maimemo_api.py):      *)
(* _apply_rate_limit hands out execution times under _rate_limit_lock so   *)
(* that two sliding windows are kept, and _request sleeps until its time,  *)
(* sends, and tries again after a 429, a server error or an exception.     *)
(*                                                                         *)
(* Time is discrete and relative: 0 is now, what lies ahead is positive,   *)
(* and Tick makes everything one unit older.  So time goes on for ever in  *)
(* a finite model.  Booking is one step: it holds the lock throughout.     *)
(***************************************************************************)
EXTENDS Integers, Sequences, FiniteSets

CONSTANTS
  Threads,    \* threads that call the API: pool threads, the sync worker, requests
  ShortMax,   \* requests in the short window (20)
  ShortSpan,  \* length of the short window (10 s)
  LongMax,    \* requests in the long window (40)
  LongSpan,   \* length of the long window (60 s)
  Gap,        \* _min_interval_sec
  MaxTries,   \* attempts of one request (3)
  Backoffs    \* waits after a failed attempt: wait_times, or the Retry-After header

ASSUME SizesAssumption == /\ {ShortMax, LongMax, MaxTries} \subseteq Nat \ {0}
                          /\ {ShortSpan, LongSpan, Gap} \subseteq Nat
                          /\ Backoffs \subseteq Nat /\ Backoffs # {}

VARIABLES
  short, \* _req_ts_10s: execution times handed out, in the order of the bookings
  long,  \* _req_ts_60s
  last,  \* _last_request_ts, no older than Gap
  pc,    \* where a thread is in _request
  due,   \* when its sleep ends
  tries, \* attempts it has begun
  prio   \* the priority of its request

deques == <<short, long, last>>
vars   == <<deques, pc, due, tries, prio>>

Priorities == {"normal", "high"}
Latest(S)  == CHOOSE x \in S : \A y \in S : y <= x

Init ==
  /\ short = <<>> /\ long = <<>> /\ last = -Gap
  /\ pc = [t \in Threads |-> "idle"] /\ due = [t \in Threads |-> 0]
  /\ tries = [t \in Threads |-> 0] /\ prio = [t \in Threads |-> "normal"]

-----------------------------------------------------------------------------
(* _apply_rate_limit *)

(* popleft while the first time stamp has left the window.  A later one that
   has left it too, behind a first one that lies ahead, stays. *)
Stale(q, span) == {i \in DOMAIN q : \A j \in 1..i : -q[j] >= span}
Fresh(q, span) == SubSeq(q, Cardinality(Stale(q, span)) + 1, Len(q))

(* Mutant: one time stamp too far, the booking before the window. *)
WindowFreeLate(q, most, span) == IF Len(q) > most THEN {q[Len(q) - most] + span} ELSE {}

(* With a full window: the time at which its oldest booking has left it. *)
WindowFree(q, most, span) == IF Len(q) >= most THEN {q[Len(q) - most + 1] + span} ELSE {}

(* Only a normal request keeps the minimum interval. *)
GapFree(p) == IF p = "high" THEN {} ELSE {last + Gap}

Book(t, p) ==
  LET s  == Fresh(short, ShortSpan)
      l  == Fresh(long, LongSpan)
      at == Latest({0} \cup GapFree(p) \cup WindowFree(s, ShortMax, ShortSpan)
                       \cup WindowFree(l, LongMax, LongSpan))
  IN /\ short' = Append(s, at)
     /\ long' = Append(l, at)
     /\ last' = at
     /\ due' = [due EXCEPT ![t] = at]

-----------------------------------------------------------------------------
(* _request *)

(* An attempt begins: the thread books a time and sleeps until then. *)
Attempt(t, p) == /\ pc' = [pc EXCEPT ![t] = "sleeps"]
                 /\ tries' = [tries EXCEPT ![t] = @ + 1]
                 /\ Book(t, p)

(* An API method calls _request; get_study_progress and get_today_items with
   priority high. *)
Asks(t) == /\ pc[t] = "idle"
           /\ \E p \in Priorities : prio' = [prio EXCEPT ![t] = p] /\ Attempt(t, p)

(* The sleep has ended, and the transport sends the request.  Its own retries
   (urllib3) stay inside this step. *)
Sends(t) ==
  /\ pc[t] = "sleeps" /\ due[t] <= 0
  /\ pc' = [pc EXCEPT ![t] = "sent"]
  /\ UNCHANGED <<deques, due, tries, prio>>

Return(t) == /\ pc' = [pc EXCEPT ![t] = "idle"]
             /\ due' = [due EXCEPT ![t] = 0]
             /\ tries' = [tries EXCEPT ![t] = 0]
             /\ prio' = [prio EXCEPT ![t] = "normal"]
             /\ UNCHANGED deques

(* 2xx, or an error that a retry cannot help: the caller gets the answer. *)
Answered(t) == pc[t] = "sent" /\ Return(t)

WaitsToRetry(t) == /\ pc' = [pc EXCEPT ![t] = "backs off"]
                   /\ \E d \in Backoffs : due' = [due EXCEPT ![t] = d]
                   /\ UNCHANGED <<deques, tries, prio>>

(* Mutant: an attempt that was rejected does not count. *)
RejectedFree(t) ==
  /\ pc[t] = "sent"
  /\ pc' = [pc EXCEPT ![t] = "backs off"]
  /\ \E d \in Backoffs : due' = [due EXCEPT ![t] = d]
  /\ tries' = [tries EXCEPT ![t] = @ - 1]
  /\ UNCHANGED <<deques, prio>>

(* 429 or a server error: the wait comes before the count is looked at. *)
Rejected(t) == pc[t] = "sent" /\ WaitsToRetry(t)

(* An exception, a timeout for example: after the last attempt there is no wait. *)
Breaks(t) == /\ pc[t] = "sent"
             /\ IF tries[t] < MaxTries THEN WaitsToRetry(t) ELSE Return(t)

BackedOff(t) ==
  /\ pc[t] = "backs off" /\ due[t] <= 0
  /\ IF tries[t] < MaxTries
     THEN Attempt(t, prio[t]) /\ UNCHANGED prio
     ELSE Return(t)

-----------------------------------------------------------------------------
(* The clock.  Leaving out what has left a window changes no booking: Fresh
   would leave it out. *)
Aged(q, span) == Fresh([i \in DOMAIN q |-> q[i] - 1], span)

Tick == /\ short' = Aged(short, ShortSpan)
        /\ long' = Aged(long, LongSpan)
        /\ last' = IF last > -Gap THEN last - 1 ELSE last
        /\ due' = [t \in Threads |-> IF due[t] > 0 THEN due[t] - 1 ELSE due[t]]
        /\ UNCHANGED <<pc, tries, prio>>

Request(t) == \/ Sends(t) \/ Answered(t) \/ Rejected(t) \/ Breaks(t)
              \/ BackedOff(t)
Next == Tick \/ \E t \in Threads : Asks(t) \/ Request(t)
Spec == Init /\ [][Next]_vars

(* A thread runs on after a sleep, the transport has timeouts, and time passes. *)
Fairness == WF_vars(Tick) /\ \A t \in Threads : WF_vars(Request(t))
FairSpec == Spec /\ Fairness

-----------------------------------------------------------------------------
(* Properties *)

States == {"idle", "sleeps", "sent", "backs off"}

(* Types, and that no request is sent more than MaxTries times. *)
TypeOK ==
  /\ short \in Seq(Int) /\ long \in Seq(Int) /\ last \in Int
  /\ pc \in [Threads -> States]
  /\ due \in [Threads -> Int]
  /\ tries \in [Threads -> 0..MaxTries]
  /\ prio \in [Threads -> Priorities]

(* No more than most of the execution times in q lie in any window of that length. *)
Window(q, i, span)   == {j \in DOMAIN q : q[i] <= q[j] /\ q[j] < q[i] + span}
Kept(q, most, span)  == \A i \in DOMAIN q : Cardinality(Window(q, i, span)) <= most

(* However normal and urgent requests interleave, and although the execution
   times are not handed out in their order: no window of 10 s holds more than 20
   of them and no window of 60 s more than 40 (the limits that the comment in
   __init__ names). *)
LimitsKept == Kept(short, ShortMax, ShortSpan) /\ Kept(long, LongMax, LongSpan)

(* Every request ends, with an answer or with None, whatever the other threads
   book and however often it is rejected: a ticket is never taken back. *)
RequestEnds == \A t \in Threads : pc[t] # "idle" ~> pc[t] = "idle"

=============================================================================
