------------------------------- MODULE SseBus -------------------------------
(***************************************************************************)
(* The in-process event bus behind the flatmates SSE stream:               *)
(* app/core/sse.py and flatmates_sse in                                    *)
(* app/api/api_v1/endpoints/flatmates.py. A stream is one GET /sse         *)
(* request; it owns one bounded queue, registered under its user.          *)
(*                                                                         *)
(* Every method of the bus takes the bus lock and awaits nothing while it  *)
(* holds it, so no task ever waits for the lock and a call, emit with the  *)
(* reap it may end in included, is one step of the event loop. An event is *)
(* its number in the order of the events emitted to its user. Of the clock *)
(* only whether the inactivity TTL of a stream has passed is kept.         *)
(***************************************************************************)
EXTENDS Integers, Sequences, FiniteSets

CONSTANTS Streams,         \* SSE requests, each served once
          Users,
          UserOf,          \* the user of a stream
          QueueMaxSize,    \* _QUEUE_MAX_SIZE
          MaxSubscribers,  \* _MAX_GLOBAL_SUBSCRIBERS
          ReapEveryEmits,  \* _REAP_EVERY_EMITS
          FullThreshold,   \* _FULL_THRESHOLD
          MaxEvents        \* bound: events emitted to one user

ASSUME SseAssumption == /\ IsFiniteSet(Streams)
                        /\ UserOf \in [Streams -> Users]
                        /\ QueueMaxSize \in Nat \ {0}
                        /\ MaxSubscribers \in Nat
                        /\ ReapEveryEmits \in Nat \ {0}
                        /\ FullThreshold \in Nat \ {0}
                        /\ MaxEvents \in Nat

VARIABLES registered,    \* the queues in _queues
          queue,         \* the content of each queue
          lastActivity,  \* _last_activity: "none" for an absent key
          fullCounts,    \* _full_counts: 0 for an absent key
          emitCount,     \* _emit_count, modulo ReapEveryEmits
          stream,        \* where the response of each stream is
          sent,          \* history: events emitted to each user
          heard,         \* history: last event the stream took
          overflowed     \* history: streams whose queue dropped an event

bus     == <<registered, queue, lastActivity, fullCounts, emitCount>>
history == <<sent, heard, overflowed>>
vars    == <<bus, stream, history>>

(* "subscribed" : the endpoint has a queue, the generator has not started  *)
(* "waiting"    : in wait_for(queue.get(), 60)                             *)
(* "sending"    : yielded to the response, which writes to the client      *)
(* "leaving"    : the client is gone, the finally clause has yet to run    *)
(* "abandoned"  : the client left before the generator started, and a      *)
(*                generator that never started has no finally to run       *)
StreamStates == {"new", "refused", "subscribed", "waiting", "sending",
                 "leaving", "abandoned", "ended"}
ActivityStates == {"none", "fresh", "stale"}

StreamsOf(u) == {s \in registered : UserOf[s] = u}
Full(q)      == Len(q) = QueueMaxSize

Init == /\ registered    = {}
        /\ queue         = [s \in Streams |-> <<>>]
        /\ lastActivity  = [s \in Streams |-> "none"]
        /\ fullCounts    = [s \in Streams |-> 0]
        /\ emitCount     = 0
        /\ stream        = [s \in Streams |-> "new"]
        /\ sent          = [u \in Users |-> 0]
        /\ heard         = [s \in Streams |-> 0]
        /\ overflowed    = {}

Become(s, state) == stream' = [stream EXCEPT ![s] = state]

-----------------------------------------------------------------------------
(* subscribe, touch and unsubscribe *)

(* Faulty variant: the cap is compared with > instead of >=. *)
SubscribeOneTooMany(s) ==
  /\ stream[s] = "new"
  /\ Cardinality(registered) <= MaxSubscribers
  /\ registered' = registered \cup {s}
  /\ lastActivity' = [lastActivity EXCEPT ![s] = "fresh"]
  /\ heard' = [heard EXCEPT ![s] = sent[UserOf[s]]]
  /\ Become(s, "subscribed")
  /\ UNCHANGED <<queue, fullCounts, emitCount, sent, overflowed>>

Subscribe(s) ==
  /\ stream[s] = "new"
  /\ Cardinality(registered) < MaxSubscribers
  /\ registered' = registered \cup {s}
  /\ lastActivity' = [lastActivity EXCEPT ![s] = "fresh"]
  /\ heard' = [heard EXCEPT ![s] = sent[UserOf[s]]]
  /\ Become(s, "subscribed")
  /\ UNCHANGED <<queue, fullCounts, emitCount, sent, overflowed>>

(* SSESubscriberLimitError: the client is answered 503. *)
Refuse(s) ==
  /\ stream[s] = "new"
  /\ Cardinality(registered) >= MaxSubscribers
  /\ Become(s, "refused")
  /\ UNCHANGED <<bus, history>>

(* A queue whose key is gone from _last_activity stays out of it. *)
Touched(s) == [lastActivity EXCEPT ![s] = IF @ = "none" THEN @ ELSE "fresh"]

(* Faulty variant: only the queue list is cleaned up. *)
UnsubscribeLeavesKeys(s) ==
  /\ stream[s] = "leaving"
  /\ Become(s, "ended")
  /\ registered' = registered \ {s}
  /\ UNCHANGED <<queue, lastActivity, fullCounts, emitCount, history>>

(* The finally clause of the generator. When the user has no queue left    *)
(* unsubscribe returns before it touches the other two dictionaries.       *)
Unsubscribe(s) ==
  /\ stream[s] = "leaving"
  /\ Become(s, "ended")
  /\ \/ /\ StreamsOf(UserOf[s]) = {}
        /\ UNCHANGED bus
     \/ /\ StreamsOf(UserOf[s]) # {}
        /\ registered' = registered \ {s}
        /\ fullCounts' = [fullCounts EXCEPT ![s] = 0]
        /\ lastActivity' = [lastActivity EXCEPT ![s] = "none"]
        /\ UNCHANGED <<queue, emitCount>>
  /\ UNCHANGED history

-----------------------------------------------------------------------------
(* emit and the reap it may end in *)

(* Faulty variant: a full queue loses its oldest event and the new one. *)
PutOrClear(q, e) == IF Full(q) THEN Tail(q) ELSE Append(q, e)

(* put_nowait; a full queue first loses its oldest event. *)
Put(q, e) == IF Full(q) THEN Append(Tail(q), e) ELSE Append(q, e)

(* What the loop of emit does to the queues of u. *)
Push(u) ==
  /\ queue' = [s \in Streams |->
                 IF s \in StreamsOf(u) THEN Put(queue[s], sent[u] + 1) ELSE queue[s]]
  /\ overflowed' = overflowed \cup {s \in StreamsOf(u) : Full(queue[s])}

Dead == {s \in registered :
           \/ lastActivity[s] = "stale"
           \/ Full(queue'[s]) /\ fullCounts[s] + 1 >= FullThreshold}

(* Queues idle for the TTL, or found full by FullThreshold reaps in a row, *)
(* are dropped from all three dictionaries; nobody tells their stream.     *)
Reap ==
  /\ registered' = registered \ Dead
  /\ lastActivity' = [s \in Streams |-> IF s \in Dead THEN "none" ELSE lastActivity[s]]
  /\ fullCounts' = [s \in Streams |->
                      IF s \in registered \ Dead /\ Full(queue'[s])
                      THEN fullCounts[s] + 1
                      ELSE IF s \in registered THEN 0 ELSE fullCounts[s]]

Emitted(u) == /\ sent[u] < MaxEvents
              /\ sent' = [sent EXCEPT ![u] = @ + 1]
              /\ UNCHANGED <<stream, heard>>

(* Nobody listens: emit returns before it counts the event. *)
EmitToNobody(u) ==
  /\ Emitted(u)
  /\ StreamsOf(u) = {}
  /\ UNCHANGED <<bus, overflowed>>

EmitOnly(u) ==
  /\ Emitted(u)
  /\ StreamsOf(u) # {}
  /\ Push(u)
  /\ emitCount + 1 < ReapEveryEmits
  /\ emitCount' = emitCount + 1
  /\ UNCHANGED <<registered, lastActivity, fullCounts>>

(* Faulty variant: the count is not taken modulo ReapEveryEmits. *)
EmitAndReapCountsOn(u) ==
  /\ Emitted(u)
  /\ StreamsOf(u) # {}
  /\ Push(u)
  /\ emitCount + 1 = ReapEveryEmits
  /\ emitCount' = emitCount + 1
  /\ Reap

EmitAndReap(u) ==
  /\ Emitted(u)
  /\ StreamsOf(u) # {}
  /\ Push(u)
  /\ emitCount + 1 = ReapEveryEmits
  /\ emitCount' = 0
  /\ Reap

-----------------------------------------------------------------------------
(* The response of a stream: event_stream *)

(* The generator starts: the "connected" greeting is yielded. *)
Start(s) ==
  /\ stream[s] = "subscribed"
  /\ Become(s, "sending")
  /\ UNCHANGED <<bus, history>>

(* queue.get() returns the oldest event; the stream touches its queue and  *)
(* yields the event to the client.                                         *)
Take(s) ==
  /\ stream[s] = "waiting"
  /\ queue[s] # <<>>
  /\ queue' = [queue EXCEPT ![s] = Tail(@)]
  /\ heard' = [heard EXCEPT ![s] = Head(queue[s])]
  /\ lastActivity' = Touched(s)
  /\ Become(s, "sending")
  /\ UNCHANGED <<registered, fullCounts, emitCount, sent, overflowed>>

(* No event for 60 seconds: touch and send a comment. *)
KeepAlive(s) ==
  /\ stream[s] = "waiting"
  /\ queue[s] = <<>>
  /\ lastActivity' = Touched(s)
  /\ Become(s, "sending")
  /\ UNCHANGED <<registered, queue, fullCounts, emitCount, history>>

(* The client took what was sent; the generator is resumed. *)
Delivered(s) ==
  /\ stream[s] = "sending"
  /\ Become(s, "waiting")
  /\ UNCHANGED <<bus, history>>

(* Faulty variant: only a cancelled wait cleans up, a cancelled send does  *)
(* not.                                                                    *)
DisconnectSkipsFinally(s) ==
  /\ \/ stream[s] = "subscribed" /\ Become(s, "abandoned")
     \/ stream[s] = "waiting" /\ Become(s, "leaving")
     \/ stream[s] = "sending" /\ Become(s, "ended")
  /\ UNCHANGED <<bus, history>>

(* The client goes away. *)
Disconnect(s) ==
  /\ \/ stream[s] = "subscribed" /\ Become(s, "abandoned")
     \/ stream[s] \in {"waiting", "sending"} /\ Become(s, "leaving")
  /\ UNCHANGED <<bus, history>>

(* The inactivity TTL (30 minutes) passes without a touch. A waiting       *)
(* stream touches its queue every 60 seconds, whatever happens.            *)
GoStale(s) ==
  /\ lastActivity[s] = "fresh"
  /\ stream[s] # "waiting"
  /\ lastActivity' = [lastActivity EXCEPT ![s] = "stale"]
  /\ UNCHANGED <<registered, queue, fullCounts, emitCount, stream, history>>

Next == \/ \E s \in Streams : \/ Subscribe(s) \/ Refuse(s)
                              \/ Start(s) \/ Take(s) \/ KeepAlive(s) \/ Delivered(s)
                              \/ Disconnect(s) \/ Unsubscribe(s)
                              \/ GoStale(s)
        \/ \E u \in Users : EmitToNobody(u) \/ EmitOnly(u) \/ EmitAndReap(u)

Spec == Init /\ [][Next]_vars

-----------------------------------------------------------------------------
(* Type invariant of the bus and its streams (app/core/sse.py). *)
TypeOK ==
  /\ registered    \in SUBSET Streams
  /\ queue         \in [Streams -> Seq(Nat)]
  /\ lastActivity  \in [Streams -> ActivityStates]
  /\ fullCounts    \in [Streams -> Nat]
  /\ emitCount     \in 0 .. ReapEveryEmits - 1
  /\ stream        \in [Streams -> StreamStates]
  /\ sent          \in [Users -> 0 .. MaxEvents]
  /\ heard         \in [Streams -> Nat]
  /\ overflowed    \in SUBSET Streams

(* The process holds at most _MAX_GLOBAL_SUBSCRIBERS queues                *)
(* (sse.py:42-49), whatever subscribes, leaves and is reaped.              *)
SubscriberCap == Cardinality(registered) <= MaxSubscribers

(* The three dictionaries of the bus speak of the same queues              *)
(* (sse.py:58-70 and 105-140): a key is id(queue), so one that outlived    *)
(* its queue would count against whichever queue gets that id next.        *)
BooksAgree ==
  \A s \in Streams : /\ s \in registered <=> lastActivity[s] # "none"
                     /\ s \notin registered => fullCounts[s] = 0
                     /\ fullCounts[s] < FullThreshold

(* A registered queue holds the newest events of its user, in order and    *)
(* without a gap (sse.py:72-103): overflow loses the oldest, never a later  *)
(* event, and a stream that kept up has missed nothing.                    *)
QueueIsTheNewestTail ==
  \A s \in registered :
    LET n == Len(queue[s])
        u == UserOf[s]
    IN /\ heard[s] + n <= sent[u]
       /\ s \notin overflowed => heard[s] + n = sent[u]
       /\ \A i \in 1 .. n : queue[s][i] = sent[u] - n + i

(* Only a stream whose client left before its first byte keeps a queue it  *)
(* will never unsubscribe; every other queue has a live response behind it *)
(* (flatmates.py:89-113).                                                  *)
LeaksOnlyBeforeStart ==
  \A s \in registered :
    stream[s] \in {"subscribed", "waiting", "sending", "leaving", "abandoned"}
=============================================================================
