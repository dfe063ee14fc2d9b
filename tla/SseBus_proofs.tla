--------------------------- MODULE SseBus_proofs ---------------------------
(* What the event bus promises for any set of streams and users and for    *)
(* any value of its limits.                                                *)
EXTENDS SseBus, FiniteSetTheorems, TLAPS

(* A stream that has not subscribed has an empty queue. *)
NewQueuesAreEmpty ==
  \A s \in Streams : stream[s] = "new" => queue[s] = <<>> /\ s \notin overflowed

IInv == /\ TypeOK
        /\ SubscriberCap
        /\ BooksAgree
        /\ NewQueuesAreEmpty
        /\ QueueIsTheNewestTail
        /\ LeaksOnlyBeforeStart

(* Putting an event on a queue keeps it a sequence, adds the event as its  *)
(* last element and moves what stays one place down when it was full.      *)
LEMMA PutIsSound ==
  ASSUME NEW q \in Seq(Nat), NEW e \in Nat
  PROVE  /\ Put(q, e) \in Seq(Nat)
         /\ Len(Put(q, e)) = IF Full(q) THEN Len(q) ELSE Len(q) + 1
         /\ \A i \in 1 .. Len(Put(q, e)) - 1 :
              Put(q, e)[i] = IF Full(q) THEN q[i + 1] ELSE q[i]
         /\ Put(q, e)[Len(Put(q, e))] = e
<1> USE SseAssumption
<1>1. CASE Full(q)
  <2>1. Len(q) > 0 /\ Tail(q) \in Seq(Nat) /\ Len(Tail(q)) = Len(q) - 1
    BY <1>1 DEF Full
  <2>2. \A i \in 1 .. Len(Tail(q)) : Tail(q)[i] = q[i + 1]
    BY <2>1
  <2> QED
    BY <1>1, <2>1, <2>2 DEF Put
<1>2. CASE ~Full(q)
  BY <1>2 DEF Put
<1> QED
  BY <1>1, <1>2

(* q holds the last Len(q) of the events 1 .. e, all of them after event h. *)
NewestTail(q, h, e) == /\ h + Len(q) <= e
                       /\ \A i \in 1 .. Len(q) : q[i] = e - Len(q) + i

LEMMA TakingKeepsTheTail ==
  ASSUME NEW q \in Seq(Nat), q # <<>>, NEW h \in Nat, NEW e \in Nat, NewestTail(q, h, e)
  PROVE  /\ Head(q) \in Nat
         /\ NewestTail(Tail(q), Head(q), e)
         /\ Head(q) + Len(Tail(q)) = e
<1>1. /\ Len(q) \in Nat /\ Len(q) > 0 /\ Head(q) = q[1] /\ q[1] \in Nat
      /\ Len(Tail(q)) = Len(q) - 1
      /\ \A i \in 1 .. Len(q) - 1 : Tail(q)[i] = q[i + 1]
  OBVIOUS
<1>2. q[1] = e - Len(q) + 1
  BY <1>1 DEF NewestTail
<1>3. \A i \in 1 .. Len(q) - 1 : q[i + 1] = e - Len(q) + (i + 1)
  BY <1>1 DEF NewestTail
<1> QED
  BY <1>1, <1>2, <1>3 DEF NewestTail

LEMMA PuttingKeepsTheTail ==
  ASSUME NEW q \in Seq(Nat), NEW h \in Nat, NEW e \in Nat, NewestTail(q, h, e)
  PROVE  /\ NewestTail(Put(q, e + 1), h, e + 1)
         /\ ~Full(q) /\ h + Len(q) = e => h + Len(Put(q, e + 1)) = e + 1
<1> DEFINE p == Put(q, e + 1)
<1>1. /\ p \in Seq(Nat) /\ Len(q) \in Nat /\ Len(p) \in Nat
      /\ Len(p) = IF Full(q) THEN Len(q) ELSE Len(q) + 1
      /\ p[Len(p)] = e + 1
      /\ \A i \in 1 .. Len(p) - 1 : p[i] = IF Full(q) THEN q[i + 1] ELSE q[i]
  BY PutIsSound
<1>2. h + Len(q) <= e /\ \A i \in 1 .. Len(q) : q[i] = e - Len(q) + i
  BY DEF NewestTail
<1> HIDE DEF p
<1>3. \A i \in 1 .. Len(p) - 1 : p[i] = e + 1 - Len(p) + i
  <2>1. CASE Full(q)
    BY <1>1, <1>2, <2>1
  <2>2. CASE ~Full(q)
    BY <1>1, <1>2, <2>2
  <2> QED
    BY <2>1, <2>2
<1>4. NewestTail(p, h, e + 1)
  <2>1. \A i \in 1 .. Len(p) : i = Len(p) \/ i \in 1 .. Len(p) - 1
    BY <1>1
  <2>2. \A i \in 1 .. Len(p) : p[i] = e + 1 - Len(p) + i
    <3>1. ASSUME NEW i \in 1 .. Len(p), i = Len(p)
          PROVE  p[i] = e + 1 - Len(p) + i
      <4>1. p[i] = e + 1
        BY <1>1, <3>1
      <4> QED
        BY <1>1, <3>1, <4>1
    <3> QED
      BY <1>3, <2>1, <3>1
  <2>3. h + Len(p) <= e + 1
    BY <1>1, <1>2
  <2> QED
    BY <2>2, <2>3 DEF NewestTail
<1>5. ~Full(q) /\ h + Len(q) = e => h + Len(p) = e + 1
  BY <1>1
<1> QED
  BY <1>4, <1>5 DEF p

(* The invariant, in the words of the two lemmas. *)
LEMMA TailByStream ==
  ASSUME QueueIsTheNewestTail, NEW s \in registered
  PROVE  /\ NewestTail(queue[s], heard[s], sent[UserOf[s]])
         /\ s \notin overflowed => heard[s] + Len(queue[s]) = sent[UserOf[s]]
BY DEF QueueIsTheNewestTail, NewestTail

(* A set that is not full has room for one more. *)
LEMMA OneMore ==
  ASSUME NEW S, IsFiniteSet(S), NEW x, NEW n \in Nat, Cardinality(S) < n
  PROVE  Cardinality(S \cup {x}) <= n
<1>1. Cardinality(S) \in Nat
  BY FS_CardinalityType
<1>2. Cardinality(S \cup {x}) = IF x \in S THEN Cardinality(S) ELSE Cardinality(S) + 1
  BY FS_AddElement
<1> QED
  BY <1>1, <1>2

LEMMA SentIsNat ==
  ASSUME TypeOK, NEW s \in Streams
  PROVE  UserOf[s] \in Users /\ sent[UserOf[s]] \in Nat
<1>1. UserOf[s] \in Users
  BY SseAssumption
<1>2. sent[UserOf[s]] \in 0 .. MaxEvents
  BY <1>1 DEF TypeOK
<1> QED
  BY <1>1, <1>2, SseAssumption

LEMMA SubscribeKeeps == ASSUME IInv, NEW s \in Streams, Subscribe(s) PROVE IInv'
<1> USE SseAssumption DEF IInv, Become, bus, history, Subscribe
<1>1. TypeOK'
  BY SentIsNat DEF TypeOK, StreamStates, ActivityStates
<1>2. SubscriberCap'
  <2>1. IsFiniteSet(registered)
    BY FS_Subset DEF TypeOK
  <2> QED
    BY <2>1, OneMore DEF SubscriberCap
<1>3. BooksAgree'
  BY DEF BooksAgree, TypeOK, ActivityStates
<1>4. NewQueuesAreEmpty'
  BY DEF NewQueuesAreEmpty, TypeOK, StreamStates
<1>5. LeaksOnlyBeforeStart'
  BY DEF LeaksOnlyBeforeStart, TypeOK, StreamStates
<1>6. QueueIsTheNewestTail'
  <2>1. queue[s] = <<>> /\ heard'[s] = sent[UserOf[s]] /\ sent[UserOf[s]] \in Nat
    BY SentIsNat DEF NewQueuesAreEmpty, TypeOK
  <2>2. \A q \in registered : q # s /\ heard'[q] = heard[q]
    BY DEF LeaksOnlyBeforeStart, TypeOK
  <2> QED
    BY <2>1, <2>2 DEF QueueIsTheNewestTail
<1> QED
  BY <1>1, <1>2, <1>3, <1>4, <1>5, <1>6

LEMMA RefuseKeeps == ASSUME IInv, NEW s \in Streams, Refuse(s) PROVE IInv'
<1> USE SseAssumption DEF IInv, Become, bus, history, Refuse
<1>1. TypeOK'
  BY DEF TypeOK, StreamStates, ActivityStates
<1>2. SubscriberCap'
  BY DEF SubscriberCap
<1>3. BooksAgree'
  BY DEF BooksAgree, TypeOK, ActivityStates
<1>4. NewQueuesAreEmpty'
  BY DEF NewQueuesAreEmpty, TypeOK, StreamStates
<1>5. LeaksOnlyBeforeStart'
  BY DEF LeaksOnlyBeforeStart, TypeOK, StreamStates
<1>6. QueueIsTheNewestTail'
  BY DEF QueueIsTheNewestTail, TypeOK, NewQueuesAreEmpty
<1> QED
  BY <1>1, <1>2, <1>3, <1>4, <1>5, <1>6

LEMMA StartKeeps == ASSUME IInv, NEW s \in Streams, Start(s) PROVE IInv'
<1> USE SseAssumption DEF IInv, Become, bus, history, Start
<1>1. TypeOK'
  BY DEF TypeOK, StreamStates, ActivityStates
<1>2. SubscriberCap'
  BY DEF SubscriberCap
<1>3. BooksAgree'
  BY DEF BooksAgree, TypeOK, ActivityStates
<1>4. NewQueuesAreEmpty'
  BY DEF NewQueuesAreEmpty, TypeOK, StreamStates
<1>5. LeaksOnlyBeforeStart'
  BY DEF LeaksOnlyBeforeStart, TypeOK, StreamStates
<1>6. QueueIsTheNewestTail'
  BY DEF QueueIsTheNewestTail, TypeOK, NewQueuesAreEmpty
<1> QED
  BY <1>1, <1>2, <1>3, <1>4, <1>5, <1>6

LEMMA TakeKeeps == ASSUME IInv, NEW s \in Streams, Take(s) PROVE IInv'
<1> USE SseAssumption DEF IInv, Become, bus, history, Take, Touched
<1>1. TypeOK'
  BY DEF TypeOK, StreamStates, ActivityStates
<1>2. SubscriberCap'
  BY DEF SubscriberCap
<1>3. BooksAgree'
  BY DEF BooksAgree, TypeOK, ActivityStates
<1>4. NewQueuesAreEmpty'
  BY DEF NewQueuesAreEmpty, TypeOK, StreamStates
<1>5. LeaksOnlyBeforeStart'
  BY DEF LeaksOnlyBeforeStart, TypeOK, StreamStates
<1>6. QueueIsTheNewestTail'
  <2> SUFFICES ASSUME NEW q \in registered
               PROVE  /\ NewestTail(queue'[q], heard'[q], sent[UserOf[q]])
                      /\ q \notin overflowed => heard'[q] + Len(queue'[q]) = sent[UserOf[q]]
    BY DEF QueueIsTheNewestTail, NewestTail
  <2>1. /\ NewestTail(queue[q], heard[q], sent[UserOf[q]])
        /\ q \notin overflowed => heard[q] + Len(queue[q]) = sent[UserOf[q]]
    BY TailByStream
  <2>2. /\ q \in Streams /\ queue[q] \in Seq(Nat) /\ heard[q] \in Nat
        /\ sent[UserOf[q]] \in Nat
    BY SentIsNat DEF TypeOK
  <2>3. CASE q # s
    BY <2>1, <2>2, <2>3 DEF TypeOK
  <2>4. CASE q = s
    <3>1. queue'[s] = Tail(queue[s]) /\ heard'[s] = Head(queue[s])
      BY <2>2, <2>4 DEF TypeOK
    <3>2. /\ NewestTail(Tail(queue[s]), Head(queue[s]), sent[UserOf[s]])
          /\ Head(queue[s]) + Len(Tail(queue[s])) = sent[UserOf[s]]
      BY <2>1, <2>2, <2>4, TakingKeepsTheTail
    <3> QED
      BY <2>4, <3>1, <3>2
  <2> QED
    BY <2>3, <2>4
<1> QED
  BY <1>1, <1>2, <1>3, <1>4, <1>5, <1>6

LEMMA KeepAliveKeeps == ASSUME IInv, NEW s \in Streams, KeepAlive(s) PROVE IInv'
<1> USE SseAssumption DEF IInv, Become, bus, history, KeepAlive, Touched
<1>1. TypeOK'
  BY DEF TypeOK, StreamStates, ActivityStates
<1>2. SubscriberCap'
  BY DEF SubscriberCap
<1>3. BooksAgree'
  BY DEF BooksAgree, TypeOK, ActivityStates
<1>4. NewQueuesAreEmpty'
  BY DEF NewQueuesAreEmpty, TypeOK, StreamStates
<1>5. LeaksOnlyBeforeStart'
  BY DEF LeaksOnlyBeforeStart, TypeOK, StreamStates
<1>6. QueueIsTheNewestTail'
  BY DEF QueueIsTheNewestTail, TypeOK, NewQueuesAreEmpty
<1> QED
  BY <1>1, <1>2, <1>3, <1>4, <1>5, <1>6

LEMMA DeliveredKeeps == ASSUME IInv, NEW s \in Streams, Delivered(s) PROVE IInv'
<1> USE SseAssumption DEF IInv, Become, bus, history, Delivered
<1>1. TypeOK'
  BY DEF TypeOK, StreamStates, ActivityStates
<1>2. SubscriberCap'
  BY DEF SubscriberCap
<1>3. BooksAgree'
  BY DEF BooksAgree, TypeOK, ActivityStates
<1>4. NewQueuesAreEmpty'
  BY DEF NewQueuesAreEmpty, TypeOK, StreamStates
<1>5. LeaksOnlyBeforeStart'
  BY DEF LeaksOnlyBeforeStart, TypeOK, StreamStates
<1>6. QueueIsTheNewestTail'
  BY DEF QueueIsTheNewestTail, TypeOK, NewQueuesAreEmpty
<1> QED
  BY <1>1, <1>2, <1>3, <1>4, <1>5, <1>6

LEMMA DisconnectKeeps == ASSUME IInv, NEW s \in Streams, Disconnect(s) PROVE IInv'
<1> USE SseAssumption DEF IInv, Become, bus, history, Disconnect
<1>1. TypeOK'
  BY DEF TypeOK, StreamStates, ActivityStates
<1>2. SubscriberCap'
  BY DEF SubscriberCap
<1>3. BooksAgree'
  BY DEF BooksAgree, TypeOK, ActivityStates
<1>4. NewQueuesAreEmpty'
  BY DEF NewQueuesAreEmpty, TypeOK, StreamStates
<1>5. LeaksOnlyBeforeStart'
  BY DEF LeaksOnlyBeforeStart, TypeOK, StreamStates
<1>6. QueueIsTheNewestTail'
  BY DEF QueueIsTheNewestTail, TypeOK, NewQueuesAreEmpty
<1> QED
  BY <1>1, <1>2, <1>3, <1>4, <1>5, <1>6

LEMMA UnsubscribeKeeps == ASSUME IInv, NEW s \in Streams, Unsubscribe(s) PROVE IInv'
<1> USE SseAssumption DEF IInv, Become, bus, history, Unsubscribe, StreamsOf
<1>1. TypeOK'
  <2>1. CASE StreamsOf(UserOf[s]) = {}
    BY <2>1 DEF TypeOK, StreamStates, ActivityStates
  <2>2. CASE StreamsOf(UserOf[s]) # {}
    <3>1. /\ registered' = registered \ {s} /\ UNCHANGED <<queue, emitCount, history>>
          /\ fullCounts' = [fullCounts EXCEPT ![s] = 0]
          /\ lastActivity' = [lastActivity EXCEPT ![s] = "none"]
          /\ stream' = [stream EXCEPT ![s] = "ended"]
      BY <2>2
    <3> QED
      BY <3>1 DEF TypeOK, StreamStates, ActivityStates
  <2> QED
    BY <2>1, <2>2
<1>2. SubscriberCap'
  <2>1. IsFiniteSet(registered) /\ registered' \subseteq registered
    BY FS_Subset DEF TypeOK
  <2> QED
    BY <2>1, FS_Subset, FS_CardinalityType DEF SubscriberCap
<1>3. BooksAgree'
  BY DEF BooksAgree, TypeOK, ActivityStates
<1>4. NewQueuesAreEmpty'
  BY DEF NewQueuesAreEmpty, TypeOK, StreamStates
<1>5. LeaksOnlyBeforeStart'
  BY DEF LeaksOnlyBeforeStart, TypeOK, StreamStates
<1>6. QueueIsTheNewestTail'
  BY DEF QueueIsTheNewestTail, TypeOK, NewQueuesAreEmpty
<1> QED
  BY <1>1, <1>2, <1>3, <1>4, <1>5, <1>6

LEMMA GoStaleKeeps == ASSUME IInv, NEW s \in Streams, GoStale(s) PROVE IInv'
<1> USE SseAssumption DEF IInv, Become, bus, history, GoStale
<1>1. TypeOK'
  BY DEF TypeOK, StreamStates, ActivityStates
<1>2. SubscriberCap'
  BY DEF SubscriberCap
<1>3. BooksAgree'
  BY DEF BooksAgree, TypeOK, ActivityStates
<1>4. NewQueuesAreEmpty'
  BY DEF NewQueuesAreEmpty, TypeOK, StreamStates
<1>5. LeaksOnlyBeforeStart'
  BY DEF LeaksOnlyBeforeStart, TypeOK, StreamStates
<1>6. QueueIsTheNewestTail'
  BY DEF QueueIsTheNewestTail, TypeOK, NewQueuesAreEmpty
<1> QED
  BY <1>1, <1>2, <1>3, <1>4, <1>5, <1>6

(* What emit does to the queues keeps every queue the newest tail of the   *)
(* events of its user.                                                     *)
LEMMA PushKeepsTheTail ==
  ASSUME IInv, NEW u \in Users, Emitted(u), Push(u), registered' \subseteq registered
  PROVE  /\ QueueIsTheNewestTail'
         /\ queue' \in [Streams -> Seq(Nat)]
         /\ overflowed' \in SUBSET Streams
<1> USE SseAssumption DEF IInv, Push, Emitted
<1>0. /\ queue \in [Streams -> Seq(Nat)] /\ sent[u] \in Nat
      /\ registered \subseteq Streams /\ StreamsOf(u) \subseteq Streams
  BY DEF TypeOK, StreamsOf
<1>1. queue' \in [Streams -> Seq(Nat)] /\ overflowed' \in SUBSET Streams
  BY <1>0, PutIsSound DEF TypeOK
<1>2. QueueIsTheNewestTail'
  <2> SUFFICES ASSUME NEW q \in registered
               PROVE  /\ NewestTail(queue'[q], heard[q], sent'[UserOf[q]])
                      /\ q \notin overflowed' => heard[q] + Len(queue'[q]) = sent'[UserOf[q]]
    BY DEF QueueIsTheNewestTail, NewestTail
  <2>0. /\ q \in Streams /\ queue[q] \in Seq(Nat) /\ heard[q] \in Nat
        /\ UserOf[q] \in Users /\ sent[UserOf[q]] \in Nat
    BY SentIsNat DEF TypeOK
  <2>1. /\ NewestTail(queue[q], heard[q], sent[UserOf[q]])
        /\ q \notin overflowed => heard[q] + Len(queue[q]) = sent[UserOf[q]]
    BY TailByStream
  <2>2. CASE UserOf[q] # u
    BY <2>0, <2>1, <2>2 DEF StreamsOf, TypeOK
  <2>3. CASE UserOf[q] = u
    <3>1. /\ queue'[q] = Put(queue[q], sent[u] + 1)
          /\ sent'[u] = sent[u] + 1
          /\ q \notin overflowed' => q \notin overflowed /\ ~Full(queue[q])
      BY <2>0, <2>3 DEF StreamsOf, TypeOK
    <3>2. /\ NewestTail(Put(queue[q], sent[u] + 1), heard[q], sent[u] + 1)
          /\ ~Full(queue[q]) /\ heard[q] + Len(queue[q]) = sent[u]
               => heard[q] + Len(Put(queue[q], sent[u] + 1)) = sent[u] + 1
      BY <2>0, <2>1, <2>3, PuttingKeepsTheTail
    <3> QED
      BY <2>1, <2>3, <3>1, <3>2
  <2> QED
    BY <2>2, <2>3
<1> QED
  BY <1>1, <1>2

LEMMA EmitToNobodyKeeps == ASSUME IInv, NEW u \in Users, EmitToNobody(u) PROVE IInv'
<1> USE SseAssumption DEF IInv, EmitToNobody, Emitted, bus
<1>1. TypeOK'
  BY DEF TypeOK
<1>2. SubscriberCap' /\ BooksAgree'
  BY DEF SubscriberCap, BooksAgree
<1>3. NewQueuesAreEmpty' /\ LeaksOnlyBeforeStart'
  BY DEF NewQueuesAreEmpty, LeaksOnlyBeforeStart
<1>4. QueueIsTheNewestTail'
  BY DEF QueueIsTheNewestTail, StreamsOf, TypeOK
<1> QED
  BY <1>1, <1>2, <1>3, <1>4

LEMMA EmitOnlyKeeps == ASSUME IInv, NEW u \in Users, EmitOnly(u) PROVE IInv'
<1> USE SseAssumption DEF IInv, EmitOnly, Emitted
<1>0. QueueIsTheNewestTail' /\ queue' \in [Streams -> Seq(Nat)] /\ overflowed' \in SUBSET Streams
  BY PushKeepsTheTail
<1>1. TypeOK'
  BY <1>0 DEF TypeOK
<1>2. SubscriberCap' /\ BooksAgree'
  BY DEF SubscriberCap, BooksAgree
<1>3. LeaksOnlyBeforeStart'
  BY DEF LeaksOnlyBeforeStart
<1>4. NewQueuesAreEmpty'
  BY DEF NewQueuesAreEmpty, LeaksOnlyBeforeStart, Push, StreamsOf
<1> QED
  BY <1>0, <1>1, <1>2, <1>3, <1>4

LEMMA EmitAndReapKeeps == ASSUME IInv, NEW u \in Users, EmitAndReap(u) PROVE IInv'
<1> USE SseAssumption DEF IInv, EmitAndReap, Emitted
<1>0. QueueIsTheNewestTail' /\ queue' \in [Streams -> Seq(Nat)] /\ overflowed' \in SUBSET Streams
  BY PushKeepsTheTail DEF Reap
<1>1. TypeOK'
  BY <1>0 DEF TypeOK, Reap, ActivityStates
<1>2. SubscriberCap'
  <2>1. IsFiniteSet(registered) /\ registered' \subseteq registered
    BY FS_Subset DEF TypeOK, Reap
  <2> QED
    BY <2>1, FS_Subset, FS_CardinalityType DEF SubscriberCap
<1>3. BooksAgree'
  BY DEF BooksAgree, Reap, Dead, TypeOK, ActivityStates
<1>4. LeaksOnlyBeforeStart'
  BY DEF LeaksOnlyBeforeStart, Reap
<1>5. NewQueuesAreEmpty'
  BY DEF NewQueuesAreEmpty, LeaksOnlyBeforeStart, Push, StreamsOf
<1> QED
  BY <1>0, <1>1, <1>2, <1>3, <1>4, <1>5

LEMMA InductiveInvariant == Spec => []IInv
<1>1. Init => IInv
  <2> SUFFICES ASSUME Init PROVE IInv
    OBVIOUS
  <2> USE SseAssumption DEF Init
  <2>1. TypeOK
    BY DEF TypeOK, StreamStates, ActivityStates
  <2>2. SubscriberCap
    BY FS_EmptySet DEF SubscriberCap
  <2> QED
    BY <2>1, <2>2 DEF IInv, BooksAgree, NewQueuesAreEmpty, QueueIsTheNewestTail, LeaksOnlyBeforeStart
<1>2. IInv /\ [Next]_vars => IInv'
  <2> SUFFICES ASSUME IInv, [Next]_vars PROVE IInv'
    OBVIOUS
  <2>1. CASE Next
    BY <2>1, SubscribeKeeps, RefuseKeeps, StartKeeps, TakeKeeps, KeepAliveKeeps, DeliveredKeeps,
       DisconnectKeeps, UnsubscribeKeeps, GoStaleKeeps, EmitToNobodyKeeps, EmitOnlyKeeps,
       EmitAndReapKeeps DEF Next
  <2>2. CASE UNCHANGED vars
    BY <2>2 DEF vars, bus, history, IInv, TypeOK, SubscriberCap, BooksAgree, NewQueuesAreEmpty,
       QueueIsTheNewestTail, LeaksOnlyBeforeStart, StreamsOf
  <2> QED
    BY <2>1, <2>2
<1> QED
  BY <1>1, <1>2, PTL DEF Spec

(* The bus and its streams are well typed (app/core/sse.py). *)
THEOREM TypeCorrect == Spec => []TypeOK
<1>1. IInv => TypeOK
  BY DEF IInv
<1> QED
  BY <1>1, InductiveInvariant, PTL

(* However streams subscribe, leave and are reaped, the process never      *)
(* holds more queues than its cap (sse.py:42-49).                          *)
THEOREM CapIsKept == Spec => []SubscriberCap
<1>1. IInv => SubscriberCap
  BY DEF IInv
<1> QED
  BY <1>1, InductiveInvariant, PTL

(* The dictionaries of the bus never hold a key whose queue is gone        *)
(* (sse.py:58-70, 105-140).                                                *)
THEOREM BooksAlwaysAgree == Spec => []BooksAgree
<1>1. IInv => BooksAgree
  BY DEF IInv
<1> QED
  BY <1>1, InductiveInvariant, PTL

(* Overflow loses the oldest events and nothing else (sse.py:72-103): a    *)
(* registered queue is the newest tail of its user's events for any queue  *)
(* size, and a stream that kept up has missed none.                        *)
THEOREM QueuesHoldTheNewestTail == Spec => []QueueIsTheNewestTail
<1>1. IInv => QueueIsTheNewestTail
  BY DEF IInv
<1> QED
  BY <1>1, InductiveInvariant, PTL

(* A queue nobody will unsubscribe belongs to a client that left before    *)
(* its stream started (flatmates.py:89-113).                               *)
THEOREM OnlyUnstartedStreamsLeak == Spec => []LeaksOnlyBeforeStart
<1>1. IInv => LeaksOnlyBeforeStart
  BY DEF IInv
<1> QED
  BY <1>1, InductiveInvariant, PTL
=============================================================================
