------------------------------- MODULE TSQueue -------------------------------
(***************************************************************************)
(* The doubly linked list of src/lib/ts_queue.c and its mutex.             *)
(*                                                                         *)
(* Any number of threads call its functions.  A call takes the mutex,      *)
(* changes the pointers and gives the mutex back; what happens under the   *)
(* mutex is one step.  The exception is ts_queue_remove, which asks for    *)
(* the mutex a second time where it should give it back.                   *)
(*                                                                         *)
(* A node is a heap cell.  malloc may return any cell that is not in use,  *)
(* one that was freed before with its old pointers still in it too.        *)
(***************************************************************************)
EXTENDS Naturals, Sequences, FiniteSets, SequencesExt

CONSTANTS
  Threads, \* the threads that share the queue
  Items,   \* what is queued
  Nodes,   \* the heap cells there are: the bound on the length of the queue
  Null,    \* the null pointer
  Calls    \* which functions are called: "enqueue", "dequeue", "drop", "remove"

ASSUME ItemsAssumption == Items # {}
ASSUME NodesAssumption == IsFiniteSet(Nodes)
ASSUME NullAssumption == Null \notin Nodes
ASSUME CallsAssumption == Calls \subseteq {"enqueue", "dequeue", "drop", "remove"}

Nobody == "nobody"
ASSUME NobodyAssumption == Nobody \notin Threads

VARIABLES
  list,      \* the struct ts_queue with the nodes' fields, as functions of the node
  allocated, \* the nodes malloc has returned and free has not got back
  mutex,     \* who holds the mutex
  pc,        \* which function each thread is in, "idle" for none
  arg        \* the item it was called with

vars == <<list, allocated, mutex, pc, arg>>

Pointer == Nodes \cup {Null}
List == [head : Pointer, tail : Pointer, size : Nat,
         data : [Nodes -> Items], next : [Nodes -> Pointer], prev : [Nodes -> Pointer]]
AnyItem == CHOOSE x \in Items : TRUE

TypeOK ==
  /\ list \in List
  /\ allocated \subseteq Nodes
  /\ mutex \in Threads \cup {Nobody}
  /\ pc \in [Threads -> {"idle", "enqueue", "dequeue", "drop", "remove", "relock"}]
  /\ arg \in [Threads -> Items]

Init ==
  /\ list = [head |-> Null, tail |-> Null, size |-> 0,
             data |-> [n \in Nodes |-> AnyItem],
             next |-> [n \in Nodes |-> Null], prev |-> [n \in Nodes |-> Null]]
  /\ allocated = {}
  /\ mutex = Nobody
  /\ pc = [t \in Threads |-> "idle"]
  /\ arg = [t \in Threads |-> AnyItem]

-----------------------------------------------------------------------------
(* The list operations.                                                    *)

\* ts_queue_node_new, with the data the caller sets next.
NewNode(l, n, x) == [l EXCEPT !.data[n] = x, !.next[n] = Null, !.prev[n] = Null]

\* Mutant of Behind: the new node is not linked back to the tail.
BehindOneWay(l, tail, n) == [l EXCEPT !.tail = n, !.next[tail] = n]

\* n becomes the tail.
Behind(l, tail, n) == [l EXCEPT !.tail = n, !.next[tail] = n, !.prev[n] = tail]

\* __ts_queue_add: n goes between the two given nodes, Null being the end.
Add(l, before, after, n) ==
  LET grown == [l EXCEPT !.size = @ + 1] IN
  CASE l.head = Null -> [grown EXCEPT !.head = n, !.tail = n]
    [] l.head # Null /\ before = Null ->
         [grown EXCEPT !.head = n, !.prev[after] = n, !.next[n] = after]
    [] l.head # Null /\ before # Null /\ after = Null ->
         Behind(grown, before, n)
    [] l.head # Null /\ before # Null /\ after # Null ->
         [grown EXCEPT !.next[before] = n, !.prev[after] = n,
                       !.prev[n] = before, !.next[n] = after]

\* Mutant of OneLess: the size is counted down twice.
TwoLess(size) == size - 2

OneLess(size) == size - 1

\* __ts_queue_remove_nolock: the node between the two given ones goes.
Unlink(l, before, after) ==
  [l EXCEPT !.size = OneLess(@),
            !.head = IF before = Null THEN after ELSE @,
            !.tail = IF after = Null THEN before ELSE @,
            !.next = [n \in Nodes |-> IF n = before THEN after ELSE @[n]],
            !.prev = [n \in Nodes |-> IF n = after THEN before ELSE @[n]]]

\* The node it frees: found from its neighbours before they are changed.
Between(l, before, after) ==
  IF after # Null THEN l.prev[after] ELSE IF before # Null THEN l.next[before] ELSE l.tail

RemoveNolock(before, after) ==
  IF list.head = Null
  THEN UNCHANGED <<list, allocated>>
  ELSE /\ list' = Unlink(list, before, after)
       /\ allocated' = allocated \ {Between(list, before, after)}

-----------------------------------------------------------------------------
(* The arrangement of the nodes.                                           *)

\* s lists the nodes from head to tail.
LinkedAs(s) ==
  /\ list.size = Len(s)
  /\ list.head = IF s = <<>> THEN Null ELSE s[1]
  /\ list.tail = IF s = <<>> THEN Null ELSE s[Len(s)]
  /\ \A k \in DOMAIN s :
       /\ list.next[s[k]] = IF k = Len(s) THEN Null ELSE s[k + 1]
       /\ list.prev[s[k]] = IF k = 1 THEN Null ELSE s[k - 1]

\* The nodes met on the way from head along next, as far as there are nodes.
Walk[k \in 1..Cardinality(Nodes)] ==
  IF k = 1 THEN list.head ELSE IF Walk[k - 1] = Null THEN Null ELSE list.next[Walk[k - 1]]

Order == [k \in {j \in DOMAIN Walk : Walk[j] # Null} |-> Walk[k]]

-----------------------------------------------------------------------------
(* The calls.                                                              *)

\* A call begins.  Enqueues are only begun while there are cells left for them.
Call(t, f, x) ==
  /\ pc[t] = "idle"
  /\ f \in Calls
  /\ f = "enqueue" =>
       Cardinality(allocated) + Cardinality({u \in Threads : pc[u] = "enqueue"})
         < Cardinality(Nodes)
  /\ pc' = [pc EXCEPT ![t] = f]
  /\ arg' = [arg EXCEPT ![t] = x]
  /\ UNCHANGED <<list, allocated, mutex>>

\* The part of a call under the mutex, from lock to unlock.
Locked(t, f) ==
  /\ pc[t] = f
  /\ mutex = Nobody
  /\ arg' = [arg EXCEPT ![t] = AnyItem]

\* Mutant of Returns: the mutex is not given back.
ReturnsLocked(t) == pc' = [pc EXCEPT ![t] = "idle"] /\ mutex' = t

Returns(t) == pc' = [pc EXCEPT ![t] = "idle"] /\ UNCHANGED mutex

\* Mutant of Queued: the item is put before the head.
QueuedAtHead(n, x) == Add(NewNode(list, n, x), Null, list.head, n)

Queued(n, x) == Add(NewNode(list, n, x), list.tail, Null, n)

\* ts_queue_enqueue.
Enqueue(t) ==
  /\ Locked(t, "enqueue")
  /\ \E n \in Nodes \ allocated :
       /\ list' = Queued(n, arg[t])
       /\ allocated' = allocated \cup {n}
  /\ Returns(t)

\* ts_queue_dequeue.
Dequeue(t) ==
  /\ Locked(t, "dequeue")
  /\ IF list.head = Null
     THEN UNCHANGED <<list, allocated>>
     ELSE RemoveNolock(Null, list.next[list.head])
  /\ Returns(t)

\* server_handle_disconnection: the first node with the item, if there is one,
\* is removed.
Drop(t) ==
  /\ Locked(t, "drop")
  /\ \/ /\ \A k \in DOMAIN Order : list.data[Order[k]] # arg[t]
        /\ UNCHANGED <<list, allocated>>
     \/ \E k \in DOMAIN Order :
          /\ list.data[Order[k]] = arg[t]
          /\ \A j \in 1..(k - 1) : list.data[Order[j]] # arg[t]
          /\ RemoveNolock(list.prev[Order[k]], list.next[Order[k]])
  /\ Returns(t)

\* ts_queue_remove of any node of the queue, up to its second
\* pthread_mutex_lock.  That waits for the mutex the thread holds itself, and
\* so there is no step after it.
RemoveRelocking(t) ==
  /\ Locked(t, "remove")
  /\ \/ /\ allocated = {}
        /\ RemoveNolock(Null, Null)
     \/ \E n \in allocated : RemoveNolock(list.prev[n], list.next[n])
  /\ pc' = [pc EXCEPT ![t] = "relock"]
  /\ mutex' = t

Body(t) == Enqueue(t) \/ Dequeue(t) \/ Drop(t) \/ RemoveRelocking(t)

Next == \E t \in Threads :
  \/ \E f \in Calls, x \in Items : Call(t, f, x)
  \/ Body(t)

Spec == Init /\ [][Next]_vars

\* A thread inside a call runs on, and gets the mutex while that is free.
FairSpec == Spec /\ \A t \in Threads : WF_vars(Body(t))

-----------------------------------------------------------------------------
(* Properties.                                                             *)

\* Whatever the calls and however cells are reused, head, tail, size and the
\* pointers both ways agree on one arrangement of exactly the nodes in use:
\* none is leaked, none is reached after it was freed.
WellLinked == \E s \in SetToSeqs(allocated) : LinkedAs(s)

\* The data along the list behaves like FifoQueue's line.
Fifo == INSTANCE FifoQueue WITH line <- [k \in DOMAIN Order |-> list.data[Order[k]]]
ActsAsFifo == Fifo!Spec

\* "Thread safe FIFO queue" (ts_queue.h): every call returns, whoever else is
\* calling, as long as nobody is caught in ts_queue_remove.
CallsReturn == \A t \in Threads :
  pc[t] # "idle" ~> (pc[t] = "idle" \/ \E u \in Threads : pc[u] = "relock")
=============================================================================
