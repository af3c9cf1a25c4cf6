--------------------------- MODULE ContainersProofs ---------------------------
(***************************************************************************)
(* The properties of Containers, for every value of the constants.         *)
(*                                                                         *)
(* Each container keeps an invariant of its own while it takes steps.      *)
(*                                                                         *)
(* - The list: height falls along the links, and each link leads to the    *)
(*   next lower node, but for that of the head node while a push is        *)
(*   between its two moves (ListLinks); a walk is at a node of the list    *)
(*   and holds its mutex (ListPlaces, ListLocks); an item that was there   *)
(*   when it began is behind it or still ahead (ListWalks).                *)
(* - The table: who is in a bucket has its mutex, to read or to change it  *)
(*   (TableLocks), so that an iterator found stays good (TableFound), and  *)
(*   a bucket has one entry for a key (TableBuckets).                      *)
(* - The stack: who is inside has the mutex (StackLock), and what a copy   *)
(*   has copied is the lower end of the stack (StackCopies).               *)
(* - The queues of one thread: the links follow the order (QueueLinks), so *)
(*   that there is one walk from head to tail.                             *)
(***************************************************************************)
EXTENDS Containers, TLAPS, SequenceTheorems, WellFoundedInduction

-----------------------------------------------------------------------------
(* The list *)

Listed == List!Listed

Walking == {"at", "locking", "both", "calling_back", "deleting"}

(* What a thread does there, by the operation it calls. *)
ListRoles ==
  /\ \A p \in Pusher : pc[p] \in {"idle", "inserting", "moving", "linking"}
  /\ \A t \in List!Walker : pc[t] \in {"idle", "calling"} \cup Walking
  /\ \A t \in List!Walker : pc[t] = "calling_back" => t \notin Remover
  /\ \A t \in List!Walker : pc[t] = "deleting" => t \in Remover

(* Where a thread holds the mutex of n. *)
Holds(t, n) ==
  \/ pc[t] \in {"moving", "linking"} /\ n = HeadNode
  \/ pc[t] \in {"at", "locking", "both", "deleting"} /\ n = current[t]
  \/ pc[t] \in {"both", "calling_back"} /\ n = nxt[t]

ListLocks ==
  \A t \in List!Thread, n \in Node \cup {HeadNode} : owner[n] = t <=> Holds(t, n)

(* Where a walk is. *)
ListPlaces ==
  \A t \in List!Walker :
    /\ pc[t] \in {"at", "locking", "both", "deleting"} => current[t] \in Listed \cup {HeadNode}
    /\ pc[t] \in {"locking", "both"} => nxt[t] = next[current[t]]
    /\ pc[t] \in {"locking", "both", "calling_back"} => nxt[t] \in Listed

(* n is behind k in the list. *)
Behind(n, k) == n \in Listed /\ (k = HeadNode \/ height[n] < height[k])

(* n, a node or null, comes next behind k. *)
Successor(n, k) ==
  /\ n = Null => \A j \in Listed : ~Behind(j, k)
  /\ n # Null => Behind(n, k) /\ \A j \in Listed : Behind(j, k) => j = n \/ height[j] < height[n]

ListLinks ==
  /\ \A n \in Listed : Successor(next[n], n)
  /\ (\A p \in Pusher : pc[p] # "linking") => Successor(next[HeadNode], HeadNode)
  /\ \A p \in Pusher : pc[p] = "linking" => Successor(next[current[p]], HeadNode)
  /\ \A n, k \in Listed : height[n] = height[k] => n = k

(* The nodes of a push or a removal under way. *)
Private(t, n) ==
  \/ pc[t] \in {"inserting", "moving", "linking"} /\ n = current[t]
  \/ pc[t] = "deleting" /\ n = nxt[t]

ListNodes ==
  /\ Listed \subseteq alive
  /\ \A t \in List!Thread, n \in Node \cup {HeadNode, Null} :
        Private(t, n) => n \in alive /\ n \notin Listed
  /\ \A t, u \in List!Thread, n \in Node : Private(t, n) /\ Private(u, n) => t = u
  /\ \A n \in alive : n \in Listed \/ \E t \in List!Thread : Private(t, n)

Old(x) == x \in List!Item /\ x[2] <= calls[x[1]]

ListItems ==
  /\ \A n \in alive : Old(data[n])
  /\ \A n, k \in alive : data[n] = data[k] => n = k
  /\ \A t \in List!Walker : \A i \in DOMAIN passed[t] : Old(passed[t][i])

(* The nodes that a walk has still to pass. *)
Ahead(t, n) ==
  \/ pc[t] = "calling_back" /\ (n = nxt[t] \/ Behind(n, nxt[t]))
  \/ pc[t] \in Walking \ {"calling_back"} /\ Behind(n, current[t])

Passed(t, x) == \E i \in DOMAIN passed[t] : passed[t][i] = x

(* A walk passes nothing twice, and what has been there all the time is    *)
(* either passed or ahead.                                                 *)
ListWalk(t) ==
  /\ \A i, j \in DOMAIN passed[t] : passed[t][i] = passed[t][j] => i = j
  /\ pc[t] \in Walking =>
       /\ \A x \in present[t] : Passed(t, x) \/ \E n \in Listed : Ahead(t, n) /\ data[n] = x
       /\ \A n \in Listed : Ahead(t, n) => ~Passed(t, data[n])

ListWalks == \A t \in List!Walker : ListWalk(t)

ListIInv ==
  /\ List!TypeOK /\ ListRoles /\ ListLocks /\ ListPlaces
  /\ ListLinks /\ ListNodes /\ ListItems /\ ListWalks

(* The head node and null are no nodes of a push, and nobody is no thread. *)
LEMMA ListConstants ==
  /\ List!Thread = Pusher \cup List!Walker /\ Pusher \cap List!Walker = {}
  /\ List!Walker = Visitor \cup Finder \cup Remover
  /\ Visitor \cap Remover = {} /\ Finder \cap Remover = {}
  /\ HeadNode \notin Node /\ Null \notin Node /\ Null # HeadNode
  /\ NoThread \notin List!Thread
  /\ ListCalls \in Nat
BY ConstantsAssumption DEF List!ConstantsAssumption, List!Thread, List!Walker

(* The steps of the list, one by one. *)
LEMMA ListSteps ==
  ASSUME List!Next
  PROVE  \/ \E p \in Pusher :
              List!Allocate(p) \/ List!LockForPush(p) \/ List!MoveNext(p) \/ List!MoveNewNode(p)
         \/ \E t \in List!Walker :
              \/ List!Call(t) \/ List!LockHead(t) \/ List!ReadNext(t) \/ List!ReachEnd(t)
              \/ List!LockNext(t)
         \/ \E t \in Visitor \cup Finder : List!UnlockCurrent(t) \/ List!PassBy(t)
         \/ \E t \in Finder : List!Find(t)
         \/ \E t \in Remover : List!Keep(t) \/ List!Unlink(t) \/ List!Delete(t)
BY ListConstants
   DEF List!Next, List!push_front, List!for_each, List!find_first_if, List!remove_if

LEMMA ListTypeStep ==
  ASSUME List!TypeOK, ListItems, ListPlaces, ListNodes, List!Next
  PROVE  List!TypeOK'
<1> USE ListConstants
<1> USE DEF List!TypeOK, List!Goto, List!list, List!walk
<1>1. ASSUME NEW p \in Pusher, List!Allocate(p)  PROVE List!TypeOK'
  BY <1>1 DEF List!Allocate, List!Item
<1>2. ASSUME NEW p \in Pusher, List!LockForPush(p)  PROVE List!TypeOK'
  BY <1>2 DEF List!LockForPush
<1>3. ASSUME NEW p \in Pusher, List!MoveNext(p)  PROVE List!TypeOK'
  BY <1>3 DEF List!MoveNext
<1>4. ASSUME NEW p \in Pusher, List!MoveNewNode(p)  PROVE List!TypeOK'
  BY <1>4 DEF List!MoveNewNode, List!Above, ListNodes, Private
<1>5. ASSUME NEW t \in List!Walker, List!Call(t)  PROVE List!TypeOK'
  BY <1>5 DEF List!Call
<1>6. ASSUME NEW t \in List!Walker, List!LockHead(t)  PROVE List!TypeOK'
  BY <1>6 DEF List!LockHead, ListItems, ListNodes, Old, Listed
<1>7. ASSUME NEW t \in List!Walker, List!ReadNext(t)  PROVE List!TypeOK'
  BY <1>7 DEF List!ReadNext, ListPlaces, Listed, List!Listed
<1>8. ASSUME NEW t \in List!Walker, List!ReachEnd(t)  PROVE List!TypeOK'
  BY <1>8 DEF List!ReachEnd
<1>9. ASSUME NEW t \in List!Walker, List!LockNext(t)  PROVE List!TypeOK'
  BY <1>9 DEF List!LockNext
<1>10. ASSUME NEW t \in Visitor \cup Finder, List!UnlockCurrent(t)  PROVE List!TypeOK'
  BY <1>10 DEF List!UnlockCurrent
<1>11. ASSUME NEW t \in Visitor \cup Finder, List!PassBy(t)  PROVE List!TypeOK'
  BY <1>11 DEF List!PassBy, List!Step, ListItems, ListNodes, ListPlaces, Old
<1>12. ASSUME NEW t \in Finder, List!Find(t)  PROVE List!TypeOK'
  BY <1>12 DEF List!Find
<1>13. ASSUME NEW t \in Remover, List!Keep(t)  PROVE List!TypeOK'
  BY <1>13 DEF List!Keep, List!Step, ListItems, ListNodes, ListPlaces, Old
<1>14. ASSUME NEW t \in Remover, List!Unlink(t)  PROVE List!TypeOK'
  BY <1>14 DEF List!Unlink
<1>15. ASSUME NEW t \in Remover, List!Delete(t)  PROVE List!TypeOK'
  BY <1>15 DEF List!Delete
<1> QED
  BY <1>1, <1>2, <1>3, <1>4, <1>5, <1>6, <1>7, <1>8, <1>9, <1>10, <1>11, <1>12, <1>13, <1>14,
     <1>15, ListSteps

(* Each thread stays at its operation. *)
LEMMA ListRolesStep ==
  ASSUME List!TypeOK, ListRoles, List!Next
  PROVE  ListRoles'
<1> USE ListConstants
<1> USE DEF List!TypeOK, List!Goto, ListRoles, Walking
<1>1. ASSUME NEW p \in Pusher,
             List!Allocate(p) \/ List!LockForPush(p) \/ List!MoveNext(p) \/ List!MoveNewNode(p)
      PROVE  ListRoles'
  <2>1. \E v \in {"idle", "inserting", "moving", "linking"} : pc' = [pc EXCEPT ![p] = v]
    BY <1>1 DEF List!Allocate, List!LockForPush, List!MoveNext, List!MoveNewNode
  <2> QED
    BY <2>1
<1>2. ASSUME NEW t \in List!Walker,
             List!Call(t) \/ List!LockHead(t) \/ List!ReadNext(t) \/ List!ReachEnd(t)
               \/ List!LockNext(t)
      PROVE  ListRoles'
  <2>1. \E v \in {"idle", "calling", "at", "locking", "both"} : pc' = [pc EXCEPT ![t] = v]
    BY <1>2 DEF List!Call, List!LockHead, List!ReadNext, List!ReachEnd, List!LockNext
  <2> QED
    BY <2>1
<1>3. ASSUME NEW t \in Visitor \cup Finder, List!UnlockCurrent(t) \/ List!PassBy(t)
      PROVE  ListRoles'
  <2>1. \E v \in {"at", "calling_back"} : pc' = [pc EXCEPT ![t] = v]
    BY <1>3 DEF List!UnlockCurrent, List!PassBy
  <2> QED
    BY <2>1
<1>4. ASSUME NEW t \in Finder, List!Find(t)  PROVE ListRoles'
  BY <1>4 DEF List!Find
<1>5. ASSUME NEW t \in Remover, List!Keep(t) \/ List!Unlink(t) \/ List!Delete(t)
      PROVE  ListRoles'
  <2>1. \E v \in {"at", "deleting"} : pc' = [pc EXCEPT ![t] = v]
    BY <1>5 DEF List!Keep, List!Unlink, List!Delete
  <2>2. t \in List!Walker
    BY DEF List!Walker
  <2> QED
    BY <2>1, <2>2
<1> QED
  BY <1>1, <1>2, <1>3, <1>4, <1>5, ListSteps

(* A mutex has its owner where that is in the code that it locks. *)
LEMMA ListLocksStep ==
  ASSUME List!TypeOK, ListRoles, ListLocks, ListPlaces, ListLinks, List!Next
  PROVE  ListLocks'
<1> USE ListConstants
<1> USE DEF List!TypeOK, List!Goto, List!list, List!walk
<1> SUFFICES ASSUME NEW u \in List!Thread, NEW n \in Node \cup {HeadNode}
             PROVE  owner'[n] = u <=> Holds(u, n)'
  BY DEF ListLocks
<1>0. owner[n] = u <=> Holds(u, n)
  BY DEF ListLocks
<1> DEFINE Goal == owner'[n] = u <=> Holds(u, n)'
<1>1. ASSUME NEW p \in Pusher, List!Allocate(p)  PROVE Goal
  BY <1>1, <1>0 DEF List!Allocate, Holds
<1>2. ASSUME NEW p \in Pusher, List!LockForPush(p)  PROVE Goal
  BY <1>2, <1>0 DEF List!LockForPush, Holds
<1>3. ASSUME NEW p \in Pusher, List!MoveNext(p)  PROVE Goal
  BY <1>3, <1>0 DEF List!MoveNext, Holds
<1>4. ASSUME NEW p \in Pusher, List!MoveNewNode(p)  PROVE Goal
  <2>1. owner[HeadNode] = p
    BY <1>4 DEF List!MoveNewNode, ListLocks, Holds
  <2> QED
    BY <1>4, <1>0, <2>1 DEF List!MoveNewNode, Holds
<1>5. ASSUME NEW t \in List!Walker, List!Call(t)  PROVE Goal
  BY <1>5, <1>0 DEF List!Call, Holds
<1>6. ASSUME NEW t \in List!Walker, List!LockHead(t)  PROVE Goal
  BY <1>6, <1>0 DEF List!LockHead, Holds
<1>7. ASSUME NEW t \in List!Walker, List!ReadNext(t)  PROVE Goal
  BY <1>7, <1>0 DEF List!ReadNext, Holds
<1>8. ASSUME NEW t \in List!Walker, List!ReachEnd(t)  PROVE Goal
  <2>1. owner[current[t]] = t /\ current[t] \in Node \cup {HeadNode}
    BY <1>8 DEF List!ReachEnd, ListLocks, Holds, ListPlaces, Listed, List!Listed
  <2> QED
    BY <1>8, <1>0, <2>1 DEF List!ReachEnd, Holds
<1>9. ASSUME NEW t \in List!Walker, List!LockNext(t)  PROVE Goal
  BY <1>9, <1>0 DEF List!LockNext, Holds
<1>10. ASSUME NEW t \in List!Walker, pc[t] = "both"
       PROVE  /\ current[t] # nxt[t] /\ owner[current[t]] = t /\ owner[nxt[t]] = t
              /\ current[t] \in Node \cup {HeadNode} /\ nxt[t] \in Node
  <2>1. /\ current[t] \in Node \cup {HeadNode} /\ nxt[t] \in Node
        /\ owner[current[t]] = t /\ owner[nxt[t]] = t
    BY <1>10 DEF ListLocks, Holds, ListPlaces, Listed, List!Listed
  <2>2. current[t] \in Listed => Behind(nxt[t], current[t])
    BY <2>1, <1>10 DEF ListPlaces, ListLinks, Successor
  <2>3. current[t] # nxt[t]
    <3>1. CASE current[t] = HeadNode
      BY <3>1, <2>1
    <3>2. CASE current[t] \in Listed
      BY <3>2, <2>1, <2>2 DEF Behind, Listed, List!Listed
    <3> QED
      BY <3>1, <3>2, <1>10 DEF ListPlaces
  <2> QED
    BY <2>1, <2>3
<1>11. ASSUME NEW t \in Visitor \cup Finder, List!UnlockCurrent(t)  PROVE Goal
  <2>1. t \in List!Walker /\ pc[t] = "both"
    BY <1>11 DEF List!UnlockCurrent
  <2> QED
    BY <1>11, <1>0, <2>1, <1>10 DEF List!UnlockCurrent, Holds
<1>12. ASSUME NEW t \in Visitor \cup Finder, List!PassBy(t)  PROVE Goal
  BY <1>12, <1>0 DEF List!PassBy, List!Step, Holds
<1>13. ASSUME NEW t \in Finder, List!Find(t)  PROVE Goal
  <2>1. owner[nxt[t]] = t
    BY <1>13 DEF List!Find, ListLocks, Holds
  <2> QED
    BY <1>13, <1>0, <2>1 DEF List!Find, Holds
<1>14. ASSUME NEW t \in Remover, List!Keep(t)  PROVE Goal
  <2>1. t \in List!Walker /\ pc[t] = "both"
    BY <1>14 DEF List!Keep
  <2> QED
    BY <1>14, <1>0, <2>1, <1>10 DEF List!Keep, List!Step, Holds
<1>15. ASSUME NEW t \in Remover, List!Unlink(t)  PROVE Goal
  <2>1. t \in List!Walker /\ pc[t] = "both"
    BY <1>15 DEF List!Unlink
  <2> QED
    BY <1>15, <1>0, <2>1, <1>10 DEF List!Unlink, Holds
<1>16. ASSUME NEW t \in Remover, List!Delete(t)  PROVE Goal
  BY <1>16, <1>0 DEF List!Delete, Holds
<1> QED
  BY <1>1, <1>2, <1>3, <1>4, <1>5, <1>6, <1>7, <1>8, <1>9, <1>11, <1>12, <1>13, <1>14, <1>15,
     <1>16, ListSteps

(* Nobody pushes while a walk has the mutex of head: the successor of the  *)
(* node that it is at is the one in next.                                  *)
LEMMA ListSuccessor ==
  ASSUME List!TypeOK, ListRoles, ListLocks, ListPlaces, ListLinks,
         NEW t \in List!Walker, pc[t] \in {"at", "locking", "both", "deleting"}
  PROVE  /\ current[t] \in Node \cup {HeadNode} /\ owner[current[t]] = t
         /\ Successor(next[current[t]], current[t])
<1> USE ListConstants
<1>1. current[t] \in Listed \cup {HeadNode} /\ current[t] \in Node \cup {HeadNode}
  BY DEF ListPlaces, Listed, List!Listed
<1>2. owner[current[t]] = t
  BY <1>1 DEF ListLocks, Holds
<1>3. CASE current[t] \in Listed
  BY <1>1, <1>2, <1>3 DEF ListLinks
<1>4. CASE current[t] = HeadNode
  <2>1. \A p \in Pusher : pc[p] # "linking"
    BY <1>2, <1>4 DEF ListLocks, Holds
  <2> QED
    BY <2>1, <1>1, <1>2, <1>4 DEF ListLinks
<1> QED
  BY <1>1, <1>3, <1>4

(* A node is the successor of one node only. *)
LEMMA OnePredecessor ==
  ASSUME List!TypeOK, ListLinks, NEW j \in Listed \cup {HeadNode}, NEW k \in Listed \cup {HeadNode},
         NEW n \in Node, Successor(n, j), Successor(n, k)
  PROVE  j = k
<1> USE ListConstants
<1>1. Behind(n, j) /\ Behind(n, k)
  BY DEF Successor
<1>2. /\ j \in Listed /\ Behind(j, k) => j = n \/ height[j] < height[n]
      /\ k \in Listed /\ Behind(k, j) => k = n \/ height[k] < height[n]
  BY DEF Successor
<1>3. \A i \in Listed : height[i] \in Nat /\ i # HeadNode
  BY DEF Listed, List!Listed, List!TypeOK
<1> QED
  BY <1>1, <1>2, <1>3 DEF Behind, ListLinks

(* A walk stays in the list: what it holds is not taken away by others. *)
LEMMA ListPlacesStep ==
  ASSUME List!TypeOK, ListRoles, ListLocks, ListPlaces, ListLinks, ListNodes, List!Next
  PROVE  ListPlaces'
<1> USE ListConstants
<1> USE DEF List!Goto, List!list, List!walk
<1> DEFINE Place(u) ==
      /\ pc[u] \in {"at", "locking", "both", "deleting"} => current[u] \in Listed \cup {HeadNode}
      /\ pc[u] \in {"locking", "both"} => nxt[u] = next[current[u]]
      /\ pc[u] \in {"locking", "both", "calling_back"} => nxt[u] \in Listed
<1> SUFFICES ASSUME NEW u \in List!Walker  PROVE Place(u)'
  BY DEF ListPlaces
<1>0. Place(u)
  BY DEF ListPlaces
<1>a. u \in List!Thread /\ Listed \subseteq Node
  BY DEF Listed, List!Listed
<1>1. ASSUME NEW p \in Pusher, List!Allocate(p)  PROVE Place(u)'
  <2>1. current[u] \in Listed \cup {HeadNode} => next'[current[u]] = next[current[u]]
    BY <1>1, <1>a DEF List!Allocate, List!TypeOK, ListNodes
  <2> QED
    BY <1>1, <1>0, <1>a, <2>1 DEF List!Allocate, List!TypeOK, Listed, List!Listed
<1>2. ASSUME NEW p \in Pusher, List!LockForPush(p)  PROVE Place(u)'
  BY <1>2, <1>0, <1>a DEF List!LockForPush, List!TypeOK, Listed, List!Listed
<1>3. ASSUME NEW p \in Pusher, List!MoveNext(p)  PROVE Place(u)'
  <2>1. owner[HeadNode] = p /\ current[p] \notin Listed
    BY <1>3 DEF List!MoveNext, ListLocks, Holds, ListNodes, Private, List!TypeOK
  <2>2. pc[u] \in {"locking", "both"} => current[u] # HeadNode
    BY <2>1, <1>a DEF ListLocks, Holds
  <2>3. pc[u] \in {"locking", "both"} => next'[current[u]] = next[current[u]]
    BY <1>3, <1>0, <1>a, <2>1, <2>2 DEF List!MoveNext, List!TypeOK
  <2> QED
    BY <1>3, <1>0, <1>a, <2>3 DEF List!MoveNext, List!TypeOK, Listed, List!Listed
<1>4. ASSUME NEW p \in Pusher, List!MoveNewNode(p)  PROVE Place(u)'
  <2>1. owner[HeadNode] = p
    BY <1>4 DEF List!MoveNewNode, ListLocks, Holds
  <2>2. pc[u] \in {"locking", "both"} => current[u] # HeadNode
    BY <2>1, <1>a DEF ListLocks, Holds
  <2>3. pc[u] \in {"locking", "both"} => next'[current[u]] = next[current[u]]
    BY <1>4, <1>0, <1>a, <2>2 DEF List!MoveNewNode, List!TypeOK
  <2>4. Listed \subseteq Listed'
    BY <1>4 DEF List!MoveNewNode, List!Above, List!TypeOK, Listed, List!Listed
  <2> QED
    BY <1>4, <1>0, <1>a, <2>3, <2>4 DEF List!MoveNewNode, List!TypeOK
<1>5. ASSUME NEW t \in List!Walker, List!Call(t)  PROVE Place(u)'
  BY <1>5, <1>0, <1>a DEF List!Call, List!TypeOK, Listed, List!Listed
<1>6. ASSUME NEW t \in List!Walker, List!LockHead(t)  PROVE Place(u)'
  BY <1>6, <1>0, <1>a DEF List!LockHead, List!TypeOK, Listed, List!Listed
<1>7. ASSUME NEW t \in List!Walker, List!ReadNext(t)  PROVE Place(u)'
  <2>1. next[current[t]] \in Listed
    BY <1>7, ListSuccessor DEF List!ReadNext, Successor, Behind
  <2> QED
    BY <1>7, <1>0, <1>a, <2>1 DEF List!ReadNext, List!TypeOK, Listed, List!Listed
<1>8. ASSUME NEW t \in List!Walker, List!ReachEnd(t)  PROVE Place(u)'
  BY <1>8, <1>0, <1>a DEF List!ReachEnd, List!TypeOK, Listed, List!Listed
<1>9. ASSUME NEW t \in List!Walker, List!LockNext(t)  PROVE Place(u)'
  BY <1>9, <1>0, <1>a DEF List!LockNext, List!TypeOK, Listed, List!Listed
<1>10. ASSUME NEW t \in Visitor \cup Finder, List!UnlockCurrent(t)  PROVE Place(u)'
  BY <1>10, <1>0, <1>a DEF List!UnlockCurrent, List!TypeOK, Listed, List!Listed
<1>11. ASSUME NEW t \in Visitor \cup Finder, List!PassBy(t)  PROVE Place(u)'
  BY <1>11, <1>0, <1>a DEF List!PassBy, List!Step, List!TypeOK, Listed, List!Listed
<1>12. ASSUME NEW t \in Finder, List!Find(t)  PROVE Place(u)'
  BY <1>12, <1>0, <1>a DEF List!Find, List!TypeOK, Listed, List!Listed
<1>13. ASSUME NEW t \in Remover, List!Keep(t)  PROVE Place(u)'
  BY <1>13, <1>0, <1>a DEF List!Keep, List!Step, List!TypeOK, Listed, List!Listed
<1>14. ASSUME NEW t \in Remover, List!Unlink(t)  PROVE Place(u)'
  <2>1. /\ pc[t] = "both" /\ t \in List!Walker /\ t \in List!Thread
        /\ owner[nxt[t]] = t /\ owner[current[t]] = t
        /\ nxt[t] \in Node /\ nxt[t] \in Listed /\ nxt[t] = next[current[t]]
        /\ current[t] \in Listed \cup {HeadNode}
    BY <1>14, <1>a DEF List!Unlink, ListPlaces, ListLocks, Holds
  <2>2. Listed' = Listed \ {nxt[t]}
    BY <1>14, <2>1 DEF List!Unlink, List!TypeOK, Listed, List!Listed
  <2>3. current[t] # nxt[t]
    <3>1. Behind(nxt[t], current[t])
      BY <2>1, ListSuccessor DEF Successor
    <3> QED
      BY <3>1, <2>1, <1>a DEF Behind, List!TypeOK
  <2>4. CASE u = t
    BY <1>14, <2>1, <2>2, <2>3, <2>4, <1>0 DEF List!Unlink, List!TypeOK
  <2>5. CASE u # t
    <3>1. pc'[u] = pc[u] /\ current'[u] = current[u] /\ nxt'[u] = nxt[u]
      BY <1>14, <2>5 DEF List!Unlink, List!TypeOK
    <3>2. pc[u] \in {"at", "locking", "both", "deleting"} =>
            current[u] # nxt[t] /\ current[u] # current[t]
      BY <2>1, <2>5, <1>a DEF ListLocks, Holds
    <3>3. pc[u] \in {"locking", "both"} => next'[current[u]] = next[current[u]]
      BY <1>14, <3>2, <1>0, <1>a DEF List!Unlink, List!TypeOK
    <3>4. pc[u] \in {"locking", "both"} => nxt[u] # nxt[t]
      BY <2>1, <3>2, <1>0, ListSuccessor, OnePredecessor
    <3>5. pc[u] \in {"both", "calling_back"} => nxt[u] # nxt[t]
      BY <2>1, <2>5, <1>a, <1>0 DEF ListLocks, Holds
    <3> QED
      BY <1>0, <2>2, <3>1, <3>2, <3>3, <3>4, <3>5
  <2> QED
    BY <2>4, <2>5
<1>15. ASSUME NEW t \in Remover, List!Delete(t)  PROVE Place(u)'
  BY <1>15, <1>0, <1>a DEF List!Delete, List!TypeOK, Listed, List!Listed, ListPlaces
<1> QED
  BY <1>1, <1>2, <1>3, <1>4, <1>5, <1>6, <1>7, <1>8, <1>9, <1>10, <1>11, <1>12, <1>13, <1>14,
     <1>15, ListSteps

(* A step that leaves the links, the order and the pushes alone. *)
LEMMA ListLinksKept ==
  ASSUME List!TypeOK, ListLinks, UNCHANGED height,
         \A n \in Listed \cup {HeadNode} : next'[n] = next[n],
         \A p \in Pusher : pc'[p] = "linking" <=> pc[p] = "linking",
         \A p \in Pusher : pc[p] = "linking" =>
           current'[p] = current[p] /\ next'[current[p]] = next[current[p]]
  PROVE  ListLinks'
BY DEF ListLinks, Successor, Behind, Listed, List!Listed

(* The links stay in the order of the heights. *)
LEMMA ListLinksStep ==
  ASSUME List!TypeOK, ListRoles, ListLocks, ListPlaces, ListLinks, ListNodes, List!Next
  PROVE  ListLinks'
<1> USE ListConstants
<1> USE DEF List!Goto, List!list, List!walk
<1>a. Listed \subseteq Node /\ Listed \subseteq alive /\ alive \subseteq Node
  BY DEF Listed, List!Listed, List!TypeOK, ListNodes
<1>b. \A p \in Pusher : pc[p] \in {"inserting", "moving", "linking"} =>
        current[p] \in alive /\ current[p] \notin Listed
  BY DEF ListNodes, Private, List!TypeOK
<1>1. ASSUME NEW p \in Pusher, List!Allocate(p)  PROVE ListLinks'
  <2>1. \A n \in alive \cup {HeadNode} : next'[n] = next[n]
    BY <1>1, <1>a DEF List!Allocate, List!TypeOK
  <2> QED
    BY <1>1, <1>a, <1>b, <2>1, ListLinksKept DEF List!Allocate, List!TypeOK
<1>2. ASSUME NEW p \in Pusher, List!LockForPush(p)  PROVE ListLinks'
  BY <1>2, ListLinksKept DEF List!LockForPush, List!TypeOK
<1>3. ASSUME NEW p \in Pusher, List!MoveNext(p)  PROVE ListLinks'
  <2>1. \A q \in Pusher : pc[q] # "linking"
    BY <1>3 DEF List!MoveNext, ListLocks, Holds
  <2>2. \A q \in Pusher : pc'[q] = "linking" <=> q = p
    BY <1>3, <2>1 DEF List!MoveNext, List!TypeOK
  <2>3. current[p] \in Node /\ current[p] \notin Listed
    BY <1>3, <1>a, <1>b DEF List!MoveNext
  <2>4. next'[current[p]] = next[HeadNode] /\ \A n \in Listed : next'[n] = next[n]
    BY <1>3, <1>a, <2>3 DEF List!MoveNext, List!TypeOK
  <2>5. Successor(next[HeadNode], HeadNode)
    BY <2>1 DEF ListLinks
  <2> QED
    <3>1. Listed' = Listed /\ UNCHANGED <<height, current>>
      BY <1>3 DEF List!MoveNext, Listed, List!Listed
    <3>2. \A n \in Listed : Successor(next[n], n)'
      BY <2>4, <3>1 DEF ListLinks, Successor, Behind
    <3>3. Successor(next[current[p]], HeadNode)'
      BY <2>4, <2>5, <3>1 DEF Successor, Behind
    <3> QED
      BY <2>2, <3>1, <3>2, <3>3 DEF ListLinks
<1>4. ASSUME NEW p \in Pusher, List!MoveNewNode(p)  PROVE ListLinks'
  <2> DEFINE new == current[p]
  <2>1. \A q \in Pusher : pc[q] = "linking" => q = p
    BY <1>4 DEF List!MoveNewNode, ListLocks, Holds
  <2>2. \A q \in Pusher : pc'[q] # "linking"
    BY <1>4, <2>1 DEF List!MoveNewNode, List!TypeOK
  <2>3. new \in Node /\ new \notin Listed /\ next[new] \in Node \cup {Null}
    BY <1>4, <1>a, <1>b DEF List!MoveNewNode, List!TypeOK
  <2>4. Successor(next[new], HeadNode)
    BY <1>4 DEF List!MoveNewNode, ListLinks
  <2>5. /\ new' = new /\ next'[HeadNode] = new /\ \A n \in Node : next'[n] = next[n]
        /\ height'[new] = List!Above(next[new])
        /\ \A n \in Node \ {new} : height'[n] = height[n]
    BY <1>4, <2>3 DEF List!MoveNewNode, List!TypeOK
  <2>6. \A n \in Listed : height[n] < height'[new]
    <3>1. CASE next[new] = Null
      BY <2>4, <3>1 DEF Successor, Behind
    <3>2. CASE next[new] \in Node
      <4> SUFFICES ASSUME NEW n \in Listed  PROVE height[n] < height'[new]
        OBVIOUS
      <4>1. n = next[new] \/ height[n] < height[next[new]]
        BY <2>4, <3>2 DEF Successor, Behind
      <4> QED
        BY <4>1, <3>2, <2>5, <1>a DEF List!Above, List!TypeOK
    <3> QED
      BY <2>3, <3>1, <3>2
  <2>7. height'[new] \in Nat /\ height'[new] > 0
    BY <2>3, <2>5 DEF List!Above, List!TypeOK
  <2>8. /\ Listed' = Listed \cup {new}
        /\ \A n \in Listed : n # new /\ height'[n] = height[n] /\ height[n] \in Nat
    BY <2>3, <2>5, <2>7, <1>a DEF Listed, List!Listed, List!TypeOK
  <2>9. \A n \in Listed : Successor(next[n], n)'
    <3> SUFFICES ASSUME NEW n \in Listed  PROVE Successor(next[n], n)'
      OBVIOUS
    <3>1. Successor(next[n], n) /\ next'[n] = next[n] /\ n # HeadNode
      BY <1>a, <2>5 DEF ListLinks
    <3>2. \A j \in Listed' : Behind(j, n)' <=> j \in Listed /\ Behind(j, n)
      BY <3>1, <2>6, <2>7, <2>8 DEF Behind
    <3> QED
      BY <3>1, <3>2, <2>8 DEF Successor, Behind
  <2>10. Successor(next[new], new)'
    <3>1. \A j \in Listed' : Behind(j, new)' <=> j \in Listed
      BY <2>3, <2>5, <2>6, <2>7, <2>8 DEF Behind
    <3> QED
      BY <3>1, <2>3, <2>4, <2>5, <2>8 DEF Successor, Behind
  <2>11. Successor(next[HeadNode], HeadNode)'
    BY <2>3, <2>5, <2>6, <2>7, <2>8 DEF Successor, Behind
  <2>12. \A n, k \in Listed' : height'[n] = height'[k] => n = k
    BY <2>6, <2>7, <2>8 DEF ListLinks
  <2> QED
    BY <2>2, <2>5, <2>8, <2>9, <2>10, <2>11, <2>12 DEF ListLinks
<1>5. ASSUME NEW t \in List!Walker,
             \/ List!Call(t) \/ List!LockHead(t) \/ List!ReadNext(t) \/ List!ReachEnd(t)
             \/ List!LockNext(t) \/ List!UnlockCurrent(t) \/ List!PassBy(t) \/ List!Find(t)
             \/ List!Keep(t) \/ List!Delete(t)
      PROVE  ListLinks'
  <2>1. /\ UNCHANGED <<next, height>>
        /\ \A p \in Pusher : pc'[p] = pc[p] /\ current'[p] = current[p]
    BY <1>5 DEF List!Call, List!LockHead, List!ReadNext, List!ReachEnd, List!LockNext,
                List!UnlockCurrent, List!PassBy, List!Find, List!Keep, List!Delete, List!Step,
                List!TypeOK
  <2> QED
    BY <2>1, ListLinksKept
<1>6. ASSUME NEW t \in Remover, List!Unlink(t)  PROVE ListLinks'
  <2> DEFINE cur == current[t]
             old == nxt[t]
  <2>1. /\ pc[t] = "both" /\ t \in List!Walker
        /\ old \in Listed /\ old = next[cur] /\ cur \in Listed \cup {HeadNode}
        /\ owner[cur] = t /\ Successor(old, cur)
    BY <1>6, ListSuccessor DEF List!Unlink, ListPlaces
  <2>2. Listed' = Listed \ {old} /\ \A n \in Listed' : height'[n] = height[n]
    BY <1>6, <1>a, <2>1 DEF List!Unlink, List!TypeOK, Listed, List!Listed
  <2>3. cur # old /\ Behind(old, cur) /\ old # HeadNode /\ old # Null
    BY <2>1, <1>a DEF Behind, Successor, List!TypeOK
  <2>4. /\ cur' = cur /\ old' = old /\ next'[cur] = next[old]
        /\ \A n \in (Node \cup {HeadNode}) \ {cur, old} : next'[n] = next[n]
        /\ \A q \in Pusher : pc'[q] = pc[q] /\ current'[q] = current[q]
    BY <1>6, <1>a, <2>1, <2>3 DEF List!Unlink, List!TypeOK
  <2>5. \A n \in Listed : height[n] \in Nat
    BY <1>a DEF List!TypeOK
  <2>6. Successor(next[old], old)
    BY <2>1 DEF ListLinks
  <2>7. \A j \in Listed', k \in Listed' \cup {HeadNode} : Behind(j, k)' <=> Behind(j, k)
    BY <1>a, <2>2 DEF Behind
  <2>8. Successor(next[cur], cur)'
    <3>1. \A j \in Listed' : Behind(j, cur) => Behind(j, old)
      BY <2>1, <2>2, <2>3 DEF Successor, Behind
    <3>2. \A j \in Listed : Behind(j, old) => Behind(j, cur) /\ j # old
      BY <2>3, <2>5, <1>a, <2>1 DEF Behind
    <3>3. cur \in Listed' \cup {HeadNode}
      BY <2>1, <2>2, <2>3
    <3>4. next[old] # Null => next[old] \in Listed'
      BY <2>2, <2>6, <3>2 DEF Successor, Behind
    <3> QED
      BY <2>2, <2>4, <2>6, <2>7, <3>1, <3>2, <3>3, <3>4 DEF Successor
  <2>9. ASSUME NEW n \in (Listed' \cup {HeadNode}) \ {cur}, Successor(next[n], n)
        PROVE  Successor(next[n], n)'
    <3>1. next[n] # old
      BY <2>1, <2>2, <2>9, <1>a, OnePredecessor
    <3>2. next'[n] = next[n]
      BY <2>2, <2>3, <2>4, <1>a
    <3>3. next[n] # Null => next[n] \in Listed'
      BY <2>2, <2>9, <3>1 DEF Successor, Behind
    <3> QED
      BY <2>2, <2>7, <2>9, <3>2, <3>3 DEF Successor
  <2>10. \A n \in Listed' : Successor(next[n], n)'
    BY <2>2, <2>4, <2>8, <2>9 DEF ListLinks
  <2>11. ASSUME \A q \in Pusher : pc'[q] # "linking"
         PROVE  Successor(next[HeadNode], HeadNode)'
    BY <2>4, <2>8, <2>9, <2>11 DEF ListLinks
  <2>12. ASSUME NEW q \in Pusher, pc'[q] = "linking"
         PROVE  Successor(next[current[q]], HeadNode)'
    <3>1. pc[q] = "linking" /\ owner[HeadNode] = q /\ Successor(next[current[q]], HeadNode)
      BY <2>4, <2>12 DEF ListLinks, ListLocks, Holds
    <3>2. cur # HeadNode /\ HeadNode \notin Listed
      BY <2>1, <3>1, <1>a
    <3>3. next[current[q]] # old
      <4>1. cur \in Listed
        BY <2>1, <3>2
      <4>2. ~Successor(old, HeadNode)
        BY <4>1, <2>1, <2>3, <2>5, <3>2 DEF Successor, Behind
      <4> QED
        BY <3>1, <4>2
    <3>4. next'[current'[q]] = next[current[q]]
      BY <2>1, <2>4, <3>1, <3>2, <1>a, <1>b
    <3>5. next[current[q]] # Null => next[current[q]] \in Listed'
      BY <2>2, <3>1, <3>3 DEF Successor, Behind
    <3> QED
      BY <2>2, <2>7, <3>1, <3>4, <3>5 DEF Successor
  <2>13. \A n, k \in Listed' : height'[n] = height'[k] => n = k
    BY <2>2 DEF ListLinks
  <2> QED
    BY <2>10, <2>11, <2>12, <2>13 DEF ListLinks
<1> QED
  BY <1>1, <1>2, <1>3, <1>4, <1>5, <1>6, ListSteps

(* Nodes are in the list, or one thread's own. *)
LEMMA ListNodesStep ==
  ASSUME List!TypeOK, ListRoles, ListLocks, ListPlaces, ListLinks, ListNodes, List!Next
  PROVE  ListNodes'
<1> USE ListConstants
<1> USE DEF List!Goto, List!list, List!walk
<1>a. Listed \subseteq Node /\ Listed \subseteq alive /\ alive \subseteq Node /\ Null \notin alive
  BY DEF Listed, List!Listed, List!TypeOK, ListNodes
<1>1. ASSUME NEW p \in Pusher, List!Allocate(p)  PROVE ListNodes'
  <2>1. PICK n \in Node \ alive :
          /\ alive' = alive \cup {n} /\ current' = [current EXCEPT ![p] = n]
    BY <1>1 DEF List!Allocate
  <2>2. Listed' = Listed /\ n \notin Listed /\ n # HeadNode
    BY <1>1, <1>a DEF List!Allocate, Listed, List!Listed
  <2>3. \A u \in List!Thread, k \in Node \cup {HeadNode, Null} :
          Private(u, k)' <=> IF u = p THEN k = n ELSE Private(u, k)
    BY <1>1, <2>1 DEF List!Allocate, Private, List!TypeOK
  <2>4. Listed' \subseteq alive'
    BY <2>1, <2>2, <1>a
  <2>5. \A u \in List!Thread, k \in Node \cup {HeadNode, Null} :
          Private(u, k)' => k \in alive' /\ k \notin Listed'
    BY <2>1, <2>2, <2>3 DEF ListNodes
  <2>6. \A u, v \in List!Thread, k \in Node : Private(u, k)' /\ Private(v, k)' => u = v
    BY <2>1, <2>3 DEF ListNodes
  <2>7. \A u \in List!Thread, k \in alive : Private(u, k) => Private(u, k)'
    BY <1>1, <1>a, <2>3 DEF List!Allocate, Private
  <2>8. \A k \in alive' : k \in Listed' \/ \E u \in List!Thread : Private(u, k)'
    BY <2>1, <2>2, <2>3, <2>7, <1>a DEF ListNodes
  <2> QED
    BY <2>4, <2>5, <2>6, <2>8 DEF ListNodes
<1>2. ASSUME UNCHANGED <<alive, height>>,
             \A u \in List!Thread, k \in Node \cup {HeadNode, Null} :
               Private(u, k)' <=> Private(u, k)
      PROVE  ListNodes'
  BY <1>2, <1>a DEF ListNodes, Listed, List!Listed
<1>3. ASSUME NEW p \in Pusher, List!LockForPush(p) \/ List!MoveNext(p)  PROVE ListNodes'
  <2>1. UNCHANGED <<alive, height>>
    BY <1>3 DEF List!LockForPush, List!MoveNext
  <2>2. \A u \in List!Thread, k \in Node \cup {HeadNode, Null} :
               Private(u, k)' <=> Private(u, k)
    BY <1>3 DEF List!LockForPush, List!MoveNext, Private, List!TypeOK
  <2> QED
    BY <1>2, <2>1, <2>2
<1>4. ASSUME NEW p \in Pusher, List!MoveNewNode(p)  PROVE ListNodes'
  <2>1. Private(p, current[p]) /\ current[p] \in alive /\ current[p] \notin Listed
    BY <1>4 DEF List!MoveNewNode, ListNodes, Private, List!TypeOK
  <2>2. Listed' = Listed \cup {current[p]} /\ alive' = alive
    BY <1>4, <2>1, <1>a DEF List!MoveNewNode, List!Above, List!TypeOK, Listed, List!Listed
  <2>3. \A u \in List!Thread, k \in Node \cup {HeadNode, Null} :
          Private(u, k)' <=> u # p /\ Private(u, k)
    BY <1>4 DEF List!MoveNewNode, Private, List!TypeOK
  <2>4. \A k : Private(p, k) => k = current[p]
    BY <1>4 DEF List!MoveNewNode, Private
  <2> QED
    BY <2>1, <2>2, <2>3, <2>4, <1>a DEF ListNodes
<1>5. ASSUME NEW t \in List!Walker,
             \/ List!Call(t) \/ List!LockHead(t) \/ List!ReadNext(t) \/ List!ReachEnd(t)
             \/ List!LockNext(t) \/ List!UnlockCurrent(t) \/ List!PassBy(t) \/ List!Find(t)
             \/ List!Keep(t)
      PROVE  ListNodes'
  <2>1. /\ UNCHANGED <<alive, height>>
        /\ pc[t] # "deleting" /\ pc'[t] # "deleting"
        /\ pc[t] \notin {"inserting", "moving", "linking"}
        /\ pc'[t] \notin {"inserting", "moving", "linking"}
        /\ \A u \in List!Thread \ {t} : pc'[u] = pc[u] /\ current'[u] = current[u]
        /\ \A u \in List!Walker \ {t} : nxt'[u] = nxt[u]
    BY <1>5 DEF List!Call, List!LockHead, List!ReadNext, List!ReachEnd, List!LockNext,
                List!UnlockCurrent, List!PassBy, List!Find, List!Keep, List!Step, List!TypeOK
  <2>2. \A u \in List!Thread, k \in Node \cup {HeadNode, Null} :
               Private(u, k)' <=> Private(u, k)
    BY <2>1 DEF Private, ListRoles
  <2> QED
    BY <1>2, <2>1, <2>2
<1>6. ASSUME NEW t \in Remover, List!Unlink(t)  PROVE ListNodes'
  <2>1. t \in List!Thread /\ t \in List!Walker /\ nxt[t] \in Listed /\ pc[t] = "both"
    BY <1>6 DEF List!Unlink, ListPlaces
  <2>2. Listed' = Listed \ {nxt[t]} /\ alive' = alive
    BY <1>6, <2>1, <1>a DEF List!Unlink, List!TypeOK, Listed, List!Listed
  <2>3. \A u \in List!Thread, k \in Node \cup {HeadNode, Null} :
          Private(u, k)' <=> IF u = t THEN k = nxt[t] ELSE Private(u, k)
    BY <1>6, <2>1 DEF List!Unlink, Private, List!TypeOK
  <2>4. \A k : ~Private(t, k)
    BY <2>1 DEF Private
  <2> QED
    BY <2>1, <2>2, <2>3, <2>4, <1>a DEF ListNodes
<1>7. ASSUME NEW t \in Remover, List!Delete(t)  PROVE ListNodes'
  <2>1. Private(t, nxt[t]) /\ nxt[t] \in alive /\ nxt[t] \notin Listed
    BY <1>7 DEF List!Delete, ListNodes, Private, List!TypeOK
  <2>2. Listed' = Listed /\ alive' = alive \ {nxt[t]}
    BY <1>7 DEF List!Delete, Listed, List!Listed
  <2>3. \A u \in List!Thread, k \in Node \cup {HeadNode, Null} :
          Private(u, k)' <=> u # t /\ Private(u, k)
    BY <1>7 DEF List!Delete, Private, List!TypeOK
  <2>4. \A k : Private(t, k) => k = nxt[t]
    BY <1>7 DEF List!Delete, Private
  <2> QED
    BY <2>1, <2>2, <2>3, <2>4, <1>a DEF ListNodes
<1> QED
  BY <1>1, <1>3, <1>4, <1>5, <1>6, <1>7, ListSteps

(* No item is in two nodes. *)
LEMMA ListItemsStep ==
  ASSUME List!TypeOK, ListRoles, ListPlaces, ListNodes, ListItems, List!Next
  PROVE  ListItems'
<1> USE ListConstants
<1> USE DEF List!Goto, List!list, List!walk
<1>a. /\ Listed \subseteq Node /\ Listed \subseteq alive /\ alive \subseteq Node
      /\ List!Item = Pusher \X (1 .. ListCalls)
      /\ calls \in [List!Thread -> 0 .. ListCalls]
  BY DEF Listed, List!Listed, List!TypeOK, ListNodes, List!Item
<1>b. ASSUME \A p \in Pusher : calls'[p] \in Nat /\ calls[p] <= calls'[p], NEW x, Old(x)
      PROVE  Old(x)'
  BY <1>b, <1>a DEF Old
<1>1. ASSUME NEW p \in Pusher, List!Allocate(p)  PROVE ListItems'
  <2> PICK x : x = <<p, calls[p] + 1>>
    OBVIOUS
  <2>1. PICK n \in Node \ alive :
          /\ alive' = alive \cup {n} /\ data' = [data EXCEPT ![n] = x]
    BY <1>1 DEF List!Allocate
  <2>2. /\ x \in List!Item /\ x[1] = p /\ x[2] = calls[p] + 1 /\ calls'[p] = calls[p] + 1
        /\ \A q \in Pusher \ {p} : calls'[q] = calls[q]
        /\ passed' = passed
    BY <1>1, <1>a DEF List!Allocate
  <2>3. \A y : Old(y) => Old(y)' /\ y # x
    BY <2>2, <1>a, <1>b DEF Old
  <2>4. Old(x)'
    BY <2>2, <1>a DEF Old
  <2>5. /\ data'[n] = x /\ \A k \in alive : data'[k] = data[k]
    BY <2>1, <1>a DEF List!TypeOK
  <2> QED
    BY <2>1, <2>2, <2>3, <2>4, <2>5 DEF ListItems
<1>2. ASSUME NEW p \in Pusher, List!LockForPush(p) \/ List!MoveNext(p) \/ List!MoveNewNode(p)
      PROVE  ListItems'
  BY <1>2 DEF List!LockForPush, List!MoveNext, List!MoveNewNode, ListItems, Old
<1>3. ASSUME NEW t \in List!Walker, List!Call(t)  PROVE ListItems'
  <2>1. UNCHANGED <<data, alive, passed>> /\ \A q \in Pusher : calls'[q] = calls[q]
    BY <1>3 DEF List!Call, List!TypeOK
  <2> QED
    BY <2>1 DEF ListItems, Old, List!Item
<1>4. ASSUME NEW t \in List!Walker, List!LockHead(t)  PROVE ListItems'
  <2>1. /\ UNCHANGED <<data, alive, calls>> /\ passed'[t] = <<>>
        /\ \A u \in List!Walker \ {t} : passed'[u] = passed[u]
    BY <1>4 DEF List!LockHead, List!TypeOK
  <2> QED
    BY <2>1 DEF ListItems, Old
<1>5. ASSUME NEW t \in List!Walker,
             \/ List!ReadNext(t) \/ List!ReachEnd(t) \/ List!LockNext(t) \/ List!UnlockCurrent(t)
             \/ List!Find(t) \/ List!Unlink(t) \/ List!Delete(t)
      PROVE  ListItems'
  <2>1. UNCHANGED <<data, calls, passed>> /\ alive' \subseteq alive
    BY <1>5 DEF List!ReadNext, List!ReachEnd, List!LockNext, List!UnlockCurrent, List!Find,
                List!Unlink, List!Delete
  <2> QED
    BY <2>1 DEF ListItems, Old
<1>6. ASSUME NEW t \in List!Walker, List!PassBy(t) \/ List!Keep(t)  PROVE ListItems'
  <2>1. /\ UNCHANGED <<data, calls, alive>> /\ passed'[t] = Append(passed[t], data[nxt[t]])
        /\ \A u \in List!Walker \ {t} : passed'[u] = passed[u]
    BY <1>6 DEF List!PassBy, List!Keep, List!TypeOK
  <2>2. Old(data[nxt[t]]) /\ passed[t] \in Seq(List!Item)
    BY <1>6, <1>a DEF List!PassBy, List!Keep, ListPlaces, ListItems, List!TypeOK
  <2>3. \A i \in DOMAIN passed[t] : Old(passed[t][i])
    BY <1>6, <1>a DEF ListItems
  <2>4. \A x : Old(x)' <=> Old(x)
    BY <2>1 DEF Old
  <2>5. \A i \in DOMAIN passed'[t] : Old(passed'[t][i])
    BY <2>1, <2>2, <2>3
  <2> QED
    BY <2>1, <2>4, <2>5 DEF ListItems
<1> QED
  BY <1>1, <1>2, <1>3, <1>4, <1>5, <1>6, ListSteps

(* A walk to which nothing happens, but that others may take nodes away.   *)
LEMMA ListWalkKept ==
  ASSUME NEW t \in List!Walker, ListWalk(t),
         passed'[t] = passed[t], present'[t] \subseteq present[t],
         pc'[t] \in Walking => pc[t] \in Walking,
         pc'[t] \in Walking => \A n \in Listed' :
           Ahead(t, n)' => n \in Listed /\ Ahead(t, n) /\ data'[n] = data[n],
         pc'[t] \in Walking => \A n \in Listed :
           Ahead(t, n) /\ data[n] \in present'[t] =>
             n \in Listed' /\ Ahead(t, n)' /\ data'[n] = data[n]
  PROVE  ListWalk(t)'
<1>1. \A x : Passed(t, x)' <=> Passed(t, x)
  BY DEF Passed
<1>2. ASSUME pc'[t] \in Walking, NEW x \in present'[t], ~Passed(t, x)
      PROVE  \E n \in Listed' : Ahead(t, n)' /\ data'[n] = x
  <2>1. PICK n \in Listed : Ahead(t, n) /\ data[n] = x
    BY <1>2 DEF ListWalk
  <2> QED
    BY <2>1, <1>2
<1>3. ASSUME pc'[t] \in Walking, NEW n \in Listed', Ahead(t, n)'
      PROVE  ~Passed(t, data[n])'
  BY <1>3, <1>1 DEF ListWalk
<1> QED
  BY <1>1, <1>2, <1>3 DEF ListWalk

(* A walk goes over to the next node. *)
LEMMA ListWalkOn ==
  ASSUME List!TypeOK, ListNodes, ListItems, NEW t \in List!Walker, ListWalk(t),
         pc[t] \in Walking, pc'[t] = "at", NEW n \in Listed, Ahead(t, n),
         \A k \in Listed : Ahead(t, k) <=> k = n \/ Behind(k, n),
         UNCHANGED <<height, data>>,
         current'[t] = n, present'[t] = present[t],
         passed'[t] = Append(passed[t], data[n])
  PROVE  ListWalk(t)'
<1> USE ListConstants
<1>a. n \in Node /\ n \in alive /\ Listed' = Listed /\ Listed \subseteq alive /\ n # HeadNode
  BY DEF Listed, List!Listed, ListNodes, List!TypeOK
<1>b. passed[t] \in Seq(List!Item) /\ data[n] \in List!Item
  BY <1>a DEF List!TypeOK, ListItems, Old
<1>1. \A k \in Listed : Ahead(t, k)' <=> Behind(k, n)
  BY <1>a DEF Ahead, Behind, Walking
<1>2. \A x : Passed(t, x)' <=> Passed(t, x) \/ x = data[n]
  <2> SUFFICES ASSUME NEW x  PROVE Passed(t, x)' <=> Passed(t, x) \/ x = data[n]
    OBVIOUS
  <2> DEFINE s == passed[t]
             y == data[n]
  <2>1. /\ Len(Append(s, y)) = Len(s) + 1 /\ Append(s, y)[Len(s) + 1] = y
        /\ \A i \in 1 .. Len(s) : Append(s, y)[i] = s[i]
        /\ DOMAIN Append(s, y) = 1 .. (Len(s) + 1) /\ DOMAIN s = 1 .. Len(s) /\ Len(s) \in Nat
    BY <1>b, AppendProperties
  <2>2. \A i \in DOMAIN Append(s, y) : i \in 1 .. Len(s) \/ i = Len(s) + 1
    BY <2>1
  <2> QED
    BY <2>1, <2>2 DEF Passed
<1>3. ASSUME NEW i \in DOMAIN passed'[t], NEW j \in DOMAIN passed'[t],
             passed'[t][i] = passed'[t][j]
      PROVE  i = j
  <2> DEFINE s == passed[t]
             y == data[n]
  <2>1. ~Passed(t, y)
    BY DEF ListWalk
  <2>2. /\ Len(Append(s, y)) = Len(s) + 1 /\ Append(s, y)[Len(s) + 1] = y
        /\ \A k \in 1 .. Len(s) : Append(s, y)[k] = s[k]
        /\ DOMAIN Append(s, y) = 1 .. (Len(s) + 1) /\ DOMAIN s = 1 .. Len(s) /\ Len(s) \in Nat
    BY <1>b, AppendProperties
  <2>3. \A k \in DOMAIN Append(s, y) : k \in 1 .. Len(s) \/ k = Len(s) + 1
    BY <2>2
  <2> QED
    BY <1>3, <2>1, <2>2, <2>3 DEF Passed, ListWalk
<1>4. ASSUME NEW x \in present'[t], ~Passed(t, x)'
      PROVE  \E k \in Listed' : Ahead(t, k)' /\ data'[k] = x
  <2>1. PICK k \in Listed : Ahead(t, k) /\ data[k] = x
    BY <1>2, <1>4 DEF ListWalk
  <2>2. Behind(k, n)
    BY <2>1, <1>2, <1>4
  <2> QED
    BY <2>1, <2>2, <1>1, <1>a
<1>5. ASSUME NEW k \in Listed', Ahead(t, k)'  PROVE ~Passed(t, data[k])'
  <2>1. Behind(k, n) /\ k \in Listed /\ Ahead(t, k)
    BY <1>1, <1>5, <1>a
  <2>2. k # n
    BY <2>1, <1>a DEF Behind, List!TypeOK
  <2>3. data[k] # data[n]
    BY <2>1, <2>2, <1>a DEF ListItems
  <2> QED
    BY <2>1, <2>3, <1>2 DEF ListWalk
<1> QED
  BY <1>3, <1>4, <1>5 DEF ListWalk

(* What is behind the node that a walk is at, when it has found the next.  *)
LEMMA ListSplit ==
  ASSUME List!TypeOK, ListRoles, ListLocks, ListPlaces, ListLinks,
         NEW t \in List!Walker, pc[t] = "both"
  PROVE  /\ nxt[t] \in Listed /\ Behind(nxt[t], current[t])
         /\ \A n \in Listed : Behind(n, current[t]) <=> n = nxt[t] \/ Behind(n, nxt[t])
<1> USE ListConstants
<1>1. Successor(nxt[t], current[t]) /\ nxt[t] \in Listed /\ current[t] \in Listed \cup {HeadNode}
  BY ListSuccessor DEF ListPlaces
<1>2. Listed \subseteq Node /\ \A n \in Listed : height[n] \in Nat
  BY DEF Listed, List!Listed, List!TypeOK
<1>3. Behind(nxt[t], current[t])
  BY <1>1, <1>2 DEF Successor
<1>4. ASSUME NEW n \in Listed, Behind(n, nxt[t])  PROVE Behind(n, current[t])
  BY <1>1, <1>2, <1>3, <1>4 DEF Behind
<1>5. ASSUME NEW n \in Listed, Behind(n, current[t])  PROVE n = nxt[t] \/ Behind(n, nxt[t])
  BY <1>1, <1>2, <1>5 DEF Successor, Behind
<1> QED
  BY <1>1, <1>3, <1>4, <1>5

(* No walk misses an item or passes one twice. *)
LEMMA ListWalksStep ==
  ASSUME List!TypeOK, ListRoles, ListLocks, ListPlaces, ListLinks, ListNodes, ListItems, ListWalks,
         List!Next
  PROVE  ListWalks'
<1> USE ListConstants
<1> USE DEF List!Goto, List!list, List!walk
<1> SUFFICES ASSUME NEW u \in List!Walker  PROVE ListWalk(u)'
  BY DEF ListWalks
<1>a. ListWalk(u) /\ u \in List!Thread
  BY DEF ListWalks
<1>b. Listed \subseteq Node /\ Listed \subseteq alive /\ alive \subseteq Node
  BY DEF Listed, List!Listed, List!TypeOK, ListNodes
<1>c. pc[u] \in Walking \ {"calling_back"} => current[u] \in Listed \cup {HeadNode}
  BY DEF Walking, ListPlaces
<1>d. pc[u] = "calling_back" => nxt[u] \in Listed
  BY DEF ListPlaces
<1>1. ASSUME NEW p \in Pusher, List!Allocate(p)  PROVE ListWalk(u)'
  <2>1. /\ UNCHANGED height /\ Listed' = Listed /\ passed' = passed /\ present' = present
        /\ pc'[u] = pc[u] /\ current'[u] = current[u] /\ nxt'[u] = nxt[u]
        /\ \A n \in alive : data'[n] = data[n]
    BY <1>1, <1>a, <1>b DEF List!Allocate, List!TypeOK, Listed, List!Listed
  <2> QED
    BY <2>1, <1>a, <1>b, ListWalkKept DEF Ahead, Behind
<1>2. ASSUME NEW p \in Pusher, List!LockForPush(p) \/ List!MoveNext(p)  PROVE ListWalk(u)'
  <2>1. /\ UNCHANGED <<height, data>> /\ Listed' = Listed /\ passed' = passed /\ present' = present
        /\ pc'[u] = pc[u] /\ current'[u] = current[u] /\ nxt'[u] = nxt[u]
    BY <1>2, <1>a DEF List!LockForPush, List!MoveNext, List!TypeOK, Listed, List!Listed
  <2> QED
    BY <2>1, <1>a, ListWalkKept DEF Ahead, Behind
<1>3. ASSUME NEW p \in Pusher, List!MoveNewNode(p)  PROVE ListWalk(u)'
  <2> PICK new : new = current[p]
    OBVIOUS
  <2>1. new \in Node /\ new \notin Listed /\ owner[HeadNode] = p
    BY <1>3, <1>b DEF List!MoveNewNode, ListNodes, Private, List!TypeOK, ListLocks, Holds
  <2>2. /\ Listed' = Listed \cup {new}
        /\ \A n \in Node \ {new} : height'[n] = height[n]
        /\ height' \in [Node -> Nat]
        /\ passed' = passed /\ present' = present /\ data' = data
        /\ pc'[u] = pc[u] /\ current'[u] = current[u] /\ nxt'[u] = nxt[u]
    BY <1>3, <2>1, <1>a, <1>b
       DEF List!MoveNewNode, List!Above, List!TypeOK, Listed, List!Listed
  <2>3. \A n \in Listed : height[n] < height'[new]
    <3>1. Successor(next[new], HeadNode) /\ next[new] \in Node \cup {Null}
      BY <1>3, <2>1 DEF List!MoveNewNode, ListLinks, List!TypeOK
    <3>2. height'[new] = List!Above(next[new])
      BY <1>3, <2>1 DEF List!MoveNewNode, List!TypeOK
    <3>3. CASE next[new] = Null
      BY <3>1, <3>3 DEF Successor, Behind
    <3>4. CASE next[new] \in Node
      <4> SUFFICES ASSUME NEW n \in Listed  PROVE height[n] < height'[new]
        OBVIOUS
      <4>1. n = next[new] \/ height[n] < height[next[new]]
        BY <3>1, <3>4 DEF Successor, Behind
      <4> QED
        BY <4>1, <3>2, <3>4, <1>b DEF List!Above, List!TypeOK
    <3> QED
      BY <3>1, <3>3, <3>4
  <2>4. pc[u] \in Walking \ {"calling_back"} => current[u] \in Listed
    BY <2>1, <1>a, <1>c DEF ListLocks, Holds, Walking
  <2>5. \A n \in Listed : \A k \in Listed : Behind(n, k)' <=> Behind(n, k)
    BY <2>1, <2>2, <1>b DEF Behind
  <2>6. \A k \in Listed : ~Behind(new, k)'
    <3>1. \A k \in Listed : ~(height'[new] < height[k])
      BY <2>1, <2>2, <2>3, <1>b DEF List!TypeOK
    <3> QED
      BY <2>1, <2>2, <3>1, <1>b DEF Behind
  <2>7. pc[u] \in Walking => \A n \in Listed : Ahead(u, n)' <=> Ahead(u, n)
    BY <2>2, <2>4, <2>5, <1>d DEF Ahead
  <2>8. pc[u] \in Walking => ~Ahead(u, new)'
    BY <2>1, <2>2, <2>4, <2>6, <1>d DEF Ahead
  <2> QED
    BY <2>2, <2>7, <2>8, <1>a, ListWalkKept
<1>4. ASSUME NEW t \in List!Walker,
             \/ List!Call(t) \/ List!ReadNext(t) \/ List!ReachEnd(t)
             \/ List!LockNext(t) \/ List!Find(t) \/ List!Delete(t)
      PROVE  ListWalk(u)'
  <2>1. /\ UNCHANGED <<height, data>> /\ Listed' = Listed /\ passed' = passed /\ present' = present
        /\ current'[u] = current[u]
        /\ pc[u] = "calling_back" /\ pc'[u] \in Walking =>
             pc'[u] = "calling_back" /\ nxt'[u] = nxt[u]
        /\ pc'[u] \in Walking => pc[u] \in Walking
        /\ pc'[u] = "calling_back" => pc[u] = "calling_back"
    BY <1>4, <1>a DEF List!Call, List!ReadNext, List!ReachEnd, List!LockNext, List!Find,
                List!Delete, List!TypeOK, Listed, List!Listed, Walking
  <2> QED
    BY <2>1, <1>a, ListWalkKept DEF Ahead, Behind
<1>5. ASSUME NEW t \in List!Walker, List!LockHead(t)  PROVE ListWalk(u)'
  <2>1. CASE u = t
    <3>1. /\ pc'[u] = "at" /\ current'[u] = HeadNode /\ passed'[u] = <<>> /\ data' = data
          /\ present'[u] = {data[n] : n \in Listed} /\ Listed' = Listed
      BY <1>5, <2>1, <1>a DEF List!LockHead, List!TypeOK, Listed, List!Listed
    <3>2. \A n \in Listed' : Ahead(u, n)'
      BY <3>1 DEF Ahead, Behind, Walking
    <3>3. \A x : ~Passed(u, x)'
      BY <3>1 DEF Passed
    <3> QED
      BY <3>1, <3>2, <3>3 DEF ListWalk
  <2>2. CASE u # t
    <3>1. /\ UNCHANGED <<height, data>> /\ Listed' = Listed /\ passed'[u] = passed[u]
          /\ present'[u] = present[u]
          /\ pc'[u] = pc[u] /\ current'[u] = current[u] /\ nxt'[u] = nxt[u]
      BY <1>5, <2>2, <1>a DEF List!LockHead, List!TypeOK, Listed, List!Listed
    <3> QED
      BY <3>1, <1>a, ListWalkKept DEF Ahead, Behind
  <2> QED
    BY <2>1, <2>2
<1>6. ASSUME NEW t \in Visitor \cup Finder, List!UnlockCurrent(t)  PROVE ListWalk(u)'
  <2>1. /\ UNCHANGED <<height, data>> /\ Listed' = Listed /\ passed' = passed /\ present' = present
        /\ current'[u] = current[u] /\ nxt'[u] = nxt[u]
    BY <1>6 DEF List!UnlockCurrent, Listed, List!Listed
  <2>2. CASE u = t
    <3>1. pc[u] = "both" /\ pc'[u] = "calling_back"
      BY <1>6, <2>2, <1>a DEF List!UnlockCurrent, List!TypeOK
    <3>2. \A n \in Listed : Ahead(u, n)' <=> Ahead(u, n)
      BY <2>1, <3>1, ListSplit DEF Ahead, Behind, Walking
    <3> QED
      BY <2>1, <3>1, <3>2, <1>a, ListWalkKept DEF Walking
  <2>3. CASE u # t
    <3>1. pc'[u] = pc[u]
      BY <1>6, <2>3, <1>a DEF List!UnlockCurrent, List!TypeOK
    <3> QED
      BY <2>1, <3>1, <1>a, ListWalkKept DEF Ahead, Behind
  <2> QED
    BY <2>2, <2>3
<1>7. ASSUME NEW t \in List!Walker, List!PassBy(t) \/ List!Keep(t)  PROVE ListWalk(u)'
  <2>1. /\ UNCHANGED <<height, data>> /\ Listed' = Listed /\ present' = present
        /\ passed' = [passed EXCEPT ![t] = Append(@, data[nxt[t]])]
        /\ current' = [current EXCEPT ![t] = nxt[t]] /\ nxt' = nxt
        /\ pc' = [pc EXCEPT ![t] = "at"]
        /\ pc[t] \in {"calling_back", "both"}
    BY <1>7 DEF List!PassBy, List!Keep, List!Step, Listed, List!Listed
  <2>2. CASE u = t
    <3>1. nxt[u] \in Listed /\ \A k \in Listed : Ahead(u, k) <=> k = nxt[u] \/ Behind(k, nxt[u])
      BY <2>1, <2>2, <1>d, ListSplit DEF Ahead, Walking
    <3>2. Ahead(u, nxt[u])
      BY <3>1
    <3>3. /\ pc[u] \in Walking /\ pc'[u] = "at" /\ current'[u] = nxt[u]
          /\ passed'[u] = Append(passed[u], data[nxt[u]])
      BY <2>1, <2>2, <1>a DEF List!TypeOK, Walking
    <3> QED
      BY <2>1, <3>1, <3>2, <3>3, <1>a, ListWalkOn
  <2>3. CASE u # t
    <3>1. pc'[u] = pc[u] /\ current'[u] = current[u] /\ passed'[u] = passed[u]
      BY <2>1, <2>3, <1>a DEF List!TypeOK
    <3> QED
      BY <2>1, <3>1, <1>a, ListWalkKept DEF Ahead, Behind
  <2> QED
    BY <2>2, <2>3
<1>8. ASSUME NEW t \in Remover, List!Unlink(t)  PROVE ListWalk(u)'
  <2> PICK old : old = nxt[t]
    OBVIOUS
  <2>1. /\ t \in List!Walker /\ pc[t] = "both" /\ old \in Listed /\ owner[old] = t
        /\ current[t] # old
    <3>1. t \in List!Walker /\ t \in List!Thread /\ pc[t] = "both" /\ old \in Listed
          /\ Behind(old, current[t])
      BY <1>8, ListSplit DEF List!Unlink
    <3>2. owner[old] = t
      BY <3>1, <1>b DEF ListLocks, Holds
    <3> QED
      BY <3>1, <3>2, <1>b DEF Behind, List!TypeOK
  <2>2. /\ Listed' = Listed \ {old} /\ \A n \in Listed' : height'[n] = height[n]
        /\ passed' = passed /\ data' = data /\ current' = current /\ nxt' = nxt
        /\ present'[u] = present[u] \ {data[old]}
        /\ pc' = [pc EXCEPT ![t] = "deleting"]
    BY <1>8, <2>1, <1>b DEF List!Unlink, List!TypeOK, Listed, List!Listed
  <2>3. pc[u] \in Walking \ {"calling_back"} => current[u] # old
    <3>1. CASE u = t
      BY <3>1, <2>1
    <3>2. CASE u # t
      BY <3>2, <2>1, <1>a, <1>b DEF ListLocks, Holds, Walking
    <3> QED
      BY <3>1, <3>2
  <2>4. pc[u] = "calling_back" => nxt[u] # old
    BY <2>1, <1>a, <1>b DEF ListLocks, Holds
  <2>5. pc[u] \in Walking =>
          /\ pc'[u] \in Walking /\ (pc'[u] = "calling_back" <=> pc[u] = "calling_back")
    BY <2>1, <2>2, <1>a DEF List!TypeOK, Walking
  <2>6. pc'[u] \in Walking => pc[u] \in Walking
    BY <2>1, <2>2, <1>a DEF List!TypeOK, Walking
  <2>7. \A n \in Listed', k \in Listed' \cup {HeadNode} : Behind(n, k)' <=> Behind(n, k)
    BY <2>2, <1>b DEF Behind
  <2>8. pc[u] \in Walking => \A n \in Listed' : Ahead(u, n)' <=> Ahead(u, n)
    BY <2>2, <2>3, <2>4, <2>5, <2>7, <1>c, <1>d DEF Ahead
  <2>9. \A n \in Listed : data[n] \in present'[u] => n \in Listed'
    BY <2>2
  <2> QED
    BY <2>2, <2>6, <2>8, <2>9, <1>a, ListWalkKept
<1> QED
  BY <1>1, <1>2, <1>3, <1>4, <1>5, <1>6, <1>7, <1>8, ListSteps

LEMMA ListInit ==
  ASSUME List!Init
  PROVE  ListIInv
<1> USE ListConstants
<1>1. List!TypeOK
  BY DEF List!Init, List!TypeOK
<1>2. Listed = {} /\ alive = {} /\ (\A n \in Node \cup {HeadNode} : next[n] = Null)
  BY DEF List!Init, Listed, List!Listed
<1>3. \A t \in List!Thread : pc[t] = "idle"
  BY DEF List!Init
<1>4. ListRoles /\ ListPlaces
  BY <1>3 DEF ListRoles, ListPlaces
<1>5. ListLocks
  BY <1>3 DEF ListLocks, Holds, List!Init
<1>6. ListLinks
  BY <1>2, <1>3 DEF ListLinks, Successor
<1>7. ListNodes
  BY <1>2, <1>3 DEF ListNodes, Private
<1>8. ListItems /\ ListWalks
  BY <1>2, <1>3 DEF ListItems, ListWalks, ListWalk, Walking, List!Init
<1> QED
  BY <1>1, <1>4, <1>5, <1>6, <1>7, <1>8 DEF ListIInv

LEMMA ListInductive ==
  ASSUME ListIInv, [List!Next]_list
  PROVE  ListIInv'
<1>1. CASE List!Next
  BY <1>1, ListTypeStep, ListRolesStep, ListLocksStep, ListPlacesStep, ListLinksStep, ListNodesStep,
     ListItemsStep, ListWalksStep DEF ListIInv
<1>2. CASE UNCHANGED list
  BY <1>2 DEF ListIInv, list, List!TypeOK, ListRoles, ListLocks, ListPlaces, ListLinks, ListNodes,
              ListItems, ListWalks, ListWalk, Holds, Behind, Successor, Private, Ahead, Passed,
              Old, Listed, List!Listed
<1> QED
  BY <1>1, <1>2

-----------------------------------------------------------------------------

(* The nodes used are in the list, or belong to their user. *)
LEMMA ListNoDanglingUse ==
  ASSUME ListIInv
  PROVE  List!NoDanglingUse
<1> USE ListConstants
<1>a. List!TypeOK /\ ListRoles /\ ListLocks /\ ListPlaces /\ ListLinks /\ ListNodes
  BY DEF ListIInv
<1>b. Listed \subseteq alive /\ alive \subseteq Node /\ Listed = List!Listed
  BY <1>a DEF Listed, List!TypeOK, ListNodes
<1>1. \A t \in List!Thread : List!Used(t) \subseteq alive \cup {HeadNode}
  <2> SUFFICES ASSUME NEW t \in List!Thread, NEW n \in List!Used(t)
               PROVE  n \in alive \cup {HeadNode}
    OBVIOUS
  <2>1. CASE t \in Pusher
    <3>1. pc[t] \in {"moving", "linking"} /\ n = current[t]
      BY <2>1, <1>a DEF List!Used, ListRoles
    <3> QED
      BY <3>1, <1>a DEF ListNodes, Private, List!TypeOK
  <2>2. CASE t \in List!Walker
    <3>1. \/ pc[t] \in {"at", "locking", "both"} /\ n = current[t]
          \/ pc[t] \in {"locking", "both", "calling_back"} /\ n = nxt[t]
          \/ pc[t] = "deleting" /\ n = nxt[t]
      BY <2>2, <1>a DEF List!Used, ListRoles, Walking
    <3>2. CASE pc[t] = "deleting" /\ n = nxt[t]
      BY <2>2, <3>2, <1>a DEF ListNodes, Private, List!TypeOK
    <3> QED
      BY <2>2, <3>1, <3>2, <1>a, <1>b DEF ListPlaces
  <2> QED
    BY <2>1, <2>2
<1>2. \A n \in Node : owner[n] # NoThread => n \in alive
  <2> SUFFICES ASSUME NEW n \in Node, owner[n] # NoThread
               PROVE  n \in alive
    OBVIOUS
  <2>1. owner[n] \in List!Thread /\ Holds(owner[n], n)
    BY <1>a DEF List!TypeOK, ListLocks
  <2>2. owner[n] \in List!Walker
    BY <2>1, <1>a DEF Holds, ListRoles
  <2> QED
    BY <2>1, <2>2, <1>a, <1>b DEF Holds, ListPlaces, ListRoles
<1>3. alive = List!Listed \cup List!Detached
  <2>1. \A n \in Node : n \in List!Detached <=> \E t \in List!Thread : Private(t, n)
    BY <1>a DEF List!Detached, Private, ListRoles, Walking
  <2>2. List!Detached \subseteq alive
    BY <1>a DEF List!Detached, ListNodes, Private, List!TypeOK
  <2> QED
    BY <2>1, <2>2, <1>a, <1>b DEF ListNodes
<1>4. List!Linked
  <2>1. ASSUME NEW k \in Listed \cup {HeadNode}, NEW n \in Node \cup {Null}, Successor(n, k)
        PROVE  List!Follows(k, n)
    <3> DEFINE behind == {j \in List!Listed : k = HeadNode \/ height[j] < height[k]}
    <3>1. \A j : j \in behind <=> j \in Listed /\ Behind(j, k)
      BY <1>b DEF Behind
    <3> HIDE DEF behind
    <3>2. behind = {} => n = Null
      BY <2>1, <3>1 DEF Successor, Behind
    <3>3. behind # {} => n \in behind /\ \A j \in behind \ {n} : height[j] < height[n]
      BY <2>1, <3>1 DEF Successor, Behind
    <3> USE DEF behind
    <3> QED
      BY <3>2, <3>3 DEF List!Follows
  <2>2. \A n \in Listed : next[n] \in Node \cup {Null}
    BY <1>a, <1>b DEF List!TypeOK
  <2>3. \A n \in List!Listed : List!Follows(n, next[n])
    BY <2>1, <2>2, <1>a, <1>b DEF ListLinks
  <2>4. CASE \E p \in Pusher : pc[p] = "linking"
    <3>1. PICK p \in Pusher : pc[p] = "linking"
      BY <2>4
    <3>2. Successor(next[current[p]], HeadNode) /\ next[current[p]] \in Node \cup {Null}
      BY <3>1, <1>a DEF ListLinks, ListNodes, Private, List!TypeOK
    <3> QED
      BY <3>1, <3>2, <2>1, <2>3 DEF List!Linked
  <2>5. CASE \A p \in Pusher : pc[p] # "linking"
    <3>1. Successor(next[HeadNode], HeadNode) /\ next[HeadNode] \in Node \cup {Null}
      BY <2>5, <1>a DEF ListLinks, List!TypeOK
    <3> QED
      BY <2>5, <3>1, <2>1, <2>3 DEF List!Linked
  <2> QED
    BY <2>4, <2>5
<1> QED
  BY <1>1, <1>2, <1>3, <1>4 DEF List!NoDanglingUse

(* When a walk is over, nothing is ahead of it. *)
LEMMA ListWalkMissesNothing ==
  ASSUME ListIInv
  PROVE  List!WalkMissesNothing
<1> USE ListConstants
<1>1. ASSUME NEW t \in List!Walker, pc[t] = "at", next[current[t]] = Null, NEW x \in present[t]
      PROVE  \E i \in DOMAIN passed[t] : passed[t][i] = x
  <2>1. \A n \in Listed : ~Behind(n, current[t])
    BY <1>1, ListSuccessor DEF ListIInv, Successor
  <2>2. \A n \in Listed : ~Ahead(t, n)
    BY <1>1, <2>1 DEF Ahead
  <2>3. Passed(t, x)
    BY <1>1, <2>2 DEF ListIInv, ListWalks, ListWalk, Walking
  <2> QED
    BY <2>3 DEF Passed
<1> QED
  BY <1>1 DEF List!WalkMissesNothing, ListIInv, ListWalks, ListWalk

(* Of those who wait for the mutex of a next node, the one farthest down   *)
(* the list can go on; if there are none, the mutex of head is free.       *)
LEMMA ListNoDeadlock ==
  ASSUME ListIInv
  PROVE  List!NoDeadlock
<1> USE ListConstants
<1>a. List!TypeOK /\ ListRoles /\ ListLocks /\ ListPlaces /\ ListLinks
  BY DEF ListIInv
<1> SUFFICES ASSUME NEW t0 \in List!Thread, pc[t0] # "idle"
             PROVE  \E t \in List!Thread :
                      pc[t] # "idle" /\ \A n \in List!Awaits(t) : owner[n] = NoThread
  BY DEF List!NoDeadlock
<1> DEFINE Waiting == {t \in List!Walker : pc[t] = "locking"}
<1>1. CASE \E t \in List!Thread : pc[t] \notin {"idle", "inserting", "calling", "locking"}
  <2>1. PICK t \in List!Thread : pc[t] \notin {"idle", "inserting", "calling", "locking"}
    BY <1>1
  <2>2. List!Awaits(t) = {}
    BY <2>1 DEF List!Awaits
  <2> QED
    BY <2>1, <2>2
<1>2. CASE /\ \A t \in List!Thread : pc[t] \in {"idle", "inserting", "calling", "locking"}
           /\ Waiting = {}
  <2>1. pc[t0] \in {"inserting", "calling"}
    BY <1>2, <1>a DEF ListRoles
  <2>2. List!Awaits(t0) = {HeadNode}
    BY <2>1 DEF List!Awaits
  <2>3. owner[HeadNode] = NoThread
    <3>1. owner[HeadNode] \in List!Thread => Holds(owner[HeadNode], HeadNode)
      BY <1>a DEF ListLocks
    <3>2. \A u \in List!Thread : pc[u] # "locking"
      BY <1>2, <1>a DEF ListRoles
    <3>3. \A u \in List!Thread : ~Holds(u, HeadNode)
      BY <3>2, <1>2 DEF Holds
    <3> QED
      BY <3>1, <3>3, <1>a DEF List!TypeOK
  <2> QED
    BY <2>1, <2>2, <2>3
<1>3. CASE /\ \A t \in List!Thread : pc[t] \in {"idle", "inserting", "calling", "locking"}
           /\ Waiting # {}
  <2> DEFINE Heights == {height[nxt[t]] : t \in Waiting}
  <2>1. \A t \in Waiting : nxt[t] \in Listed /\ nxt[t] \in Node /\ height[nxt[t]] \in Nat
    BY <1>a DEF ListPlaces, Listed, List!Listed, List!TypeOK
  <2>2. Heights \subseteq Nat /\ Heights # {}
    BY <2>1, <1>3
  <2>3. PICK low \in Heights : \A h \in Heights : ~(<<h, low>> \in OpToRel(<, Nat))
    <3> HIDE DEF Heights
    <3> QED
      BY <2>2, NatLessThanWellFounded, WFMin
  <2>4. \A h \in Heights : ~(h < low)
    BY <2>2, <2>3 DEF OpToRel
  <2>5. PICK t \in Waiting : low = height[nxt[t]]
    OBVIOUS
  <2>6. owner[nxt[t]] = NoThread
    <3> SUFFICES ASSUME owner[nxt[t]] # NoThread
                 PROVE  FALSE
      OBVIOUS
    <3> PICK u : u = owner[nxt[t]]
      OBVIOUS
    <3>1. u \in List!Thread /\ Holds(u, nxt[t])
      BY <2>1, <1>a DEF List!TypeOK, ListLocks
    <3>2. u \in Waiting /\ current[u] = nxt[t]
      BY <3>1, <2>1, <1>3, <1>a DEF Holds, ListRoles
    <3>3. Behind(nxt[u], current[u])
      BY <3>2, <1>a, <2>1, ListSuccessor DEF ListPlaces, Successor
    <3>4. height[nxt[u]] < low
      BY <3>2, <3>3, <2>1, <2>5 DEF Behind
    <3> QED
      BY <3>2, <3>4, <2>4
  <2>7. List!Awaits(t) = {nxt[t]}
    BY DEF List!Awaits
  <2> QED
    BY <2>6, <2>7
<1> QED
  BY <1>1, <1>2, <1>3

-----------------------------------------------------------------------------
(* The lookup table *)

(* The place of key k in the list of a bucket, where 0 says that it has    *)
(* none.                                                                   *)
IsEntry(i, s, k) ==
  IF i = 0 THEN \A j \in 1 .. Len(s) : s[j][1] # k ELSE i \in 1 .. Len(s) /\ s[i][1] = k

(* The list of a bucket: of its keys, one entry each. *)
IsBucket(s, b) ==
  /\ s \in Seq(Key \X Value)
  /\ \A i \in 1 .. Len(s) : hasher[s[i][1]] = b
  /\ \A i, j \in 1 .. Len(s) : s[i][1] = s[j][1] => i = j

(* The list has v for key k. *)
MapsTo(s, k, v) ==
  \/ \E i \in 1 .. Len(s) : s[i][1] = k /\ s[i][2] = v
  \/ v = NoValue /\ \A i \in 1 .. Len(s) : s[i][1] # k

Reads == {"reading", "read"}
Changes == {"updating", "removing", "update", "erase"}
Finds == {"read", "update", "erase"}

TableTypes ==
  /\ tableData \in [Bucket -> Seq(Key \X Value)]
  /\ readers \in [Bucket -> SUBSET Caller] /\ writer \in [Bucket -> SUBSET Caller]
  /\ tablePc \in [Caller -> {"idle", "value_for", "add_or_update", "remove"}
                              \cup Reads \cup Changes]
  /\ tableCalls \in [Caller -> 0 .. MaxCalls]
  /\ key \in [Caller -> Key \cup {NoValue}] /\ value \in [Caller -> Value \cup {NoValue}]
  /\ found_entry \in [Caller -> Nat]
  /\ answer \in [Caller -> Value \cup {NoValue}]

(* The arguments of a call. *)
TableArguments ==
  \A t \in Caller :
    /\ tablePc[t] = "idle" => key[t] = NoValue
    /\ tablePc[t] # "idle" => key[t] \in Key
    /\ tablePc[t] \in {"add_or_update", "updating", "update"} => value[t] \in Value
    /\ tablePc[t] \notin {"add_or_update", "updating", "update"} => value[t] = NoValue

TableLocks ==
  /\ \A t \in Caller :
       /\ tablePc[t] \in Reads => t \in readers[hasher[key[t]]]
       /\ tablePc[t] \in Changes => writer[hasher[key[t]]] = {t}
  /\ \A b \in Bucket : writer[b] # {} => readers[b] = {}

(* An iterator stays at the entry of its key until it is used. *)
TableFound ==
  \A t \in Caller :
    IF tablePc[t] \in Finds THEN IsEntry(found_entry[t], tableData[hasher[key[t]]], key[t])
                            ELSE found_entry[t] = 0

TableBuckets == \A b \in Bucket : IsBucket(tableData[b], b)

TableIInv == TableTypes /\ TableArguments /\ TableLocks /\ TableFound /\ TableBuckets

LEMMA TableConstants == hasher \in [Key -> Bucket] /\ MaxCalls \in Nat
BY ConstantsAssumption DEF Table!ConstantsAssumption

(* What find_entry_for returns. *)
LEMMA FindEntry ==
  ASSUME NEW b \in Bucket, IsBucket(tableData[b], b), NEW k
  PROVE  IsEntry(Table!find_entry_for(b, k), tableData[b], k)
<1> DEFINE s == tableData[b]
           I == {i \in 1 .. Len(s) : s[i][1] = k}
<1>1. Table!find_entry_for(b, k) = IF I # {} THEN CHOOSE x \in I : \A y \in I : x =< y ELSE 0
  BY DEF Table!find_entry_for, Table!SelectInSeq, Table!Min
<1>2. CASE I = {}
  BY <1>1, <1>2 DEF IsEntry
<1>3. CASE I # {}
  <2>1. PICK i \in I : TRUE
    BY <1>3
  <2>2. I = {i} /\ i \in 1 .. Len(s) /\ s[i][1] = k /\ Len(s) \in Nat
    BY <2>1 DEF IsBucket
  <2>3. (CHOOSE x \in I : \A y \in I : x =< y) = i
    BY <2>2
  <2> QED
    BY <1>1, <1>3, <2>2, <2>3 DEF IsEntry
<1> QED
  BY <1>2, <1>3

(* The list after a key has got a first entry, *)
LEMMA AddEntry ==
  ASSUME NEW b \in Bucket, NEW s, IsBucket(s, b), NEW k \in Key, hasher[k] = b, NEW v \in Value,
         IsEntry(0, s, k)
  PROVE  LET r == Append(s, <<k, v>>)
         IN  /\ IsBucket(r, b) /\ MapsTo(r, k, v)
             /\ \A j \in Key \ {k} : \A w : MapsTo(s, j, w) => MapsTo(r, j, w)
<1> DEFINE e == <<k, v>>
           r == Append(s, e)
<1>1. s \in Seq(Key \X Value) /\ e \in Key \X Value /\ e[1] = k /\ e[2] = v
  BY DEF IsBucket
<1>2. /\ r \in Seq(Key \X Value) /\ Len(r) = Len(s) + 1 /\ Len(s) \in Nat
      /\ \A i \in 1 .. Len(s) : r[i] = s[i]
      /\ r[Len(s) + 1] = e
  BY <1>1, AppendProperties
<1>3. \A i \in 1 .. Len(r) : i \in 1 .. Len(s) \/ i = Len(s) + 1
  BY <1>2
<1>4. \A i \in 1 .. Len(s) : i \in 1 .. Len(r)
  BY <1>2
<1>5. Len(s) + 1 \in 1 .. Len(r)
  BY <1>2
<1> HIDE DEF e, r
<1>6. IsBucket(r, b)
  <2>1. \A i \in 1 .. Len(s) : s[i][1] # k /\ hasher[s[i][1]] = b
    BY DEF IsBucket, IsEntry
  <2>2. \A i \in 1 .. Len(r) : hasher[r[i][1]] = b
    BY <1>1, <1>2, <1>3, <2>1
  <2>3. ASSUME NEW i \in 1 .. Len(r), NEW j \in 1 .. Len(r), r[i][1] = r[j][1]
        PROVE  i = j
    <3>1. CASE i \in 1 .. Len(s) /\ j \in 1 .. Len(s)
      BY <3>1, <2>3, <1>2 DEF IsBucket
    <3>2. i \in 1 .. Len(s) <=> j \in 1 .. Len(s)
      BY <2>1, <2>3, <1>1, <1>2, <1>3
    <3> QED
      BY <3>1, <3>2, <1>3
  <2> QED
    BY <2>2, <2>3, <1>2 DEF IsBucket
<1>7. MapsTo(r, k, v)
  BY <1>1, <1>2, <1>5 DEF MapsTo
<1>8. ASSUME NEW j \in Key \ {k}, NEW w, MapsTo(s, j, w)
      PROVE  MapsTo(r, j, w)
  BY <1>1, <1>2, <1>3, <1>4, <1>8 DEF MapsTo
<1> QED
  BY <1>6, <1>7, <1>8 DEF r, e

(* after its entry has changed, *)
LEMMA ChangeEntry ==
  ASSUME NEW b \in Bucket, NEW s, IsBucket(s, b), NEW k \in Key, NEW v \in Value,
         NEW n \in 1 .. Len(s), IsEntry(n, s, k), n # 0
  PROVE  LET r == [s EXCEPT ![n][2] = v]
         IN  /\ IsBucket(r, b) /\ MapsTo(r, k, v)
             /\ \A j \in Key \ {k} : \A w : MapsTo(s, j, w) => MapsTo(r, j, w)
<1> DEFINE e == [s[n] EXCEPT ![2] = v]
           r == [s EXCEPT ![n] = e]
<1>1. s \in Seq(Key \X Value) /\ s[n] \in Key \X Value /\ s[n][1] = k
  BY DEF IsBucket, IsEntry
<1>2. e = <<k, v>>
  BY <1>1
<1>3. e \in Key \X Value /\ e[1] = k /\ e[2] = v
  BY <1>2
<1> HIDE DEF e
<1>4. /\ r \in Seq(Key \X Value) /\ Len(r) = Len(s)
      /\ \A i \in 1 .. Len(s) \ {n} : r[i] = s[i]
      /\ r[n] = e
  BY <1>1, <1>3
<1> HIDE DEF r
<1>5. \A i \in 1 .. Len(r) : r[i][1] = s[i][1]
  BY <1>1, <1>3, <1>4
<1>6. IsBucket(r, b)
  BY <1>4, <1>5 DEF IsBucket
<1>7. MapsTo(r, k, v)
  BY <1>3, <1>4 DEF MapsTo
<1>8. ASSUME NEW j \in Key \ {k}, NEW w, MapsTo(s, j, w)
      PROVE  MapsTo(r, j, w)
  BY <1>1, <1>4, <1>5, <1>8 DEF MapsTo
<1> QED
  BY <1>6, <1>7, <1>8 DEF r, e

(* and after its entry has been erased. *)
LEMMA EraseEntry ==
  ASSUME NEW b \in Bucket, NEW s, IsBucket(s, b), NEW k \in Key,
         NEW n \in 1 .. Len(s), IsEntry(n, s, k), n # 0
  PROVE  LET r == Table!RemoveAt(s, n)
         IN  /\ IsBucket(r, b) /\ MapsTo(r, k, NoValue)
             /\ \A j \in Key \ {k} : \A w : MapsTo(s, j, w) => MapsTo(r, j, w)
<1> DEFINE low == SubSeq(s, 1, n - 1)
           high == SubSeq(s, n + 1, Len(s))
           r == Table!RemoveAt(s, n)
<1>1. s \in Seq(Key \X Value) /\ s[n][1] = k /\ Len(s) \in Nat
  BY DEF IsBucket, IsEntry
<1>2. /\ low \in Seq(Key \X Value) /\ Len(low) = n - 1
      /\ \A i \in 1 .. n - 1 : low[i] = s[i]
  BY <1>1, SubSeqProperties
<1>3. /\ high \in Seq(Key \X Value) /\ Len(high) = Len(s) - n
      /\ \A i \in 1 .. Len(s) - n : high[i] = s[n + i]
  <2>1. CASE n = Len(s)
    BY <2>1, <1>1
  <2>2. CASE n < Len(s)
    BY <2>2, <1>1, SubSeqProperties
  <2> QED
    BY <2>1, <2>2, <1>1
<1>4. r = low \o high
  BY DEF Table!RemoveAt
<1> HIDE DEF r, low, high
<1>5. /\ r \in Seq(Key \X Value) /\ Len(r) = Len(s) - 1
      /\ \A i \in 1 .. n - 1 : r[i] = s[i]
      /\ \A i \in n .. Len(s) - 1 : r[i] = s[i + 1]
  <2>1. /\ r \in Seq(Key \X Value) /\ Len(r) = Len(low) + Len(high)
        /\ \A i \in 1 .. Len(r) : r[i] = IF i <= Len(low) THEN low[i] ELSE high[i - Len(low)]
    <3>1. low \in Seq(Key \X Value) /\ high \in Seq(Key \X Value)
      BY <1>2, <1>3
    <3>2. /\ low \o high \in Seq(Key \X Value)
          /\ Len(low \o high) = Len(low) + Len(high)
          /\ \A i \in 1 .. Len(low) + Len(high) :
               (low \o high)[i] = IF i <= Len(low) THEN low[i] ELSE high[i - Len(low)]
      BY <3>1, ConcatProperties
    <3> QED
      BY <3>2, <1>4
  <2>2. Len(r) = Len(s) - 1
    BY <2>1, <1>1, <1>2, <1>3
  <2>3. \A i \in 1 .. n - 1 : r[i] = s[i]
    BY <2>1, <2>2, <1>1, <1>2
  <2>4. ASSUME NEW i \in n .. Len(s) - 1  PROVE r[i] = s[i + 1]
    <3>1. /\ i \in 1 .. Len(r) /\ ~(i <= Len(low))
          /\ i - Len(low) \in 1 .. Len(s) - n /\ n + (i - Len(low)) = i + 1
      BY <2>2, <1>1, <1>2
    <3> QED
      BY <3>1, <2>1, <1>3
  <2> QED
    BY <2>1, <2>2, <2>3, <2>4
<1>6. ASSUME NEW i \in 1 .. Len(r)
      PROVE  \E j \in 1 .. Len(s) \ {n} :
               r[i] = s[j] /\ (i < n => j = i) /\ (i >= n => j = i + 1)
  <2>1. CASE i < n
    <3>1. i \in 1 .. n - 1 /\ i \in 1 .. Len(s) \ {n}
      BY <2>1, <1>1, <1>5
    <3> QED
      BY <2>1, <3>1, <1>5
  <2>2. CASE i >= n
    <3>1. i \in n .. Len(s) - 1 /\ i + 1 \in 1 .. Len(s) \ {n}
      BY <2>2, <1>1, <1>5
    <3> QED
      BY <2>2, <3>1, <1>5
  <2> QED
    BY <2>1, <2>2
<1>7. \A j \in 1 .. Len(s) \ {n} : \E i \in 1 .. Len(r) : r[i] = s[j]
  <2> SUFFICES ASSUME NEW j \in 1 .. Len(s) \ {n}  PROVE \E i \in 1 .. Len(r) : r[i] = s[j]
    OBVIOUS
  <2>1. CASE j < n
    <3>1. j \in 1 .. n - 1 /\ j \in 1 .. Len(r)
      BY <2>1, <1>1, <1>5
    <3> QED
      BY <3>1, <1>5
  <2>2. CASE j > n
    <3>1. j - 1 \in 1 .. Len(r) /\ j - 1 \in n .. Len(s) - 1 /\ (j - 1) + 1 = j
      BY <2>2, <1>1, <1>5
    <3> QED
      BY <3>1, <1>5
  <2> QED
    BY <2>1, <2>2, <1>1
<1>8. IsBucket(r, b)
  <2>1. \A i \in 1 .. Len(r) : hasher[r[i][1]] = b
    BY <1>6 DEF IsBucket
  <2>2. ASSUME NEW i \in 1 .. Len(r), NEW j \in 1 .. Len(r), r[i][1] = r[j][1]
        PROVE  i = j
    <3>1. PICK p \in 1 .. Len(s) : r[i] = s[p] /\ (i < n => p = i) /\ (i >= n => p = i + 1)
      BY <1>6
    <3>2. PICK q \in 1 .. Len(s) : r[j] = s[q] /\ (j < n => q = j) /\ (j >= n => q = j + 1)
      BY <1>6
    <3>3. p = q
      BY <2>2, <3>1, <3>2 DEF IsBucket
    <3> QED
      BY <3>1, <3>2, <3>3, <1>1, <1>5
  <2> QED
    BY <2>1, <2>2, <1>5 DEF IsBucket
<1>9. \A i \in 1 .. Len(r) : r[i][1] # k
  BY <1>1, <1>6 DEF IsBucket
<1>10. MapsTo(r, k, NoValue)
  BY <1>9 DEF MapsTo
<1>11. ASSUME NEW j \in Key \ {k}, NEW w, MapsTo(s, j, w)
       PROVE  MapsTo(r, j, w)
  <2>1. CASE \E i \in 1 .. Len(s) : s[i][1] = j /\ s[i][2] = w
    <3>1. PICK i \in 1 .. Len(s) : s[i][1] = j /\ s[i][2] = w
      BY <2>1
    <3>2. i # n
      BY <3>1, <1>1
    <3>3. PICK h \in 1 .. Len(r) : r[h] = s[i]
      BY <3>2, <1>7
    <3> QED
      BY <3>1, <3>3 DEF MapsTo
  <2>2. CASE w = NoValue /\ \A i \in 1 .. Len(s) : s[i][1] # j
    <3>1. \A i \in 1 .. Len(r) : r[i][1] # j
      BY <2>2, <1>6
    <3> QED
      BY <2>2, <3>1 DEF MapsTo
  <2> QED
    BY <2>1, <2>2, <1>11 DEF MapsTo
<1> QED
  BY <1>8, <1>10, <1>11 DEF r

(* A list has one value for a key at most. *)
LEMMA OneValue ==
  ASSUME NEW b, NEW s, IsBucket(s, b), NEW k, NEW v, NEW w, MapsTo(s, k, v), MapsTo(s, k, w)
  PROVE  v = w
BY DEF IsBucket, MapsTo

LEMMA TableInit ==
  ASSUME Table!Init
  PROVE  TableIInv
BY TableConstants
DEF Table!Init, TableIInv, TableTypes, TableArguments, TableLocks, TableFound, TableBuckets,
       IsBucket, Reads, Changes, Finds

(* A call returns, after a change of the list of a bucket that its thread  *)
(* has alone, or without a change.                                         *)
LEMMA TableReturn ==
  ASSUME TableIInv, NEW t \in Caller, tablePc[t] \in Finds, Table!Return(t),
         answer' \in [Caller -> Value \cup {NoValue}],
         NEW r, tableData' = [tableData EXCEPT ![hasher[key[t]]] = r],
         IsBucket(r, hasher[key[t]]),
         tablePc[t] \in Changes \/ r = tableData[hasher[key[t]]]
  PROVE  TableIInv'
<1> USE TableConstants
<1>a. TableTypes /\ TableArguments /\ TableLocks /\ TableFound /\ TableBuckets
  BY DEF TableIInv
<1> DEFINE b == hasher[key[t]]
<1>1. key[t] \in Key /\ b \in Bucket /\ (writer[b] = {t} \/ r = tableData[b])
  BY <1>a DEF TableArguments, TableLocks, Finds
<1>2. /\ tablePc' = [tablePc EXCEPT ![t] = "idle"]
      /\ readers' = [readers EXCEPT ![b] = @ \ {t}] /\ writer' = [writer EXCEPT ![b] = @ \ {t}]
      /\ found_entry' = [found_entry EXCEPT ![t] = 0]
      /\ key' = [key EXCEPT ![t] = NoValue] /\ value' = [value EXCEPT ![t] = NoValue]
      /\ tableCalls' = tableCalls
  BY DEF Table!Return, Table!get_bucket
<1> PICK c : c = b
  OBVIOUS
<1>3. /\ tableData'[c] = r /\ r \in Seq(Key \X Value)
      /\ \A d \in Bucket \ {c} : tableData'[d] = tableData[d]
  BY <1>1, <1>a DEF TableTypes, IsBucket
<1>4. TableTypes'
  BY <1>1, <1>2, <1>3, <1>a DEF TableTypes, IsBucket
<1>5. TableArguments'
  BY <1>2, <1>a DEF TableArguments, TableTypes
<1>6. \A u \in Caller \ {t} : tablePc[u] \in Finds =>
        hasher[key[u]] # c \/ tableData' = tableData
  <2>1. CASE writer[c] = {t}
    BY <2>1, <1>1, <1>a DEF TableLocks, Finds, Reads, Changes
  <2>2. CASE r = tableData[c]
    BY <2>2, <1>1, <1>a DEF TableTypes
  <2> QED
    BY <2>1, <2>2, <1>1
<1>7. \A u \in Caller \ {t} :
        tablePc'[u] = tablePc[u] /\ key'[u] = key[u] /\ found_entry'[u] = found_entry[u]
  BY <1>2, <1>a DEF TableTypes
<1>8. /\ tablePc'[t] = "idle" /\ found_entry'[t] = 0
      /\ readers' = [readers EXCEPT ![c] = @ \ {t}] /\ writer' = [writer EXCEPT ![c] = @ \ {t}]
  BY <1>2, <1>a DEF TableTypes
<1>9. TableLocks'
  <2>1. \A d \in Bucket : readers'[d] \subseteq readers[d] /\ writer'[d] \subseteq writer[d]
    BY <1>8, <1>a DEF TableTypes
  <2>2. \A d \in Bucket, u \in Caller \ {t} :
          /\ u \in readers[d] => u \in readers'[d]
          /\ writer[d] = {u} => writer'[d] = {u}
    BY <1>8, <1>a DEF TableTypes
  <2>3. ASSUME NEW u \in Caller, tablePc'[u] # "idle"
        PROVE  u # t /\ hasher[key[u]] \in Bucket
    BY <2>3, <1>7, <1>8, <1>a DEF TableArguments
  <2>4. ASSUME NEW u \in Caller
        PROVE  /\ tablePc'[u] \in Reads => u \in readers'[hasher[key'[u]]]
               /\ tablePc'[u] \in Changes => writer'[hasher[key'[u]]] = {u}
    <3>1. CASE u = t
      BY <3>1, <1>8 DEF Reads, Changes
    <3>2. CASE u # t /\ tablePc[u] \in Reads
      BY <2>2, <2>3, <3>2, <1>7, <1>a DEF TableLocks, Reads, Changes
    <3>3. CASE u # t /\ tablePc[u] \in Changes
      <4>1. tablePc'[u] = tablePc[u] /\ key'[u] = key[u] /\ tablePc[u] \notin Reads
        BY <3>3, <1>7 DEF Reads, Changes
      <4>2. hasher[key[u]] \in Bucket /\ writer[hasher[key[u]]] = {u}
        BY <2>3, <3>3, <4>1, <1>a DEF TableLocks, Changes
      <4>3. writer'[hasher[key[u]]] = {u}
        BY <2>2, <3>3, <4>2
      <4> QED
        BY <4>1, <4>3
    <3> QED
      BY <3>1, <3>2, <3>3, <1>7
  <2>5. \A d \in Bucket : writer'[d] # {} => readers'[d] = {}
    BY <2>1, <1>a DEF TableLocks
  <2> QED
    BY <2>4, <2>5 DEF TableLocks
<1>10. TableFound'
  <2> SUFFICES ASSUME NEW u \in Caller
               PROVE  IF tablePc'[u] \in Finds
                        THEN IsEntry(found_entry'[u], tableData'[hasher[key'[u]]], key'[u])
                        ELSE found_entry'[u] = 0
    BY DEF TableFound, IsEntry
  <2>1. CASE u = t
    BY <2>1, <1>8 DEF Finds
  <2>2. CASE u # t
    <3>1. tablePc[u] \in Finds => hasher[key[u]] \in Bucket \ {c} \/ tableData' = tableData
      BY <2>2, <1>6, <1>a DEF TableArguments, Finds
    <3> QED
      BY <2>2, <3>1, <1>3, <1>7, <1>a DEF TableFound
  <2> QED
    BY <2>1, <2>2
<1>11. TableBuckets'
  BY <1>3, <1>a DEF TableBuckets, IsBucket
<1> QED
  BY <1>4, <1>5, <1>9, <1>10, <1>11 DEF TableIInv

(* What an update and an erasure do to the map. *)
LEMMA TableUpdate ==
  ASSUME TableIInv, NEW t \in Caller, Table!add_or_update_mapping(t)
  PROVE  \E r : /\ tablePc[t] = "update" /\ Table!Return(t) /\ answer' = answer
                /\ tableData' = [tableData EXCEPT ![hasher[key[t]]] = r]
                /\ IsBucket(r, hasher[key[t]]) /\ MapsTo(r, key[t], value[t])
                /\ \A j \in Key \ {key[t]} : \A w :
                     MapsTo(tableData[hasher[key[t]]], j, w) => MapsTo(r, j, w)
<1> USE TableConstants
<1> DEFINE b == hasher[key[t]]
           s == tableData[b]
           n == found_entry[t]
<1>1. /\ tablePc[t] = "update" /\ Table!Return(t) /\ answer' = answer
      /\ tableData' = [tableData EXCEPT ![b] =
           IF n = 0 THEN Append(s, <<key[t], value[t]>>) ELSE [s EXCEPT ![n][2] = value[t]]]
  BY DEF Table!add_or_update_mapping, Table!get_bucket, TableIInv, TableTypes
<1>2. /\ key[t] \in Key /\ b \in Bucket /\ value[t] \in Value
      /\ IsBucket(s, b) /\ IsEntry(n, s, key[t])
  BY <1>1 DEF TableIInv, TableArguments, TableBuckets, TableFound, Finds
<1>3. CASE n = 0
  <2> DEFINE r == Append(s, <<key[t], value[t]>>)
  <2>1. /\ IsBucket(r, b) /\ MapsTo(r, key[t], value[t])
        /\ \A j \in Key \ {key[t]} : \A w : MapsTo(s, j, w) => MapsTo(r, j, w)
    BY <1>2, <1>3, AddEntry
  <2>2. tableData' = [tableData EXCEPT ![b] = r]
    BY <1>1, <1>3
  <2> HIDE DEF r
  <2> QED
    BY <1>1, <2>1, <2>2
<1>4. CASE n # 0
  <2>1. n \in 1 .. Len(s)
    BY <1>2, <1>4 DEF IsEntry
  <2> QED
    <3> DEFINE r == [s EXCEPT ![n][2] = value[t]]
    <3>1. /\ IsBucket(r, b) /\ MapsTo(r, key[t], value[t])
          /\ \A j \in Key \ {key[t]} : \A w : MapsTo(s, j, w) => MapsTo(r, j, w)
      BY <1>2, <1>4, <2>1, ChangeEntry
    <3>2. tableData' = [tableData EXCEPT ![b] = r]
      BY <1>1, <1>4
    <3> HIDE DEF r
    <3> QED
      BY <1>1, <3>1, <3>2
<1> QED
  BY <1>3, <1>4

LEMMA TableErase ==
  ASSUME TableIInv, NEW t \in Caller, Table!remove_mapping(t)
  PROVE  \E r : /\ tablePc[t] = "erase" /\ Table!Return(t) /\ answer' = answer
                /\ tableData' = [tableData EXCEPT ![hasher[key[t]]] = r]
                /\ IsBucket(r, hasher[key[t]]) /\ MapsTo(r, key[t], NoValue)
                /\ \A j \in Key \ {key[t]} : \A w :
                     MapsTo(tableData[hasher[key[t]]], j, w) => MapsTo(r, j, w)
<1> USE TableConstants
<1> DEFINE b == hasher[key[t]]
           s == tableData[b]
           n == found_entry[t]
<1>1. /\ tablePc[t] = "erase" /\ Table!Return(t) /\ answer' = answer
      /\ tableData' = [tableData EXCEPT ![b] = IF n = 0 THEN s ELSE Table!RemoveAt(s, n)]
  BY DEF Table!remove_mapping, Table!get_bucket, TableIInv, TableTypes
<1>2. /\ key[t] \in Key /\ b \in Bucket
      /\ IsBucket(s, b) /\ IsEntry(n, s, key[t])
  BY <1>1 DEF TableIInv, TableArguments, TableBuckets, TableFound, Finds
<1>3. CASE n = 0
  <2>1. MapsTo(s, key[t], NoValue)
    BY <1>2, <1>3 DEF IsEntry, MapsTo
  <2> QED
    BY <1>1, <1>2, <1>3, <2>1
<1>4. CASE n # 0
  <2>1. n \in 1 .. Len(s)
    BY <1>2, <1>4 DEF IsEntry
  <2> QED
    <3> DEFINE r == Table!RemoveAt(s, n)
    <3>1. /\ IsBucket(r, b) /\ MapsTo(r, key[t], NoValue)
          /\ \A j \in Key \ {key[t]} : \A w : MapsTo(s, j, w) => MapsTo(r, j, w)
      BY <1>2, <1>4, <2>1, EraseEntry
    <3>2. tableData' = [tableData EXCEPT ![b] = r]
      BY <1>1, <1>4
    <3> HIDE DEF r
    <3> QED
      BY <1>1, <3>1, <3>2
<1> QED
  BY <1>3, <1>4

LEMMA TableInductive ==
  ASSUME TableIInv, [Table!Next]_table
  PROVE  TableIInv'
<1> USE TableConstants
<1>a. TableTypes /\ TableArguments /\ TableLocks /\ TableFound /\ TableBuckets
  BY DEF TableIInv
<1>b. \A t \in Caller : tablePc[t] # "idle" => key[t] \in Key /\ hasher[key[t]] \in Bucket
  BY <1>a DEF TableArguments
<1>1. ASSUME NEW t \in Caller, Table!Call(t)  PROVE TableIInv'
  <2>1. PICK op \in {"value_for", "add_or_update", "remove"}, k \in Key,
             v \in Value \cup {NoValue} :
          /\ tablePc' = [tablePc EXCEPT ![t] = op] /\ key' = [key EXCEPT ![t] = k]
          /\ value' = [value EXCEPT ![t] = v]
          /\ IF op = "add_or_update" THEN v \in Value ELSE v = NoValue
    BY <1>1 DEF Table!Call
  <2>2. UNCHANGED <<tableData, readers, writer, found_entry, answer>> /\ tablePc[t] = "idle"
    BY <1>1 DEF Table!Call
  <2>a. tableCalls[t] < MaxCalls /\ tableCalls' = [tableCalls EXCEPT ![t] = @ + 1]
    BY <1>1 DEF Table!Call
  <2>b. tableCalls' \in [Caller -> 0 .. MaxCalls]
    BY <2>a, <1>a DEF TableTypes
  <2>3. TableTypes'
    BY <2>1, <2>2, <2>b, <1>a DEF TableTypes
  <2>4. TableArguments'
    BY <2>1, <1>a DEF TableArguments, TableTypes
  <2>5. \A u \in Caller : /\ tablePc'[u] \in Reads <=> tablePc[u] \in Reads
                          /\ tablePc'[u] \in Changes <=> tablePc[u] \in Changes
                          /\ tablePc'[u] \in Finds <=> tablePc[u] \in Finds
                          /\ tablePc[u] \in Reads \cup Changes \cup Finds => key'[u] = key[u]
    BY <2>1, <2>2, <1>a DEF Reads, Changes, Finds, TableTypes
  <2>6. TableLocks'
    BY <2>2, <2>5, <1>a DEF TableLocks
  <2>7. TableFound' /\ TableBuckets'
    BY <2>2, <2>5, <1>a DEF TableFound, TableBuckets
  <2> QED
    BY <2>3, <2>4, <2>6, <2>7 DEF TableIInv
<1>2. ASSUME NEW t \in Caller, Table!LockShared(t)  PROVE TableIInv'
  <2>1. /\ tablePc[t] = "value_for" /\ tablePc' = [tablePc EXCEPT ![t] = "reading"]
        /\ writer[hasher[key[t]]] = {}
        /\ readers' = [readers EXCEPT ![hasher[key[t]]] = @ \cup {t}]
        /\ UNCHANGED <<tableData, writer, tableCalls, key, value, found_entry, answer>>
    BY <1>2, <1>a DEF Table!LockShared, Table!Inside, Table!get_bucket, TableTypes
  <2>2. TableTypes'
    BY <2>1, <1>a DEF TableTypes, Reads, Changes
  <2>5. TableArguments'
    BY <2>1, <1>a DEF TableTypes, TableArguments
  <2>3. TableLocks'
    <3>1. \A u \in Caller : tablePc'[u] \in Reads => u \in readers'[hasher[key'[u]]]
      BY <2>1, <1>a, <1>b DEF TableTypes, TableLocks, Reads
    <3>2. \A u \in Caller : tablePc'[u] \in Changes => writer'[hasher[key'[u]]] = {u}
      BY <2>1, <1>a, <1>b DEF TableTypes, TableLocks, Changes
    <3>3. \A b \in Bucket : writer'[b] # {} => readers'[b] = {}
      BY <2>1, <1>a, <1>b DEF TableTypes, TableLocks
    <3> QED
      BY <3>1, <3>2, <3>3 DEF TableLocks
  <2>4. TableFound' /\ TableBuckets'
    BY <2>1, <1>a DEF TableTypes, TableFound, TableBuckets, Finds
  <2> QED
    BY <2>2, <2>3, <2>4, <2>5 DEF TableIInv
<1>3. ASSUME NEW t \in Caller, Table!LockUnique(t)  PROVE TableIInv'
  <2>1. PICK in \in {"updating", "removing"} :
        /\ tablePc[t] = (IF in = "updating" THEN "add_or_update" ELSE "remove")
        /\ tablePc' = [tablePc EXCEPT ![t] = in]
        /\ writer[hasher[key[t]]] = {} /\ readers[hasher[key[t]]] = {}
        /\ writer' = [writer EXCEPT ![hasher[key[t]]] = {t}]
        /\ UNCHANGED <<tableData, readers, tableCalls, key, value, found_entry, answer>>
    BY <1>3, <1>a DEF Table!LockUnique, Table!Inside, Table!get_bucket, TableTypes
  <2>2. TableTypes'
    BY <2>1, <1>a DEF TableTypes, Reads, Changes
  <2>5. TableArguments'
    BY <2>1, <1>a DEF TableTypes, TableArguments
  <2>3. TableLocks'
    <3>1. \A u \in Caller : tablePc'[u] \in Reads => u \in readers'[hasher[key'[u]]]
      BY <2>1, <1>a, <1>b DEF TableTypes, TableLocks, Reads
    <3>2. ASSUME NEW u \in Caller, tablePc'[u] \in Changes
          PROVE  writer'[hasher[key'[u]]] = {u}
      <4>1. CASE u = t
        BY <2>1, <4>1, <1>a, <1>b DEF TableTypes
      <4>2. CASE u # t
        <5>1. tablePc[u] \in Changes
          BY <2>1, <3>2, <4>2, <1>a DEF TableTypes
        <5>2. key[u] \in Key /\ hasher[key[u]] \in Bucket /\ writer[hasher[key[u]]] = {u}
          BY <5>1, <1>a, <1>b DEF TableLocks, Changes
        <5> QED
          BY <2>1, <5>2, <1>a DEF TableTypes
      <4> QED
        BY <4>1, <4>2
    <3>3. \A b \in Bucket : writer'[b] # {} => readers'[b] = {}
      BY <2>1, <1>a, <1>b DEF TableTypes, TableLocks
    <3> QED
      BY <3>1, <3>2, <3>3 DEF TableLocks
  <2>4. TableFound' /\ TableBuckets'
    BY <2>1, <1>a DEF TableTypes, TableFound, TableBuckets, Finds
  <2> QED
    BY <2>2, <2>3, <2>4, <2>5 DEF TableIInv
<1>4. ASSUME NEW t \in Caller, Table!Find(t)  PROVE TableIInv'
  <2> DEFINE i == Table!find_entry_for(hasher[key[t]], key[t])
  <2>1. PICK at \in {"read", "update", "erase"} :
        /\ tablePc[t] = (CASE at = "read" -> "reading" [] at = "update" -> "updating"
                           [] at = "erase" -> "removing")
        /\ tablePc' = [tablePc EXCEPT ![t] = at]
        /\ found_entry' = [found_entry EXCEPT ![t] = i]
        /\ UNCHANGED <<tableData, readers, writer, tableCalls, key, value, answer>>
    BY <1>4, <1>a DEF Table!Find, Table!get_bucket, TableTypes
  <2>2. /\ IsEntry(i, tableData[hasher[key[t]]], key[t])
        /\ tableData[hasher[key[t]]] \in Seq(Key \X Value)
    BY <2>1, <1>a, <1>b, FindEntry DEF TableBuckets, IsBucket
  <2>3. i \in Nat
    BY <2>2 DEF IsEntry
  <2>4. TableTypes'
    BY <2>1, <2>3, <1>a DEF TableTypes, Reads, Changes
  <2>5. TableArguments'
    BY <2>1, <1>a DEF TableTypes, TableArguments
  <2>6. TableLocks'
    BY <2>1, <1>a DEF TableTypes, TableLocks, Reads, Changes
  <2>7. TableFound'
    BY <2>1, <2>2, <1>a DEF TableTypes, TableFound, Finds, IsEntry
  <2>8. TableBuckets'
    BY <2>1, <1>a DEF TableBuckets
  <2> QED
    BY <2>4, <2>5, <2>6, <2>7, <2>8 DEF TableIInv
<1>5. ASSUME NEW t \in Caller, Table!value_for(t)  PROVE TableIInv'
  <2> DEFINE s == tableData[hasher[key[t]]]
  <2>1. /\ tablePc[t] = "read" /\ Table!Return(t) /\ tableData' = tableData
        /\ answer' = [answer EXCEPT ![t] =
                        IF found_entry[t] = 0 THEN NoValue ELSE s[found_entry[t]][2]]
    BY <1>5 DEF Table!value_for, Table!get_bucket
  <2>2. IsBucket(s, hasher[key[t]]) /\ IsEntry(found_entry[t], s, key[t])
    BY <2>1, <1>a, <1>b DEF TableBuckets, TableFound, Finds
  <2>3. found_entry[t] # 0 => s[found_entry[t]] \in Key \X Value
    <3>1. s \in Seq(Key \X Value) /\ (found_entry[t] # 0 => found_entry[t] \in 1 .. Len(s))
      BY <2>2 DEF IsBucket, IsEntry
    <3> QED
      BY <3>1
  <2>4. answer' \in [Caller -> Value \cup {NoValue}]
    BY <2>1, <2>3, <1>a DEF TableTypes
  <2>5. tableData' = [tableData EXCEPT ![hasher[key[t]]] = s]
    BY <2>1, <1>a DEF TableTypes
  <2> QED
    BY <2>1, <2>2, <2>4, <2>5, TableReturn DEF Finds
<1>6. ASSUME NEW t \in Caller, Table!add_or_update_mapping(t)  PROVE TableIInv'
  <2>1. PICK r : /\ tablePc[t] = "update" /\ Table!Return(t) /\ answer' = answer
                 /\ tableData' = [tableData EXCEPT ![hasher[key[t]]] = r]
                 /\ IsBucket(r, hasher[key[t]])
    BY <1>6, TableUpdate
  <2> QED
    BY <2>1, <1>a, TableReturn DEF Finds, Changes, TableTypes
<1>7. ASSUME NEW t \in Caller, Table!remove_mapping(t)  PROVE TableIInv'
  <2>1. PICK r : /\ tablePc[t] = "erase" /\ Table!Return(t) /\ answer' = answer
                 /\ tableData' = [tableData EXCEPT ![hasher[key[t]]] = r]
                 /\ IsBucket(r, hasher[key[t]])
    BY <1>7, TableErase
  <2> QED
    BY <2>1, <1>a, TableReturn DEF Finds, Changes, TableTypes
<1>8. CASE UNCHANGED table
  BY <1>8 DEF table, TableIInv, TableTypes, TableArguments, TableLocks, TableFound, TableBuckets
<1> QED
  BY <1>1, <1>2, <1>3, <1>4, <1>5, <1>6, <1>7, <1>8 DEF Table!Next

TableMap == [k \in Key |-> Table!Mapped(k)]
TableRequest == [t \in Caller |-> Table!Request(t)]

LEMMA TableMapped ==
  TableIInv => \A k \in Key : MapsTo(tableData[hasher[k]], k, TableMap[k])
<1> SUFFICES ASSUME TableIInv, NEW k \in Key
             PROVE  MapsTo(tableData[hasher[k]], k, TableMap[k])
  OBVIOUS
<1> DEFINE s == tableData[hasher[k]]
           i == Table!find_entry_for(hasher[k], k)
<1>1. hasher[k] \in Bucket /\ IsBucket(s, hasher[k])
  BY TableConstants DEF TableIInv, TableBuckets
<1>2. IsEntry(i, s, k)
  BY <1>1, FindEntry
<1>3. TableMap[k] = IF i = 0 THEN NoValue ELSE s[i][2]
  BY DEF TableMap, Table!Mapped
<1> QED
  BY <1>2, <1>3 DEF IsEntry, MapsTo

(* The map stays when no list changes. *)
LEMMA TableMapKept ==
  ASSUME tableData' = tableData
  PROVE  TableMap' = TableMap
BY DEF TableMap, Table!Mapped, Table!find_entry_for, Table!SelectInSeq

(* One thread's call changes. *)
LEMMA TableRequestOf ==
  ASSUME NEW t \in Caller,
         \A u \in Caller \ {t} :
           tablePc'[u] = tablePc[u] /\ key'[u] = key[u] /\ value'[u] = value[u]
  PROVE  TableRequest' = [TableRequest EXCEPT ![t] = Table!Request(t)']
BY DEF TableRequest, Table!Request

(* A call takes effect. *)
LEMMA TableEffect ==
  ASSUME TableIInv, TableIInv', NEW t \in Caller, tablePc[t] \in Finds, Table!Return(t),
         NEW r, tableData' = [tableData EXCEPT ![hasher[key[t]]] = r],
         IF tablePc[t] = "read"
           THEN answer' = [answer EXCEPT ![t] = TableMap[key[t]]] /\ tableData' = tableData
           ELSE /\ answer' = answer /\ MapsTo(r, key[t], value[t])
                /\ \A j \in Key \ {key[t]} : \A w :
                     MapsTo(tableData[hasher[key[t]]], j, w) => MapsTo(r, j, w)
  PROVE  Table!Abstract!Effect(t)
<1> USE TableConstants
<1>a. TableTypes /\ TableArguments
  BY DEF TableIInv
<1> DEFINE b == hasher[key[t]]
<1>1. key[t] \in Key /\ b \in Bucket
  BY <1>a DEF TableArguments, Finds
<1>2. /\ tablePc' = [tablePc EXCEPT ![t] = "idle"]
      /\ key' = [key EXCEPT ![t] = NoValue] /\ value' = [value EXCEPT ![t] = NoValue]
  BY DEF Table!Return, Table!get_bucket
<1>3. TableRequest' = [TableRequest EXCEPT ![t] = Table!Abstract!None]
  <2>1. Table!Request(t)' = Table!Abstract!None
    BY <1>2, <1>a DEF TableTypes, Table!Request, Table!Abstract!None
  <2> QED
    BY <2>1, <1>2, <1>a, TableRequestOf DEF TableTypes
<1>4. /\ TableRequest[t].op = "value_for" <=> tablePc[t] = "read"
      /\ TableRequest[t].op # "none"
      /\ TableRequest[t].key = key[t] /\ TableRequest[t].value = value[t]
  BY DEF TableRequest, Table!Request, Finds
<1>5. TableRequest[t] # Table!Abstract!None
  BY <1>4 DEF Table!Abstract!None
<1>6. CASE tablePc[t] = "read"
  BY <1>3, <1>4, <1>5, <1>6, TableMapKept DEF Table!Abstract!Effect, TableMap, TableRequest
<1>7. CASE tablePc[t] # "read"
  <2>1. /\ \A k \in Key : MapsTo(tableData[hasher[k]], k, TableMap[k])
        /\ \A k \in Key : MapsTo(tableData'[hasher[k]], k, TableMap'[k])
    <3>1. (\A k \in Key : MapsTo(tableData[hasher[k]], k, TableMap[k]))'
      BY TableMapped, PTL
    <3> QED
      BY <3>1, TableMapped DEF MapsTo
  <2>2. \A k \in Key : IsBucket(tableData'[hasher[k]], hasher[k])
    BY DEF TableIInv, TableBuckets, IsBucket
  <2>3. ASSUME NEW k \in Key
        PROVE  TableMap'[k] = IF k = key[t] THEN value[t] ELSE TableMap[k]
    <3>1. hasher[k] \in Bucket
      OBVIOUS
    <3>2. CASE k = key[t]
      <4>1. MapsTo(tableData'[hasher[k]], k, value[t])
        BY <3>2, <1>1, <1>7, <1>a DEF TableTypes
      <4> QED
        BY <3>2, <4>1, <2>1, <2>2, OneValue
    <3>3. CASE k # key[t]
      <4>1. MapsTo(tableData'[hasher[k]], k, TableMap[k])
        BY <3>1, <3>3, <1>1, <1>7, <1>a, <2>1 DEF TableTypes
      <4> QED
        BY <3>3, <4>1, <2>1, <2>2, OneValue
    <3> QED
      BY <3>2, <3>3
  <2>4. TableMap' = [TableMap EXCEPT ![key[t]] = value[t]]
    BY <2>3, <1>1 DEF TableMap
  <2> QED
    BY <1>3, <1>4, <1>5, <1>7, <2>4 DEF Table!Abstract!Effect, TableMap, TableRequest
<1> QED
  BY <1>6, <1>7

(* A call begins, takes effect or returns, or nothing changes for the      *)
(* caller.                                                                 *)
LEMMA TableRefines ==
  ASSUME TableIInv, TableIInv', [Table!Next]_table
  PROVE  [Table!Abstract!Next]_<<TableMap, TableRequest, answer>>
<1> USE TableConstants
<1>a. TableTypes /\ TableArguments /\ TableFound /\ TableBuckets
  BY DEF TableIInv
<1>1. ASSUME NEW t \in Caller, Table!Call(t)  PROVE Table!Abstract!Call(t)
  <2>1. PICK op \in {"value_for", "add_or_update", "remove"}, k \in Key,
             v \in Value \cup {NoValue} :
          /\ tablePc' = [tablePc EXCEPT ![t] = op] /\ key' = [key EXCEPT ![t] = k]
          /\ value' = [value EXCEPT ![t] = v]
    BY <1>1 DEF Table!Call
  <2>2. /\ tablePc[t] = "idle" /\ key[t] = NoValue /\ value[t] = NoValue
        /\ UNCHANGED <<tableData, answer>>
    BY <1>1, <1>a DEF Table!Call, TableArguments
  <2>3. TableRequest[t] = Table!Abstract!None
    BY <2>2 DEF TableRequest, Table!Request, Table!Abstract!None
  <2>4. Table!Request(t)' = [op |-> op, key |-> k, value |-> v]
    BY <2>1, <1>a DEF TableTypes, Table!Request
  <2>5. TableRequest' = [TableRequest EXCEPT ![t] = Table!Request(t)']
    BY <2>1, <1>a, TableRequestOf DEF TableTypes
  <2>6. /\ TableRequest'[t] = Table!Request(t)'
        /\ TableRequest' = [TableRequest EXCEPT ![t] = TableRequest'[t]]
    BY <2>5 DEF TableRequest
  <2>7. TableRequest'[t] \in Table!Abstract!Requests
    BY <2>4, <2>6 DEF Table!Abstract!Requests
  <2> QED
    BY <2>2, <2>3, <2>6, <2>7, TableMapKept DEF Table!Abstract!Call, TableMap, TableRequest
<1>2. ASSUME NEW t \in Caller, Table!LockShared(t) \/ Table!LockUnique(t) \/ Table!Find(t)
      PROVE  UNCHANGED <<TableMap, TableRequest, answer>>
  <2>1. UNCHANGED <<tableData, key, value, answer>>
    BY <1>2 DEF Table!LockShared, Table!LockUnique, Table!Find
  <2>2. /\ \A u \in Caller \ {t} : tablePc'[u] = tablePc[u]
        /\ \/ tablePc[t] = "value_for" /\ tablePc'[t] = "reading"
           \/ tablePc[t] = "add_or_update" /\ tablePc'[t] = "updating"
           \/ tablePc[t] = "remove" /\ tablePc'[t] = "removing"
           \/ tablePc[t] = "reading" /\ tablePc'[t] = "read"
           \/ tablePc[t] = "updating" /\ tablePc'[t] = "update"
           \/ tablePc[t] = "removing" /\ tablePc'[t] = "erase"
    BY <1>2, <1>a DEF Table!LockShared, Table!LockUnique, Table!Find, Table!Inside, TableTypes
  <2>3. Table!Request(t)' = Table!Request(t)
    BY <2>1, <2>2 DEF Table!Request
  <2>4. TableRequest' = TableRequest
    BY <2>1, <2>2, <2>3, TableRequestOf DEF TableRequest
  <2> QED
    BY <2>1, <2>4, TableMapKept
<1>3. ASSUME NEW t \in Caller, Table!value_for(t)  PROVE Table!Abstract!Effect(t)
  <2> DEFINE s == tableData[hasher[key[t]]]
  <2>1. /\ tablePc[t] = "read" /\ Table!Return(t) /\ tableData' = tableData
        /\ answer' = [answer EXCEPT ![t] =
                        IF found_entry[t] = 0 THEN NoValue ELSE s[found_entry[t]][2]]
    BY <1>3 DEF Table!value_for, Table!get_bucket
  <2>2. /\ key[t] \in Key /\ hasher[key[t]] \in Bucket
        /\ IsBucket(s, hasher[key[t]]) /\ IsEntry(found_entry[t], s, key[t])
    BY <2>1, <1>a DEF TableArguments, TableBuckets, TableFound, Finds
  <2>3. MapsTo(s, key[t], IF found_entry[t] = 0 THEN NoValue ELSE s[found_entry[t]][2])
    BY <2>2 DEF IsEntry, MapsTo
  <2>4. TableMap[key[t]] = IF found_entry[t] = 0 THEN NoValue ELSE s[found_entry[t]][2]
    BY <2>2, <2>3, TableMapped, OneValue
  <2>5. tableData' = [tableData EXCEPT ![hasher[key[t]]] = s]
    BY <2>1, <1>a DEF TableTypes
  <2> QED
    BY <2>1, <2>4, <2>5, TableEffect DEF Finds
<1>4. ASSUME NEW t \in Caller, Table!add_or_update_mapping(t)  PROVE Table!Abstract!Effect(t)
  BY <1>4, TableUpdate, TableEffect DEF Finds
<1>5. ASSUME NEW t \in Caller, Table!remove_mapping(t)  PROVE Table!Abstract!Effect(t)
  <2>1. tablePc[t] = "erase"
    BY <1>5 DEF Table!remove_mapping
  <2>2. value[t] = NoValue
    BY <2>1, <1>a DEF TableArguments
  <2> QED
    BY <1>5, <2>1, <2>2, TableErase, TableEffect DEF Finds
<1>6. CASE Table!Next
  BY <1>1, <1>2, <1>3, <1>4, <1>5, <1>6 DEF Table!Next, Table!Abstract!Next, TableMap, TableRequest
<1>7. CASE UNCHANGED table
  BY <1>7, TableMapKept DEF table, TableRequest, Table!Request
<1> QED
  BY <1>6, <1>7

LEMMA TableStart ==
  ASSUME Table!Init, TableIInv
  PROVE  Table!Abstract!Init
<1>1. \A b \in Bucket : tableData[b] = <<>>
  BY DEF Table!Init
<1>2. \A k \in Key : TableMap[k] = NoValue
  BY <1>1, TableMapped, TableConstants DEF MapsTo
<1>3. TableRequest = [t \in Caller |-> Table!Abstract!None]
  BY DEF Table!Init, TableRequest, Table!Request, Table!Abstract!None
<1> QED
  BY <1>2, <1>3 DEF Table!Init, Table!Abstract!Init, TableMap, TableRequest

-----------------------------------------------------------------------------
(* The stack *)

StackItem == Caller \X (1 .. StackCalls)

StackPlaces == Stack!Operation \cup {"idle", "pushing", "looking", "popping", "asking", "copying"}

(* Where a thread holds the mutex of the stack. *)
StackHolding(t) ==
  \/ stackPc[t] \in {"pushing", "looking", "popping", "asking"}
  \/ listing = "6.1" /\ stackPc[t] = "copying"

StackTypes ==
  /\ listing \in {"3.5", "6.1"}
  /\ stackData \in Seq(StackItem)
  /\ m \in Caller \cup {NoThread}
  /\ stackPc \in [Caller -> StackPlaces]
  /\ stackCalls \in [Caller -> 0 .. StackCalls]
  /\ sent \in [Caller -> 0 .. StackCalls]
  /\ result \in [Caller -> StackItem \cup {Nothing}]
  /\ copied \in [Caller -> Seq(StackItem) \cup {Wild}]

StackLock == \A t \in Caller : StackHolding(t) => m = t

(* A push under way has not been counted. *)
StackSent ==
  \A t \in Caller :
    /\ sent[t] <= stackCalls[t]
    /\ stackPc[t] \in {"push", "pushing"} => sent[t] < stackCalls[t]

IsLowerEnd(low, s) ==
  /\ Len(low) <= Len(s)
  /\ \A i \in 1 .. Len(low) : low[i] = s[Len(s) - Len(low) + i]

(* What 6.1 has copied is the lower end of the stack. *)
StackCopies ==
  \A t \in Caller :
    /\ stackPc[t] = "copy" => copied[t] = <<>>
    /\ listing = "6.1" /\ stackPc[t] = "copying" =>
         copied[t] # Wild /\ IsLowerEnd(copied[t], stackData)

StackIInv == StackTypes /\ StackLock /\ StackSent /\ StackCopies

LEMMA StackConstants ==
  StackCalls \in Nat /\ NoThread \notin Caller /\ Wild \notin Seq(StackItem)
BY ConstantsAssumption DEF Stack!ConstantsAssumption, Stack!Item, StackItem

(* An item put on top of a stack. *)
LEMMA PushItem ==
  ASSUME NEW s \in Seq(StackItem), NEW x \in StackItem
  PROVE  /\ <<x>> \o s \in Seq(StackItem)
         /\ Len(<<x>> \o s) = Len(s) + 1
         /\ (<<x>> \o s)[1] = x
         /\ \A i \in 1 .. Len(s) : (<<x>> \o s)[i + 1] = s[i]
OBVIOUS

(* The lower end of a stack, and one item more. *)
LEMMA NoLowerEnd ==
  ASSUME NEW s \in Seq(StackItem) PROVE IsLowerEnd(<<>>, s)
BY DEF IsLowerEnd

LEMMA LowerEnd ==
  ASSUME NEW s \in Seq(StackItem), NEW low \in Seq(StackItem), NEW longer \in Seq(StackItem),
         IsLowerEnd(low, s), Len(low) < Len(s),
         Len(longer) = Len(low) + 1,
         longer[1] = s[Len(s) - Len(low)],
         \A i \in 1 .. Len(low) : longer[i + 1] = low[i]
  PROVE  IsLowerEnd(longer, s)
<1>1. Len(s) \in Nat /\ Len(low) \in Nat
  OBVIOUS
<1> SUFFICES ASSUME NEW i \in 1 .. Len(longer)
             PROVE  longer[i] = s[Len(s) - Len(longer) + i]
  BY <1>1 DEF IsLowerEnd
<1>2. CASE i = 1
  <2>1. Len(s) - Len(longer) + i = Len(s) - Len(low)
    BY <1>1, <1>2
  <2> QED
    BY <1>2, <2>1
<1>3. CASE i # 1
  <2> DEFINE k == i - 1
  <2>1. k \in 1 .. Len(low) /\ k + 1 = i
    BY <1>1, <1>3
  <2>2. Len(s) - Len(longer) + i = Len(s) - Len(low) + k
    BY <1>1
  <2> HIDE DEF k
  <2>3. longer[k + 1] = low[k] /\ low[k] = s[Len(s) - Len(low) + k]
    BY <2>1 DEF IsLowerEnd
  <2> QED
    BY <2>1, <2>2, <2>3
<1> QED
  BY <1>2, <1>3

(* The top item taken off. *)
LEMMA PopItem ==
  ASSUME NEW s \in Seq(StackItem), s # <<>>
  PROVE  Tail(s) \in Seq(StackItem) /\ Head(s) \in StackItem
OBVIOUS

LEMMA StackInit ==
  ASSUME Stack!Init
  PROVE  StackIInv
BY StackConstants
DEF Stack!Init, StackIInv, StackTypes, StackLock, StackSent, StackCopies, StackHolding,
    StackPlaces, Stack!Operation

-----------------------------------------------------------------------------
(* The inductive invariant, one lemma for each kind of step *)

(* Two threads never hold the mutex at once. *)
LEMMA StackAlone ==
  ASSUME StackIInv, NEW t \in Caller, NEW u \in Caller, StackHolding(t), StackHolding(u)
  PROVE  t = u
BY DEF StackIInv, StackLock

LEMMA StackCallStep ==
  ASSUME StackIInv, NEW t \in Caller, Stack!Call(t)
  PROVE  StackIInv'
<1> USE DEF StackIInv, Stack!Call, Stack!Goto
<1>1. PICK op \in Stack!Operation : stackPc[t] = "idle" /\ stackPc' = [stackPc EXCEPT ![t] = op]
  BY DEF Stack!Callable
<1>2. StackTypes'
  BY <1>1, StackConstants DEF StackTypes, StackPlaces
<1>3. \A u \in Caller : StackHolding(u)' => StackHolding(u)
  BY <1>1 DEF StackTypes, StackHolding, Stack!Operation
<1>4. StackLock'
  BY <1>3 DEF StackLock
<1>5. StackSent'
  BY <1>1, StackConstants DEF StackTypes, StackSent, Stack!Operation
<1>6. StackCopies'
  <2>1. stackPc'[t] # "copying" /\ copied'[t] = <<>>
    BY <1>1 DEF StackTypes, Stack!Operation
  <2>2. \A u \in Caller : u # t => stackPc'[u] = stackPc[u] /\ copied'[u] = copied[u]
    BY <1>1 DEF StackTypes
  <2> QED
    BY <2>1, <2>2 DEF StackCopies
<1> QED
  BY <1>2, <1>4, <1>5, <1>6

(* The free mutex is taken: nobody else held it. *)
LEMMA StackLockStep ==
  ASSUME StackIInv, NEW t \in Caller, Stack!Lock(t)
  PROVE  StackIInv'
<1> USE DEF StackIInv, Stack!Lock
<1>1. /\ stackPc[t] \in Stack!Operation /\ Stack!Inside(stackPc[t]) \in StackPlaces
      /\ Stack!Inside(stackPc[t]) \in {"pushing", "looking", "asking", "copying"}
      /\ Stack!Inside(stackPc[t]) = "pushing" => stackPc[t] = "push"
      /\ Stack!Inside(stackPc[t]) = "copying" => stackPc[t] = "copy"
  BY DEF Stack!Operation, Stack!Inside, StackPlaces
<1>2. StackTypes'
  BY <1>1 DEF StackTypes
<1>3. StackLock'
  <2> SUFFICES ASSUME NEW u \in Caller, StackHolding(u)'
               PROVE  u = t
    BY DEF StackLock
  <2>1. u # t => StackHolding(u)
    BY DEF StackTypes, StackHolding
  <2>2. ~StackHolding(u)
    BY StackConstants DEF StackLock
  <2> QED
    BY <2>1, <2>2
<1>4. StackSent'
  BY <1>1 DEF StackTypes, StackSent, Stack!Operation
<1>5. StackCopies'
  <2>1. stackPc'[t] # "copy" /\ (stackPc'[t] = "copying" => copied[t] = <<>>)
    BY <1>1 DEF StackTypes, StackCopies
  <2>2. \A u \in Caller : u # t => stackPc'[u] = stackPc[u]
    BY DEF StackTypes
  <2>3. IsLowerEnd(<<>>, stackData) /\ <<>> # Wild
    <3>1. <<>> \in Seq(StackItem)
      OBVIOUS
    <3> QED
      BY <3>1, NoLowerEnd, StackConstants DEF StackTypes
  <2> QED
    BY <2>1, <2>2, <2>3 DEF StackCopies
<1> QED
  BY <1>2, <1>3, <1>4, <1>5

LEMMA StackLockOwnStep ==
  ASSUME StackIInv, NEW t \in Caller, listing = "3.5", Stack!LockOwn(t)
  PROVE  StackIInv'
<1> USE DEF StackIInv, Stack!LockOwn, Stack!Goto
<1>1. StackTypes'
  BY DEF StackTypes, StackPlaces
<1>2. StackLock'
  BY DEF StackTypes, StackLock, StackHolding
<1>3. StackSent'
  BY DEF StackTypes, StackSent
<1>4. StackCopies'
  BY DEF StackTypes, StackCopies
<1> QED
  BY <1>1, <1>2, <1>3, <1>4

(* Nobody else is inside when a thread that holds the mutex lets it go. *)
LEMMA StackUnlock ==
  ASSUME StackIInv, NEW t \in Caller, Stack!Goto(t, stackPc[t], "idle"), Stack!Unlock(t),
         UNCHANGED listing
  PROVE  /\ m' \in Caller \cup {NoThread}
         /\ StackLock'
BY DEF StackIInv, StackTypes, StackLock, StackHolding, Stack!Goto, Stack!Unlock

(* The copies that a change of the stack spoils are none of 6.1. *)
LEMMA StackSpoils ==
  ASSUME StackIInv, Stack!SpoilCopies
  PROVE  /\ copied' \in [Caller -> Seq(StackItem) \cup {Wild}]
         /\ \A t \in Caller : stackPc[t] = "copy" => copied'[t] = <<>>
BY DEF StackIInv, StackTypes, StackCopies, Stack!SpoilCopies

LEMMA StackPushStep ==
  ASSUME StackIInv, NEW t \in Caller, Stack!PushData(t)
  PROVE  StackIInv'
<1> USE DEF StackIInv, Stack!PushData, Stack!Goto
<1>1. sent[t] \in Nat /\ sent[t] + 1 \in 1 .. StackCalls /\ sent[t] + 1 <= stackCalls[t]
  BY StackConstants DEF StackTypes, StackSent
<1>2. <<t, sent[t] + 1>> \in StackItem
  BY <1>1 DEF StackItem
<1>3. stackData' \in Seq(StackItem)
  BY <1>2, PushItem DEF StackTypes
<1>a. /\ copied' \in [Caller -> Seq(StackItem) \cup {Wild}]
      /\ \A u \in Caller : stackPc[u] = "copy" => copied'[u] = <<>>
  BY StackSpoils
<1>4. m' \in Caller \cup {NoThread} /\ StackLock'
  BY StackUnlock
<1>5. StackTypes'
  <2>1. sent' \in [Caller -> 0 .. StackCalls]
    BY <1>1, StackConstants DEF StackTypes
  <2> QED
    BY <1>3, <1>4, <1>a, <2>1 DEF StackTypes, StackPlaces
<1>6. StackSent'
  BY <1>1 DEF StackTypes, StackSent
<1>7. StackCopies'
  <2>1. \A u \in Caller : ~(listing = "6.1" /\ stackPc'[u] = "copying")
    BY StackAlone DEF StackTypes, StackHolding
  <2>2. \A u \in Caller : stackPc'[u] = "copy" => stackPc[u] = "copy"
    BY DEF StackTypes
  <2> QED
    BY <1>a, <2>1, <2>2 DEF StackCopies
<1> QED
  BY <1>4, <1>5, <1>6, <1>7

LEMMA StackPopStep ==
  ASSUME StackIInv, NEW t \in Caller, Stack!PopData(t)
  PROVE  StackIInv'
<1> USE DEF StackIInv, Stack!PopData, Stack!Goto
<1>1. stackData' \in Seq(StackItem) /\ Head(stackData) \in StackItem
  BY PopItem DEF StackTypes
<1>2. m' \in Caller \cup {NoThread} /\ StackLock'
  BY StackUnlock
<1>a. /\ copied' \in [Caller -> Seq(StackItem) \cup {Wild}]
      /\ \A u \in Caller : stackPc[u] = "copy" => copied'[u] = <<>>
  BY StackSpoils
<1>3. StackTypes'
  BY <1>1, <1>2, <1>a DEF StackTypes, StackPlaces
<1>4. StackSent'
  BY DEF StackTypes, StackSent
<1>5. StackCopies'
  <2>1. \A u \in Caller : ~(listing = "6.1" /\ stackPc'[u] = "copying")
    BY StackAlone DEF StackTypes, StackHolding
  <2>2. \A u \in Caller : stackPc'[u] = "copy" => stackPc[u] = "copy"
    BY DEF StackTypes
  <2> QED
    BY <1>a, <2>1, <2>2 DEF StackCopies
<1> QED
  BY <1>2, <1>3, <1>4, <1>5

(* The steps that end a call and leave the stack as it is. *)
LEMMA StackLeaveStep ==
  ASSUME StackIInv, NEW t \in Caller,
         Stack!ThrowEmpty(t) \/ Stack!ReadThrows(t) \/ Stack!empty(t) \/ Stack!EndCopy(t)
  PROVE  StackIInv'
<1>1. /\ Stack!Goto(t, stackPc[t], "idle") /\ Stack!Unlock(t)
      /\ result' \in [Caller -> StackItem \cup {Nothing}]
      /\ UNCHANGED <<listing, stackData, stackCalls, sent, copied>>
  BY DEF StackIInv, StackTypes, Stack!ThrowEmpty, Stack!ReadThrows, Stack!empty, Stack!EndCopy,
         Stack!Goto
<1> USE <1>1 DEF StackIInv, Stack!Goto
<1>2. m' \in Caller \cup {NoThread} /\ StackLock'
  BY StackUnlock
<1>3. StackTypes'
  BY <1>2 DEF StackTypes, StackPlaces
<1>4. StackSent' /\ StackCopies'
  BY DEF StackTypes, StackSent, StackCopies
<1> QED
  BY <1>2, <1>3, <1>4

LEMMA StackReadTopStep ==
  ASSUME StackIInv, NEW t \in Caller, Stack!ReadTop(t)
  PROVE  StackIInv'
<1> USE DEF StackIInv, Stack!ReadTop, Stack!Goto
<1>1. StackTypes'
  BY DEF StackTypes, StackPlaces
<1>2. StackLock'
  BY DEF StackTypes, StackLock, StackHolding
<1>3. StackSent' /\ StackCopies'
  BY DEF StackTypes, StackSent, StackCopies
<1> QED
  BY <1>1, <1>2, <1>3

LEMMA StackCopyItemStep ==
  ASSUME StackIInv, NEW t \in Caller, Stack!CopyItem(t)
  PROVE  StackIInv'
<1> USE DEF StackIInv, Stack!CopyItem
<1> DEFINE x == stackData[Len(stackData) - Len(copied[t])]
<1>1. /\ stackData \in Seq(StackItem) /\ copied[t] \in Seq(StackItem)
      /\ Len(stackData) \in Nat /\ Len(copied[t]) \in Nat
      /\ Len(stackData) - Len(copied[t]) \in 1 .. Len(stackData)
      /\ x \in StackItem
  BY DEF StackTypes
<1>2. copied'[t] = <<x>> \o copied[t] /\ \A u \in Caller : u # t => copied'[u] = copied[u]
  BY DEF StackTypes
<1>3. /\ copied'[t] \in Seq(StackItem)
      /\ Len(copied'[t]) = Len(copied[t]) + 1
      /\ copied'[t][1] = x
      /\ \A i \in 1 .. Len(copied[t]) : copied'[t][i + 1] = copied[t][i]
  BY <1>1, <1>2, PushItem
<1>4. StackTypes'
  <2>1. copied' \in [Caller -> Seq(StackItem) \cup {Wild}]
    <3>1. copied' = [copied EXCEPT ![t] = copied'[t]]
      BY DEF StackTypes
    <3> QED
      BY <1>3, <3>1 DEF StackTypes
  <2> QED
    BY <2>1 DEF StackTypes
<1>5. StackLock' /\ StackSent'
  BY DEF StackLock, StackHolding, StackSent
<1>6. StackCopies'
  <2>1. listing = "6.1" => IsLowerEnd(copied'[t], stackData)
    <3>1. listing = "6.1" => IsLowerEnd(copied[t], stackData)
      BY DEF StackCopies
    <3> QED
      BY <1>1, <1>3, <3>1, LowerEnd
  <2>2. copied'[t] # Wild
    BY <1>3, StackConstants
  <2> QED
    BY <1>2, <2>1, <2>2 DEF StackCopies
<1> QED
  BY <1>4, <1>5, <1>6

LEMMA StackInductive ==
  ASSUME StackIInv, [Stack!Next]_stack
  PROVE  StackIInv'
<1>1. CASE UNCHANGED stack
  BY <1>1 DEF stack, StackIInv, StackTypes, StackLock, StackSent, StackCopies, StackHolding
<1>2. CASE Stack!Next
  <2>1. PICK t \in Caller :
          Stack!Call(t) \/ Stack!push(t) \/ Stack!pop(t)
            \/ (stackPc[t] = "empty" /\ Stack!Lock(t)) \/ Stack!empty(t) \/ Stack!copy(t)
    BY <1>2 DEF Stack!Next
  <2> QED
    BY <2>1, StackCallStep, StackLockStep, StackLockOwnStep, StackPushStep, StackPopStep,
       StackLeaveStep, StackReadTopStep,
       StackCopyItemStep
    DEF Stack!push, Stack!pop, Stack!copy, Stack!LockForCopy, Stack!LockOther
<1> QED
  BY <1>1, <1>2

LEMMA StackTypeOK == StackIInv => Stack!TypeOK
BY DEF StackIInv, StackTypes, StackLock, StackHolding, StackPlaces, Stack!TypeOK, Stack!Item,
       StackItem

-----------------------------------------------------------------------------
(* Refinement *)

LEMMA StackStart == Stack!Init => Stack!Abstract!Init
BY DEF Stack!Init, Stack!Abstract!Init

LEMMA StackRefines ==
  ASSUME StackIInv, [Stack!Next]_stack
  PROVE  [Stack!Abstract!Next]_<<stackData, sent, result>>
<1>1. CASE UNCHANGED stack
  BY <1>1 DEF stack
<1>2. ASSUME NEW t \in Caller, Stack!PushData(t)
      PROVE  Stack!Abstract!Push(t)
  <2>1. sent[t] < StackCalls
    BY <1>2, StackConstants DEF StackIInv, StackTypes, StackSent, Stack!PushData, Stack!Goto
  <2> QED
    BY <1>2, <2>1 DEF Stack!PushData, Stack!Abstract!Push
<1>3. ASSUME NEW t \in Caller, Stack!PopData(t)
      PROVE  Stack!Abstract!Pop(t)
  BY <1>3 DEF Stack!PopData, Stack!Abstract!Pop
<1>4. ASSUME NEW t \in Caller, Stack!ThrowEmpty(t)
      PROVE  Stack!Abstract!PopNothing(t)
  BY <1>4 DEF Stack!ThrowEmpty, Stack!Abstract!PopNothing
<1>5. CASE Stack!Next
  <2>1. PICK t \in Caller :
          Stack!Call(t) \/ Stack!push(t) \/ Stack!pop(t)
            \/ (stackPc[t] = "empty" /\ Stack!Lock(t)) \/ Stack!empty(t) \/ Stack!copy(t)
    BY <1>5 DEF Stack!Next
  <2>2. \/ Stack!PushData(t) \/ Stack!PopData(t) \/ Stack!ThrowEmpty(t)
        \/ UNCHANGED <<stackData, sent, result>>
    BY <2>1
    DEF Stack!Call, Stack!push, Stack!pop, Stack!copy, Stack!Lock, Stack!LockForCopy,
        Stack!LockOther, Stack!LockOwn, Stack!ReadTop, Stack!ReadThrows,
                Stack!empty, Stack!CopyItem, Stack!EndCopy
  <2> QED
    BY <1>2, <1>3, <1>4, <2>2 DEF Stack!Abstract!Next
<1> QED
  BY <1>1, <1>5

(* Only EndCopy ends a copy, and then all items have been copied. *)
LEMMA StackCopiesWhole ==
  ASSUME StackIInv, [Stack!Next]_stack
  PROVE  [Stack!CopyIsWhole]_stack
<1> SUFFICES ASSUME Stack!Next, NEW t \in Caller,
                    listing = "6.1", stackPc[t] = "copying", stackPc'[t] # "copying"
             PROVE  copied[t] = stackData
  BY DEF Stack!CopyIsWhole
<1>1. PICK u \in Caller :
        Stack!Call(u) \/ Stack!push(u) \/ Stack!pop(u)
          \/ (stackPc[u] = "empty" /\ Stack!Lock(u)) \/ Stack!empty(u) \/ Stack!copy(u)
  BY DEF Stack!Next
<1>2. u = t
  BY <1>1
  DEF StackIInv, StackTypes, Stack!Call, Stack!push, Stack!pop, Stack!copy, Stack!Lock,
      Stack!LockForCopy, Stack!LockOther, Stack!LockOwn, Stack!PushData,
              Stack!ThrowEmpty, Stack!ReadTop, Stack!ReadThrows, Stack!PopData, Stack!empty,
              Stack!CopyItem, Stack!EndCopy, Stack!Goto
<1>3. Stack!EndCopy(t)
  BY <1>1, <1>2
  DEF Stack!Call, Stack!push, Stack!pop, Stack!copy, Stack!Lock, Stack!LockForCopy,
      Stack!LockOther, Stack!LockOwn, Stack!PushData,
                    Stack!ThrowEmpty, Stack!ReadTop, Stack!ReadThrows, Stack!PopData,
                    Stack!empty, Stack!CopyItem, Stack!Goto, Stack!Operation
<1>4. /\ copied[t] \in Seq(StackItem) /\ stackData \in Seq(StackItem)
      /\ Len(copied[t]) = Len(stackData)
  BY <1>3 DEF StackIInv, StackTypes, StackCopies, Stack!EndCopy, IsLowerEnd
<1>5. \A i \in 1 .. Len(stackData) : copied[t][i] = stackData[i]
  <2> SUFFICES ASSUME NEW i \in 1 .. Len(stackData)
               PROVE  copied[t][i] = stackData[i]
    OBVIOUS
  <2>1. copied[t][i] = stackData[Len(stackData) - Len(copied[t]) + i]
    BY <1>4 DEF StackIInv, StackCopies, IsLowerEnd
  <2>2. Len(stackData) - Len(copied[t]) + i = i
    BY <1>4
  <2> QED
    BY <2>1, <2>2
<1> QED
  BY <1>4, <1>5, SeqEqual

-----------------------------------------------------------------------------
(* The queues that one thread uses *)

QueueItem == {User} \X (1 .. QueuePushes)

QueueTypes ==
  /\ version \in {"6.4", "6.5", "6.6"}
  /\ head \in QueueNode \cup {Null} /\ tail \in QueueNode \cup {Null, Wild}
  /\ queueNext \in [QueueNode -> QueueNode \cup {Null}]
  /\ queueData \in [QueueNode -> QueueItem \cup {Nothing}]
  /\ queueAlive \subseteq QueueNode /\ order \in Seq(QueueNode)
  /\ queueSent \in [{User} -> 0 .. QueuePushes]
  /\ queueResult \in [{User} -> QueueItem \cup {Nothing}]
  /\ shown \in Seq(QueueItem \cup {Nothing})
  /\ broken \in BOOLEAN

(* The nodes are those in the order, once each, and linked in it. *)
QueueLinks ==
  /\ \A i, j \in 1 .. Len(order) : order[i] = order[j] => i = j
  /\ \A n \in QueueNode : n \in queueAlive <=> \E i \in 1 .. Len(order) : n = order[i]
  /\ head = IF Len(order) = 0 THEN Null ELSE order[1]
  /\ \A i \in 1 .. Len(order) :
       queueNext[order[i]] = IF i = Len(order) THEN Null ELSE order[i + 1]

(* Where tail is, when it is in its place. *)
QueueTail ==
  /\ version # "6.4" => Len(order) > 0
  /\ Len(order) > 0 => tail = order[Len(order)]

QueueBroken == broken => Queue!Empty

QueueIInv == QueueTypes /\ QueueLinks /\ QueueTail /\ QueueBroken

(* The null pointer and the uninitialised one are no nodes. *)
LEMMA QueueConstants ==
  /\ Null \notin QueueNode /\ Wild \notin QueueNode \cup {Null}
  /\ QueuePushes \in Nat
BY ConstantsAssumption DEF Queue!ConstantsAssumption

LEMMA QueueInit ==
  ASSUME Queue!Init
  PROVE  QueueIInv
<1>3. /\ queueNext \in [QueueNode -> QueueNode \cup {Null}]
      /\ queueData \in [QueueNode -> QueueItem \cup {Nothing}]
      /\ queueSent \in [{User} -> 0 .. QueuePushes]
      /\ queueResult \in [{User} -> QueueItem \cup {Nothing}]
      /\ shown \in Seq(QueueItem \cup {Nothing}) /\ broken \in BOOLEAN
  <2>1. queueNext \in [QueueNode -> QueueNode \cup {Null}]
    BY DEF Queue!Init
  <2>2. queueData \in [QueueNode -> QueueItem \cup {Nothing}]
    BY DEF Queue!Init
  <2>3. queueSent \in [{User} -> 0 .. QueuePushes]
    BY QueueConstants DEF Queue!Init
  <2>4. shown \in Seq(QueueItem \cup {Nothing})
    BY DEF Queue!Init
  <2>5. queueResult \in [{User} -> QueueItem \cup {Nothing}] /\ broken \in BOOLEAN
    BY DEF Queue!Init
  <2> QED
    BY <2>1, <2>2, <2>3, <2>4, <2>5
<1>1. CASE version = "6.4"
  <2>1. head = Null /\ queueAlive = {} /\ order = <<>> /\ tail \in {Null, Wild}
    BY <1>1 DEF Queue!Init
  <2>2. Len(order) = 0 /\ order \in Seq(QueueNode)
    BY <2>1
  <2>3. QueueTypes
    BY <1>1, <1>3, <2>1, <2>2 DEF QueueTypes
  <2> QED
    BY <1>1, <2>1, <2>2, <2>3
    DEF Queue!Init, QueueIInv, QueueLinks, QueueTail, QueueBroken
<1>2. CASE version \in {"6.5", "6.6"}
  <2>1. PICK n \in QueueNode : head = n /\ tail = n /\ queueAlive = {n} /\ order = <<n>>
    BY <1>2 DEF Queue!Init
  <2>2. Len(order) = 1 /\ order \in Seq(QueueNode) /\ order[1] = n
    BY <2>1
  <2>3. QueueTypes
    BY <1>2, <1>3, <2>1, <2>2 DEF QueueTypes
  <2> QED
    BY <1>2, <2>1, <2>2, <2>3
    DEF Queue!Init, QueueIInv, QueueLinks, QueueTail, QueueBroken
<1> QED
  BY <1>1, <1>2 DEF Queue!Init

(* What the invariant says of the two ends. *)
LEMMA QueueEnds ==
  ASSUME QueueIInv
  PROVE  /\ Len(order) \in Nat
         /\ Len(order) > 0 => /\ head = order[1] /\ head \in queueAlive
                              /\ tail = order[Len(order)] /\ tail \in queueAlive
         /\ Len(order) = 0 => head = Null /\ queueAlive = {}
         /\ version # "6.4" => Len(order) > 0
         /\ version # "6.4" => (Queue!Empty <=> Len(order) = 1)
         /\ version = "6.4" => (Queue!Empty <=> Len(order) = 0)
         /\ \A i \in 1 .. Len(order) : order[i] \in queueAlive /\ order[i] \in QueueNode
<1>1. /\ Len(order) \in Nat
      /\ \A i \in 1 .. Len(order) : order[i] \in queueAlive /\ order[i] \in QueueNode
  BY DEF QueueIInv, QueueTypes, QueueLinks
<1>2. Len(order) > 0 => 1 \in 1 .. Len(order) /\ Len(order) \in 1 .. Len(order)
  BY <1>1
<1>3. Len(order) > 0 => head = order[1] /\ tail = order[Len(order)]
  BY <1>1, <1>2 DEF QueueIInv, QueueLinks, QueueTail
<1>4. Len(order) = 0 => head = Null /\ queueAlive = {}
  BY <1>1 DEF QueueIInv, QueueLinks, QueueTypes
<1>5. version # "6.4" => Len(order) > 0
  BY DEF QueueIInv, QueueTail
<1>6. /\ version # "6.4" => (Queue!Empty <=> Len(order) = 1)
      /\ version = "6.4" => (Queue!Empty <=> Len(order) = 0)
  <2>1. CASE version # "6.4"
    <3>1. order[1] = order[Len(order)] => 1 = Len(order)
      BY <1>2, <1>5, <2>1 DEF QueueIInv, QueueLinks
    <3> QED
      BY <1>3, <1>5, <2>1, <3>1 DEF Queue!Empty, Queue!dummy
  <2>2. CASE version = "6.4"
    BY <1>1, <1>2, <1>3, <1>4, <2>2, QueueConstants DEF Queue!Empty, Queue!dummy
  <2> QED
    BY <2>1, <2>2
<1> QED
  BY <1>1, <1>2, <1>3, <1>4, <1>5, <1>6

LEMMA QueuePushStep ==
  ASSUME QueueIInv, Queue!PushDummy, version # "6.4", UNCHANGED <<version, queueResult, shown,
         broken>>,
         ~broken
  PROVE  QueueIInv'
<1>1. PICK n \in QueueNode \ queueAlive :
        /\ queueAlive' = queueAlive \cup {n} /\ order' = Append(order, n)
        /\ queueData' = [queueData EXCEPT ![tail] = Queue!NewItem, ![n] = Nothing]
        /\ queueNext' = [queueNext EXCEPT ![tail] = n, ![n] = Null]
        /\ tail' = n
  BY DEF Queue!PushDummy
<1>2. /\ head' = head
      /\ queueSent[User] < QueuePushes /\ queueSent' = [queueSent EXCEPT ![User] = @ + 1]
  BY DEF Queue!PushDummy, Queue!CountPush
<1> DEFINE L == Len(order)
<1>3. /\ L \in Nat /\ L > 0 /\ order \in Seq(QueueNode)
      /\ head = order[1] /\ tail = order[L] /\ tail \in QueueNode /\ tail # n
      /\ \A i \in 1 .. L : order[i] \in queueAlive /\ order[i] # n
  BY QueueEnds, <1>1 DEF QueueIInv, QueueTypes
<1>4. /\ order' \in Seq(QueueNode) /\ Len(order') = L + 1
      /\ \A i \in 1 .. L : order'[i] = order[i]
      /\ order'[L + 1] = n
  BY <1>1, <1>3
<1>5. QueueTypes'
  <2>1. Queue!NewItem \in QueueItem
    BY <1>2, QueueConstants DEF QueueIInv, QueueTypes, QueueItem, Queue!NewItem
  <2>2. queueData' \in [QueueNode -> QueueItem \cup {Nothing}]
    BY <1>1, <2>1 DEF QueueIInv, QueueTypes
  <2>3. queueNext' \in [QueueNode -> QueueNode \cup {Null}]
    BY <1>1 DEF QueueIInv, QueueTypes
  <2>4. queueSent' \in [{User} -> 0 .. QueuePushes]
    BY <1>2, QueueConstants DEF QueueIInv, QueueTypes
  <2>5. head' \in QueueNode \cup {Null} /\ tail' \in QueueNode \cup {Null, Wild}
    BY <1>1, <1>2 DEF QueueIInv, QueueTypes
  <2> QED
    BY <1>1, <1>4, <2>2, <2>3, <2>4, <2>5 DEF QueueIInv, QueueTypes
<1>6. QueueLinks'
  <2>1. ASSUME NEW i \in 1 .. L + 1, NEW j \in 1 .. L + 1, order'[i] = order'[j]
        PROVE  i = j
    BY <1>3, <1>4, <2>1 DEF QueueIInv, QueueLinks
  <2>2. ASSUME NEW k \in QueueNode
        PROVE  k \in queueAlive' <=> \E i \in 1 .. L + 1 : k = order'[i]
    <3>1. ASSUME k \in queueAlive'
          PROVE  \E i \in 1 .. L + 1 : k = order'[i]
      <4>1. CASE k = n
        BY <4>1, <1>3, <1>4
      <4>2. CASE k \in queueAlive
        <5>1. PICK i \in 1 .. L : k = order[i]
          BY <4>2 DEF QueueIInv, QueueLinks
        <5>2. i \in 1 .. L + 1 /\ k = order'[i]
          BY <5>1, <1>3, <1>4
        <5> QED
          BY <5>2
      <4> QED
        BY <3>1, <4>1, <4>2, <1>1
    <3>2. ASSUME NEW i \in 1 .. L + 1, k = order'[i]
          PROVE  k \in queueAlive'
      BY <3>2, <1>1, <1>3, <1>4
    <3> QED
      BY <3>1, <3>2
  <2>3. head' = IF Len(order') = 0 THEN Null ELSE order'[1]
    BY <1>2, <1>3, <1>4
  <2>4. ASSUME NEW i \in 1 .. L + 1
        PROVE  queueNext'[order'[i]] = IF i = L + 1 THEN Null ELSE order'[i + 1]
    <3>1. CASE i = L + 1
      BY <3>1, <1>1, <1>4 DEF QueueIInv, QueueTypes
    <3>2. CASE i = L
      BY <3>2, <1>1, <1>3, <1>4 DEF QueueIInv, QueueTypes
    <3>3. CASE i \in 1 .. L - 1
      <4>1. i \in 1 .. L /\ L \in 1 .. L /\ i # L /\ i + 1 \in 1 .. L
        BY <3>3, <1>3
      <4>2. order[i] # order[L] /\ order[i] \in QueueNode /\ queueNext[order[i]] = order[i + 1]
        BY <4>1, <1>3, QueueEnds DEF QueueIInv, QueueLinks
      <4>3. queueNext'[order[i]] = queueNext[order[i]]
        BY <4>1, <4>2, <1>1, <1>3 DEF QueueIInv, QueueTypes
      <4> QED
        BY <4>1, <4>2, <4>3, <3>3, <1>3, <1>4
    <3> QED
      BY <3>1, <3>2, <3>3, <1>3
  <2> QED
    BY <2>1, <2>2, <2>3, <2>4, <1>4 DEF QueueLinks
<1>7. QueueTail'
  BY <1>1, <1>3, <1>4 DEF QueueTail
<1>8. QueueBroken'
  BY DEF QueueBroken
<1> QED
  BY <1>5, <1>6, <1>7, <1>8 DEF QueueIInv

LEMMA QueuePlainStep ==
  ASSUME QueueIInv, Queue!PushPlain, version = "6.4",
         UNCHANGED <<version, queueResult, shown, broken>>, ~broken
  PROVE  QueueIInv'
<1>1. PICK n \in QueueNode \ queueAlive :
        /\ queueAlive' = queueAlive \cup {n} /\ order' = Append(order, n)
        /\ queueData' = [queueData EXCEPT ![n] = Queue!NewItem]
        /\ queueNext' =
             [k \in QueueNode |-> IF k = tail THEN n ELSE IF k = n THEN Null ELSE queueNext[k]]
        /\ head' = IF tail = Null THEN n ELSE head
        /\ tail' = n
  BY DEF Queue!PushPlain
<1>2. /\ tail \in queueAlive \cup {Null}
      /\ queueSent[User] < QueuePushes /\ queueSent' = [queueSent EXCEPT ![User] = @ + 1]
  BY DEF Queue!PushPlain, Queue!CountPush
<1> DEFINE L == Len(order)
<1>3. /\ L \in Nat /\ order \in Seq(QueueNode)
      /\ L > 0 => head = order[1] /\ tail = order[L] /\ tail \in QueueNode
      /\ L = 0 => tail = Null
      /\ tail # n
      /\ \A i \in 1 .. L : order[i] \in queueAlive /\ order[i] # n
  BY QueueEnds, QueueConstants, <1>1, <1>2 DEF QueueIInv, QueueTypes
<1>4. /\ order' \in Seq(QueueNode) /\ Len(order') = L + 1
      /\ \A i \in 1 .. L : order'[i] = order[i]
      /\ order'[L + 1] = n
  BY <1>1, <1>3
<1>5. QueueTypes'
  <2>1. Queue!NewItem \in QueueItem
    BY <1>2, QueueConstants DEF QueueIInv, QueueTypes, QueueItem, Queue!NewItem
  <2>2. queueData' \in [QueueNode -> QueueItem \cup {Nothing}]
    BY <1>1, <2>1 DEF QueueIInv, QueueTypes
  <2>3. queueNext' \in [QueueNode -> QueueNode \cup {Null}]
    BY <1>1 DEF QueueIInv, QueueTypes
  <2>4. queueSent' \in [{User} -> 0 .. QueuePushes]
    BY <1>2, QueueConstants DEF QueueIInv, QueueTypes
  <2>5. head' \in QueueNode \cup {Null} /\ tail' \in QueueNode \cup {Null, Wild}
    BY <1>1, <1>2 DEF QueueIInv, QueueTypes
  <2> QED
    BY <1>1, <1>4, <2>2, <2>3, <2>4, <2>5 DEF QueueIInv, QueueTypes
<1>6. QueueLinks'
  <2>1. ASSUME NEW i \in 1 .. L + 1, NEW j \in 1 .. L + 1, order'[i] = order'[j]
        PROVE  i = j
    BY <1>3, <1>4, <2>1 DEF QueueIInv, QueueLinks
  <2>2. ASSUME NEW k \in QueueNode
        PROVE  k \in queueAlive' <=> \E i \in 1 .. L + 1 : k = order'[i]
    <3>1. ASSUME k \in queueAlive'
          PROVE  \E i \in 1 .. L + 1 : k = order'[i]
      <4>1. CASE k = n
        BY <4>1, <1>3, <1>4
      <4>2. CASE k \in queueAlive
        <5>1. PICK i \in 1 .. L : k = order[i]
          BY <4>2 DEF QueueIInv, QueueLinks
        <5>2. i \in 1 .. L + 1 /\ k = order'[i]
          BY <5>1, <1>3, <1>4
        <5> QED
          BY <5>2
      <4> QED
        BY <3>1, <4>1, <4>2, <1>1
    <3>2. ASSUME NEW i \in 1 .. L + 1, k = order'[i]
          PROVE  k \in queueAlive'
      BY <3>2, <1>1, <1>3, <1>4
    <3> QED
      BY <3>1, <3>2
  <2>3. head' = IF Len(order') = 0 THEN Null ELSE order'[1]
    BY <1>1, <1>3, <1>4, QueueConstants
  <2>4. ASSUME NEW i \in 1 .. L + 1
        PROVE  queueNext'[order'[i]] = IF i = L + 1 THEN Null ELSE order'[i + 1]
    <3>1. CASE i = L + 1
      BY <3>1, <1>1, <1>3, <1>4
    <3>2. CASE i = L
      BY <3>2, <1>1, <1>3, <1>4
    <3>3. CASE i \in 1 .. L - 1
      <4>1. i \in 1 .. L /\ L \in 1 .. L /\ i # L /\ i + 1 \in 1 .. L /\ L > 0
        BY <3>3, <1>3
      <4>2. order[i] # order[L] /\ order[i] \in QueueNode /\ queueNext[order[i]] = order[i + 1]
        BY <4>1, <1>3, QueueEnds DEF QueueIInv, QueueLinks
      <4>3. queueNext'[order[i]] = queueNext[order[i]]
        BY <4>1, <4>2, <1>1, <1>3
      <4> QED
        BY <4>1, <4>2, <4>3, <3>3, <1>3, <1>4
    <3> QED
      BY <3>1, <3>2, <3>3, <1>3
  <2> QED
    BY <2>1, <2>2, <2>3, <2>4, <1>4 DEF QueueLinks
<1>7. QueueTail'
  BY <1>1, <1>3, <1>4 DEF QueueTail
<1>8. QueueBroken'
  BY DEF QueueBroken
<1> QED
  BY <1>5, <1>6, <1>7, <1>8 DEF QueueIInv

LEMMA QueuePopStep ==
  ASSUME QueueIInv, Queue!Pop, ~broken
  PROVE  QueueIInv'
<1>1. /\ ~Queue!Empty
      /\ queueResult' = [queueResult EXCEPT ![User] = queueData[head]]
      /\ head' = queueNext[head]
      /\ queueNext' = [queueNext EXCEPT ![head] = Null]
      /\ queueAlive' = queueAlive \ {head} /\ order' = Tail(order)
      /\ UNCHANGED <<version, tail, queueData, queueSent, shown, broken>>
  BY DEF Queue!Pop
<1> DEFINE L == Len(order)
<1>3. /\ L \in Nat /\ L > 0 /\ order \in Seq(QueueNode) /\ (version # "6.4" => L > 1)
      /\ head = order[1] /\ tail = order[L] /\ head \in QueueNode
      /\ \A i \in 1 .. L : order[i] \in queueAlive
  <2>1. L \in Nat /\ order \in Seq(QueueNode) /\ queueAlive \subseteq QueueNode
    BY DEF QueueIInv, QueueTypes
  <2>2. (version # "6.4" => L # 1 /\ L > 0) /\ (version = "6.4" => L # 0)
    BY QueueEnds, <1>1
  <2>3. L > 0 /\ (version # "6.4" => L > 1)
    <3>1. CASE version # "6.4"
      <4>1. \A x \in Nat : x # 1 /\ x > 0 => x > 1
        OBVIOUS
      <4> QED
        BY <2>1, <2>2, <3>1, <4>1
    <3>2. CASE version = "6.4"
      BY <2>1, <2>2, <3>2
    <3> QED
      BY <3>1, <3>2
  <2> QED
    BY <2>1, <2>3, QueueEnds
<1>4. /\ order' \in Seq(QueueNode) /\ Len(order') = L - 1
      /\ \A i \in 1 .. L - 1 : order'[i] = order[i + 1] /\ order[i + 1] # head
                               /\ order[i + 1] \in QueueNode
  <2>1. order # <<>>
    BY <1>3
  <2>2. order' \in Seq(QueueNode) /\ Len(order') = L - 1
    BY <1>1, <1>3, <2>1
  <2>3. ASSUME NEW i \in 1 .. L - 1
        PROVE  order'[i] = order[i + 1] /\ order[i + 1] # head /\ order[i + 1] \in QueueNode
    <3>1. i + 1 \in 1 .. L /\ 1 \in 1 .. L /\ i + 1 # 1
      BY <1>3
    <3>2. order[i + 1] # order[1]
      BY <3>1 DEF QueueIInv, QueueLinks
    <3>3. order'[i] = order[i + 1] /\ order[i + 1] \in QueueNode
      BY <1>1, <1>3, <2>1, <3>1
    <3> QED
      BY <3>2, <3>3, <1>3
  <2> QED
    BY <2>2, <2>3
<1>5. QueueTypes'
  <2>1. queueNext' \in [QueueNode -> QueueNode \cup {Null}]
    BY <1>1 DEF QueueIInv, QueueTypes
  <2>2. head' \in QueueNode \cup {Null}
    BY <1>1, <1>3 DEF QueueIInv, QueueTypes
  <2>3. queueResult' \in [{User} -> QueueItem \cup {Nothing}]
    BY <1>1, <1>3 DEF QueueIInv, QueueTypes
  <2> QED
    BY <1>1, <1>4, <2>1, <2>2, <2>3 DEF QueueIInv, QueueTypes
<1>6. QueueLinks'
  <2>1. ASSUME NEW i \in 1 .. L - 1, NEW j \in 1 .. L - 1, order'[i] = order'[j]
        PROVE  i = j
    <3>1. i + 1 \in 1 .. L /\ j + 1 \in 1 .. L /\ order[i + 1] = order[j + 1]
      BY <2>1, <1>3, <1>4
    <3>2. i + 1 = j + 1
      BY <3>1 DEF QueueIInv, QueueLinks
    <3> QED
      BY <3>2
  <2>2. ASSUME NEW k \in QueueNode
        PROVE  k \in queueAlive' <=> \E i \in 1 .. L - 1 : k = order'[i]
    <3>1. ASSUME k \in queueAlive'
          PROVE  \E i \in 1 .. L - 1 : k = order'[i]
      <4>1. PICK i \in 1 .. L : k = order[i]
        BY <3>1, <1>1 DEF QueueIInv, QueueLinks
      <4>2. i # 1
        BY <4>1, <3>1, <1>1, <1>3
      <4>3. i - 1 \in 1 .. L - 1 /\ (i - 1) + 1 = i
        BY <4>2, <1>3
      <4>4. order'[i - 1] = k
        BY <4>1, <4>3, <1>4
      <4> QED
        BY <4>3, <4>4
    <3>2. ASSUME NEW i \in 1 .. L - 1, k = order'[i]
          PROVE  k \in queueAlive'
      <4>1. i + 1 \in 1 .. L
        BY <1>3
      <4> QED
        BY <4>1, <3>2, <1>1, <1>3, <1>4
    <3> QED
      BY <3>1, <3>2
  <2>3. head' = IF L - 1 = 0 THEN Null ELSE order'[1]
    <3>1. 1 \in 1 .. L /\ (L - 1 # 0 => 1 \in 1 .. L - 1) /\ (L - 1 = 0 => 1 = L)
      <4>1. \A x \in Nat : x > 0 => /\ 1 \in 1 .. x /\ (x - 1 # 0 => 1 \in 1 .. x - 1)
                                    /\ x - 1 = 0 => 1 = x
        OBVIOUS
      <4> QED
        BY <1>3, <4>1
    <3>2. queueNext[order[1]] = IF 1 = L THEN Null ELSE order[1 + 1]
      BY <3>1 DEF QueueIInv, QueueLinks
    <3> QED
      BY <3>1, <3>2, <1>1, <1>3, <1>4
  <2>4. ASSUME NEW i \in 1 .. L - 1
        PROVE  queueNext'[order'[i]] = IF i = L - 1 THEN Null ELSE order'[i + 1]
    <3>1. i + 1 \in 1 .. L /\ (i # L - 1 => i + 1 \in 1 .. L - 1)
      BY <1>3
    <3>2. queueNext[order[i + 1]] = IF i + 1 = L THEN Null ELSE order[(i + 1) + 1]
      BY <3>1 DEF QueueIInv, QueueLinks
    <3>3. queueNext'[order[i + 1]] = queueNext[order[i + 1]]
      BY <1>1, <1>4 DEF QueueIInv, QueueTypes
    <3>4. i # L - 1 => order'[i + 1] = order[(i + 1) + 1]
      BY <3>1, <1>4
    <3>5. i + 1 = L <=> i = L - 1
      BY <1>3
    <3> QED
      BY <3>2, <3>3, <3>4, <3>5, <1>4
  <2> QED
    BY <2>1, <2>2, <2>3, <2>4, <1>4 DEF QueueLinks
<1>7. QueueTail'
  <2>1. L > 1 => L - 1 \in 1 .. L - 1 /\ (L - 1) + 1 = L
    BY <1>3
  <2>2. L > 1 => order'[L - 1] = order[L]
    BY <2>1, <1>4
  <2>3. version # "6.4" => L > 1
    BY <1>3
  <2> QED
    BY <1>1, <1>3, <1>4, <2>2, <2>3 DEF QueueTail
<1>8. QueueBroken'
  BY <1>1 DEF QueueBroken
<1> QED
  BY <1>5, <1>6, <1>7, <1>8 DEF QueueIInv

LEMMA QueueInductive ==
  ASSUME QueueIInv, [Queue!Next]_queue
  PROVE  QueueIInv'
<1>1. CASE UNCHANGED queue
  BY <1>1 DEF queue, QueueIInv, QueueTypes, QueueLinks, QueueTail, QueueBroken,
              Queue!Empty, Queue!dummy
<1>2. ASSUME ~broken, Queue!Break, Queue!Empty
      PROVE  QueueIInv'
  BY <1>2 DEF Queue!Break, QueueIInv, QueueTypes, QueueLinks, QueueTail, QueueBroken,
              Queue!Empty, Queue!dummy
<1>3. ASSUME ~broken, Queue!PopNothing
      PROVE  QueueIInv'
  <2>1. queueResult' \in [{User} -> QueueItem \cup {Nothing}]
    BY <1>3 DEF Queue!PopNothing, QueueIInv, QueueTypes
  <2> QED
    BY <2>1, <1>3 DEF Queue!PopNothing, QueueIInv, QueueTypes, QueueLinks, QueueTail,
                      QueueBroken
<1>4. ASSUME ~broken, NEW n, NEW stop, Queue!Show(n, stop)
      PROVE  QueueIInv'
  <2>1. PICK w \in UNION {[1 .. k -> QueueNode] : k \in 0 .. queueSent[User]} :
          shown' = [i \in 1 .. Len(w) |-> queueData[w[i]]]
    BY <1>4 DEF Queue!Show
  <2>2. w \in Seq(QueueNode) /\ Len(w) \in Nat /\ \A i \in 1 .. Len(w) : w[i] \in QueueNode
    <3>1. PICK k \in 0 .. queueSent[User] : w \in [1 .. k -> QueueNode]
      OBVIOUS
    <3>2. queueSent[User] \in Nat
      BY QueueConstants DEF QueueIInv, QueueTypes
    <3>3. k \in Nat
      BY <3>2
    <3>4. Len(w) = k
      BY <3>1, <3>3
    <3> QED
      BY <3>1, <3>3, <3>4
  <2>3. \A i \in 1 .. Len(w) : queueData[w[i]] \in QueueItem \cup {Nothing}
    BY <2>2 DEF QueueIInv, QueueTypes
  <2>4. shown' \in Seq(QueueItem \cup {Nothing})
    BY <2>1, <2>2, <2>3
  <2> QED
    BY <1>4, <2>4 DEF Queue!Show, QueueIInv, QueueTypes, QueueLinks, QueueTail, QueueBroken
<1>5. ASSUME ~broken, Queue!push
      PROVE  QueueIInv'
  <2>1. CASE version = "6.4" /\ tail \notin queueAlive \cup {Null} /\ Queue!Break
    <3>1. Queue!Empty
      BY <2>1, QueueEnds
    <3> QED
      BY <1>2, <1>5, <2>1, <3>1
  <2>2. CASE /\ IF version # "6.4" THEN Queue!PushDummy ELSE Queue!PushPlain
             /\ UNCHANGED <<version, queueResult, shown, broken>>
    BY <1>5, <2>2, QueuePushStep, QueuePlainStep
  <2> QED
    BY <1>5, <2>1, <2>2 DEF Queue!push, Queue!dummy
<1>6. ASSUME ~broken, Queue!do_job
      PROVE  QueueIInv'
  <2>1. CASE queueNext[head] # Null
    BY <1>4, <1>6, <2>1 DEF Queue!do_job
  <2>2. CASE queueNext[head] = Null
    <3>1. version # "6.4" /\ Queue!Break
      BY <1>6, <2>2 DEF Queue!do_job, Queue!dummy
    <3>2. Len(order) \in Nat /\ Len(order) > 0 /\ head = order[1]
      BY <3>1, QueueEnds
    <3>3. queueNext[order[1]] = IF 1 = Len(order) THEN Null ELSE order[1 + 1]
      <4>1. 1 \in 1 .. Len(order)
        BY <3>2
      <4> QED
        BY <4>1 DEF QueueIInv, QueueLinks
    <3>4. Len(order) # 1 => order[1 + 1] \in QueueNode
      <4>1. Len(order) # 1 => 1 + 1 \in 1 .. Len(order)
        BY <3>2
      <4> QED
        BY <4>1, QueueEnds
    <3>5. Len(order) = 1
      BY <2>2, <3>2, <3>3, <3>4, QueueConstants
    <3> QED
      BY <1>2, <1>6, <3>1, <3>5, QueueEnds
  <2> QED
    BY <2>1, <2>2
<1> QED
  BY <1>1, <1>3, <1>4, <1>5, <1>6, QueuePopStep DEF Queue!Next, Queue!try_pop, Queue!show

LEMMA QueueTypeOK ==
  ASSUME QueueIInv
  PROVE  Queue!TypeOK
BY DEF QueueIInv, QueueTypes, QueueItem, Queue!TypeOK, Queue!Item

LEMMA QueueOnlyEmptyMisused ==
  ASSUME QueueIInv
  PROVE  Queue!OnlyEmptyMisused
<1>1. order \in Seq(QueueNode) /\ DOMAIN order = 1 .. Len(order) /\ Len(order) \in Nat
  BY DEF QueueIInv, QueueTypes
<1>2. queueAlive = {order[i] : i \in DOMAIN order}
  <2>1. ASSUME NEW n
        PROVE  n \in queueAlive <=> \E i \in 1 .. Len(order) : n = order[i]
    <3>1. n \in queueAlive => n \in QueueNode
      BY DEF QueueIInv, QueueTypes
    <3>2. \A i \in 1 .. Len(order) : order[i] \in QueueNode
      BY <1>1
    <3> QED
      BY <3>1, <3>2 DEF QueueIInv, QueueLinks
  <2> QED
    BY <1>1, <2>1
<1>3. Queue!Linked
  <2>1. order = <<>> <=> Len(order) = 0
    BY <1>1
  <2> QED
    BY <1>1, <2>1 DEF QueueIInv, QueueLinks, Queue!Linked
<1> QED
  BY <1>2, <1>3 DEF QueueIInv, QueueBroken, Queue!OnlyEmptyMisused

LEMMA QueueStart ==
  ASSUME Queue!Init
  PROVE  Queue!Abstract!Init
<1>1. Len(order) = IF version # "6.4" THEN 1 ELSE 0
  BY DEF Queue!Init
<1>2. Queue!Content = <<>>
  <2>1. Queue!Content = [i \in 1 .. 0 |-> queueData[order[i]]]
    BY <1>1 DEF Queue!Content, Queue!dummy
  <2> QED
    BY <2>1
<1> QED
  BY <1>2 DEF Queue!Init, Queue!Abstract!Init

(* How many items there are, and which. *)
HoldsItems ==
  /\ Queue!Content \in Seq(QueueItem \cup {Nothing})
  /\ Len(Queue!Content) = IF version # "6.4" THEN Len(order) - 1 ELSE Len(order)
  /\ \A i \in 1 .. Len(Queue!Content) :
       Queue!Content[i] = queueData[order[i]] /\ i \in 1 .. Len(order)

LEMMA QueueContent == QueueIInv => HoldsItems
<1> SUFFICES ASSUME QueueIInv
             PROVE  HoldsItems
  OBVIOUS
<1>1. PICK count : count = IF version # "6.4" THEN Len(order) - 1 ELSE Len(order)
  OBVIOUS
<1>2. count \in Nat /\ count <= Len(order) /\ Len(order) \in Nat
  BY <1>1, QueueEnds
<1>3. Queue!Content = [i \in 1 .. count |-> queueData[order[i]]]
  BY <1>1 DEF Queue!Content, Queue!dummy
<1>4. \A i \in 1 .. count : i \in 1 .. Len(order)
  BY <1>2
<1>5. \A i \in 1 .. count : queueData[order[i]] \in QueueItem \cup {Nothing}
  BY <1>4, QueueEnds DEF QueueIInv, QueueTypes
<1>6. /\ Queue!Content \in Seq(QueueItem \cup {Nothing})
      /\ Len(Queue!Content) = count
  BY <1>2, <1>3, <1>5
<1> QED
  BY <1>1, <1>3, <1>4, <1>6 DEF HoldsItems

LEMMA QueuePushRefines ==
  ASSUME QueueIInv, QueueIInv', Queue!push, ~broken
  PROVE  \/ Queue!Abstract!Push(User)
         \/ UNCHANGED <<Queue!Content, queueSent, queueResult>>
<1> DEFINE C == Queue!Content
<1>0. CASE Queue!Break
  BY <1>0 DEF Queue!Break, Queue!Content, Queue!dummy
<1>a. CASE ~Queue!Break
  <2>1. version' = version /\ queueResult' = queueResult
    BY <1>a DEF Queue!push
  <2>2. /\ C \in Seq(QueueItem \cup {Nothing}) /\ C' \in Seq(QueueItem \cup {Nothing})
        /\ Len(C) = IF version # "6.4" THEN Len(order) - 1 ELSE Len(order)
        /\ Len(C') = IF version # "6.4" THEN Len(order') - 1 ELSE Len(order')
        /\ \A i \in 1 .. Len(C) : C[i] = queueData[order[i]] /\ i \in 1 .. Len(order)
        /\ \A i \in 1 .. Len(C') : C'[i] = queueData'[order'[i]]
    <3>1. /\ C' \in Seq(QueueItem \cup {Nothing})
          /\ Len(C') = IF version' # "6.4" THEN Len(order') - 1 ELSE Len(order')
          /\ \A i \in 1 .. Len(C') : C'[i] = queueData'[order'[i]]
      <4>1. HoldsItems'
        BY QueueIInv', QueueContent, PTL
      <4> QED
        BY <4>1 DEF HoldsItems
    <3> QED
      BY <2>1, <3>1, QueueContent DEF HoldsItems
  <2>3. /\ queueSent[User] < QueuePushes /\ queueSent' = [queueSent EXCEPT ![User] = @ + 1]
        /\ \E n \in QueueNode \ queueAlive :
             /\ order' = Append(order, n)
             /\ queueData' = IF version # "6.4"
                             THEN [queueData EXCEPT ![tail] = Queue!NewItem, ![n] = Nothing]
                             ELSE [queueData EXCEPT ![n] = Queue!NewItem]
    <3>1. CASE version # "6.4"
      <4>1. Queue!PushDummy
        BY <1>a, <3>1 DEF Queue!push, Queue!dummy
      <4> QED
        BY <3>1, <4>1 DEF Queue!PushDummy, Queue!CountPush
    <3>2. CASE version = "6.4"
      <4>1. Queue!PushPlain
        BY <1>a, <3>2 DEF Queue!push, Queue!dummy
      <4> QED
        BY <3>2, <4>1 DEF Queue!PushPlain, Queue!CountPush
    <3> QED
      BY <3>1, <3>2
  <2>4. PICK n \in QueueNode \ queueAlive :
          /\ order' = Append(order, n)
          /\ queueData' = IF version # "6.4"
                          THEN [queueData EXCEPT ![tail] = Queue!NewItem, ![n] = Nothing]
                          ELSE [queueData EXCEPT ![n] = Queue!NewItem]
    BY <2>3
  <2>5. /\ order \in Seq(QueueNode) /\ Len(order) \in Nat
        /\ queueData \in [QueueNode -> QueueItem \cup {Nothing}]
        /\ Len(order') = Len(order) + 1 /\ order'[Len(order) + 1] = n
        /\ \A i \in 1 .. Len(order) : order'[i] = order[i] /\ order[i] # n
                                      /\ order[i] \in QueueNode
    <3>1. /\ order \in Seq(QueueNode) /\ Len(order) \in Nat
          /\ queueData \in [QueueNode -> QueueItem \cup {Nothing}]
          /\ \A i \in 1 .. Len(order) : order[i] # n /\ order[i] \in QueueNode
      BY <2>4, QueueEnds DEF QueueIInv, QueueTypes
    <3> QED
      BY <2>4, <3>1
  <2>6. Len(C') = Len(C) + 1
    BY <2>2, <2>5
  <2>7. C'[Len(C) + 1] = Queue!NewItem
    <3>1. Len(C) + 1 \in 1 .. Len(C')
      BY <2>2, <2>6
    <3>2. C'[Len(C) + 1] = queueData'[order'[Len(C) + 1]]
      BY <2>2, <3>1
    <3>3. CASE version # "6.4"
      <4>1. Len(C) + 1 = Len(order) /\ Len(order) > 0
        BY <2>2, <2>5, <3>3, QueueEnds
      <4>2. Len(order) \in 1 .. Len(order) /\ order[Len(order)] = tail
        BY <4>1, <2>5, QueueEnds
      <4>3. order'[Len(C) + 1] = tail /\ tail \in QueueNode /\ tail # n
        BY <4>1, <4>2, <2>5
      <4> QED
        BY <3>2, <3>3, <4>3, <2>4, <2>5
    <3>4. CASE version = "6.4"
      BY <3>2, <3>4, <2>2, <2>4, <2>5
    <3> QED
      BY <3>3, <3>4
  <2>8. ASSUME NEW i \in 1 .. Len(C)
        PROVE  C'[i] = C[i]
    <3>1. /\ i \in 1 .. Len(C') /\ i \in 1 .. Len(order)
          /\ C'[i] = queueData'[order'[i]] /\ C[i] = queueData[order[i]]
      BY <2>2, <2>6
    <3>2. order'[i] = order[i] /\ order[i] # n /\ order[i] \in QueueNode
      BY <2>5, <3>1
    <3>3. CASE version # "6.4"
      <4>1. i # Len(order) /\ Len(order) \in 1 .. Len(order) /\ Len(order) > 0
        BY <2>2, <2>5, <3>3
      <4>2. order[i] # tail
        BY <3>1, <4>1, QueueEnds DEF QueueIInv, QueueLinks
      <4> QED
        BY <3>1, <3>2, <3>3, <4>2, <2>4, <2>5
    <3>4. CASE version = "6.4"
      BY <3>1, <3>2, <3>4, <2>4, <2>5
    <3> QED
      BY <3>3, <3>4
  <2>9. C' = Append(C, Queue!NewItem)
    <3>1. Queue!NewItem \in QueueItem
      BY <2>3, QueueConstants DEF QueueIInv, QueueTypes, QueueItem, Queue!NewItem
    <3>2. PICK longer : longer = Append(C, Queue!NewItem)
      OBVIOUS
    <3>3. /\ longer \in Seq(QueueItem \cup {Nothing}) /\ Len(longer) = Len(C) + 1
          /\ \A i \in 1 .. Len(C) : longer[i] = C[i]
          /\ longer[Len(C) + 1] = Queue!NewItem
      <4> HIDE DEF C
      <4> QED
        BY <2>2, <3>1, <3>2
    <3>4. \A i \in 1 .. Len(C') : C'[i] = longer[i]
      <4> HIDE DEF C
      <4>1. Len(C) \in Nat
        BY <2>2
      <4>2. \A i \in 1 .. Len(C) + 1 : i \in 1 .. Len(C) \/ i = Len(C) + 1
        BY <4>1
      <4> QED
        BY <2>6, <2>7, <2>8, <3>3, <4>2
    <3>5. C' = longer
      <4> HIDE DEF C
      <4> QED
        BY <2>2, <2>6, <3>3, <3>4, SeqEqual
    <3> QED
      BY <3>2, <3>5
  <2> QED
    BY <2>1, <2>3, <2>9 DEF Queue!Abstract!Push, Queue!NewItem
<1> QED
  BY <1>0, <1>a

LEMMA QueuePopRefines ==
  ASSUME QueueIInv, QueueIInv', Queue!Pop
  PROVE  Queue!Abstract!Pop(User)
<1> DEFINE C == Queue!Content
<1>1. /\ ~Queue!Empty
      /\ queueResult' = [queueResult EXCEPT ![User] = queueData[head]]
      /\ order' = Tail(order)
      /\ UNCHANGED <<version, queueData, queueSent>>
  BY DEF Queue!Pop
<1>2. /\ C \in Seq(QueueItem \cup {Nothing}) /\ C' \in Seq(QueueItem \cup {Nothing})
      /\ Len(C) = IF version # "6.4" THEN Len(order) - 1 ELSE Len(order)
      /\ Len(C') = IF version # "6.4" THEN Len(order') - 1 ELSE Len(order')
      /\ \A i \in 1 .. Len(C) : C[i] = queueData[order[i]] /\ i \in 1 .. Len(order)
      /\ \A i \in 1 .. Len(C') : C'[i] = queueData[order'[i]]
  <2>1. /\ C' \in Seq(QueueItem \cup {Nothing})
        /\ Len(C') = IF version' # "6.4" THEN Len(order') - 1 ELSE Len(order')
        /\ \A i \in 1 .. Len(C') : C'[i] = queueData'[order'[i]]
    <3>1. HoldsItems'
      BY QueueIInv', QueueContent, PTL
    <3> QED
      BY <3>1 DEF HoldsItems
  <2> QED
    BY <1>1, <2>1, QueueContent DEF HoldsItems
<1>3. Len(C) \in Nat /\ Len(C) > 0 /\ Len(order) \in Nat /\ order \in Seq(QueueNode)
  <2>1. Len(order) \in Nat /\ order \in Seq(QueueNode)
    BY DEF QueueIInv, QueueTypes
  <2>2. CASE version # "6.4"
    <3>1. Len(order) # 1 /\ Len(order) > 0
      BY <1>1, <2>2, QueueEnds
    <3>2. \A x \in Nat : x # 1 /\ x > 0 => x - 1 > 0 /\ x - 1 \in Nat
      OBVIOUS
    <3> QED
      BY <1>2, <2>1, <2>2, <3>1, <3>2
  <2>3. CASE version = "6.4"
    <3>1. Len(order) # 0
      BY <1>1, <2>3, QueueEnds
    <3> QED
      BY <1>2, <2>1, <2>3, <3>1
  <2> QED
    BY <2>2, <2>3
<1>4. Len(order) > 0 /\ order # <<>>
  BY <1>2, <1>3
<1>5. /\ Len(order') = Len(order) - 1
      /\ \A i \in 1 .. Len(order) - 1 : order'[i] = order[i + 1]
  BY <1>1, <1>3, <1>4
<1>6. Len(C') = Len(C) - 1
  BY <1>2, <1>3, <1>5
<1>7. C # <<>> /\ C' = Tail(C) /\ Head(C) = queueData[head]
  <2> HIDE DEF C
  <2>1. C # <<>>
    BY <1>3
  <2>2. Head(C) = queueData[head]
    <3>1. 1 \in 1 .. Len(C) /\ Head(C) = C[1]
      BY <1>2, <1>3, <2>1
    <3> QED
      BY <3>1, <1>2, <1>4, QueueEnds
  <2>3. Tail(C) \in Seq(QueueItem \cup {Nothing}) /\ Len(Tail(C)) = Len(C) - 1
    BY <1>2, <2>1
  <2>4. ASSUME NEW i \in 1 .. Len(C) - 1
        PROVE  C'[i] = Tail(C)[i]
    <3>1. Tail(C)[i] = C[i + 1]
      BY <1>2, <2>1
    <3>2. i + 1 \in 1 .. Len(C) /\ i \in 1 .. Len(C')
      BY <1>3, <1>6
    <3>3. C[i + 1] = queueData[order[i + 1]] /\ i + 1 \in 1 .. Len(order)
      BY <1>2, <3>2
    <3>4. order'[i] = order[i + 1]
      BY <1>3, <1>5, <3>3
    <3> QED
      BY <1>2, <3>1, <3>2, <3>3, <3>4
  <2>5. C' = Tail(C)
    BY <1>2, <1>6, <2>3, <2>4, SeqEqual
  <2> QED
    BY <2>1, <2>2, <2>5
<1> QED
  BY <1>1, <1>7 DEF Queue!Abstract!Pop

LEMMA QueueRefines ==
  ASSUME QueueIInv, QueueIInv', [Queue!Next]_queue
  PROVE  [Queue!Abstract!Next]_<<Queue!Content, queueSent, queueResult>>
<1>1. CASE UNCHANGED queue
  BY <1>1 DEF queue, Queue!Content, Queue!dummy
<1>2. CASE Queue!Pop
  BY <1>2, QueuePopRefines DEF Queue!Abstract!Next
<1>3. CASE Queue!PopNothing
  <2>1. Queue!Content = <<>>
    <3>1. Len(Queue!Content) = 0
      BY <1>3, QueueContent, QueueEnds DEF HoldsItems, Queue!PopNothing
    <3> QED
      BY <3>1, QueueContent DEF HoldsItems
  <2>2. Queue!Content' = Queue!Content
    BY <1>3 DEF Queue!PopNothing, Queue!Content, Queue!dummy
  <2> QED
    BY <1>3, <2>1, <2>2 DEF Queue!PopNothing, Queue!Abstract!Next, Queue!Abstract!PopNothing
<1>4. ASSUME NEW n, NEW stop, Queue!Show(n, stop)
      PROVE  UNCHANGED <<Queue!Content, queueSent, queueResult>>
  BY <1>4 DEF Queue!Show, Queue!Content, Queue!dummy
<1>5. ASSUME Queue!push, ~broken
      PROVE  [Queue!Abstract!Next]_<<Queue!Content, queueSent, queueResult>>
  BY <1>5, QueuePushRefines DEF Queue!Abstract!Next
<1>6. CASE Queue!Break
  BY <1>6 DEF Queue!Break, Queue!Content, Queue!dummy
<1> QED
  BY <1>1, <1>2, <1>3, <1>4, <1>5, <1>6
  DEF Queue!Next, Queue!try_pop, Queue!show, Queue!do_job

(* A walk along the links is determined by where it begins and ends. *)
LEMMA QueueWalkUnique ==
  ASSUME NEW walk \in Seq(QueueNode), NEW other \in Seq(QueueNode), NEW start, NEW stop,
         Queue!IsWalk(walk, start, stop), Queue!IsWalk(other, start, stop),
         Len(walk) <= Len(other)
  PROVE  walk = other
<1>1. Len(walk) \in Nat /\ Len(other) \in Nat
  OBVIOUS
<1>2. /\ \A i \in 1 .. Len(walk) : walk[i] = IF i = 1 THEN start ELSE queueNext[walk[i - 1]]
      /\ \A i \in 1 .. Len(other) :
           /\ other[i] = IF i = 1 THEN start ELSE queueNext[other[i - 1]]
           /\ other[i] # stop
      /\ (IF Len(walk) + 1 = 1 THEN start ELSE queueNext[walk[Len(walk) + 1 - 1]])
           \in {stop, Null}
  BY DEF Queue!IsWalk
<1>3. ASSUME NEW i \in 1 .. Len(walk)
      PROVE  walk[i] = other[i]
  <2> DEFINE Differing == {k \in 1 .. Len(walk) : walk[k] # other[k]}
  <2> SUFFICES ASSUME Differing # {}
               PROVE  FALSE
    OBVIOUS
  <2>1. Differing \subseteq Nat
    BY <1>1
  <2>2. PICK low \in Differing : \A k \in Differing : ~(<<k, low>> \in OpToRel(<, Nat))
    <3> HIDE DEF Differing
    <3> QED
      BY <2>1, NatLessThanWellFounded, WFMin
  <2>3. \A k \in Differing : ~(k < low)
    BY <2>1, <2>2 DEF OpToRel
  <2>4. low # 1
    BY <1>1, <1>2
  <2>5. low - 1 \in 1 .. Len(walk) /\ low - 1 < low
    BY <1>1, <2>4
  <2>6. walk[low - 1] = other[low - 1]
    BY <2>3, <2>5
  <2>7. low \in 1 .. Len(walk) /\ low \in 1 .. Len(other)
    BY <1>1
  <2> QED
    <3>1. walk[low] # other[low]
      OBVIOUS
    <3>2. walk[low] = queueNext[walk[low - 1]] /\ other[low] = queueNext[other[low - 1]]
      BY <1>2, <2>4, <2>7
    <3> QED
      BY <2>6, <3>1, <3>2
<1>4. Len(walk) = Len(other)
  <2> SUFFICES ASSUME Len(walk) # Len(other)
               PROVE  FALSE
    OBVIOUS
  <2>1. /\ Len(walk) + 1 \in 1 .. Len(other) /\ Len(walk) + 1 - 1 = Len(walk)
        /\ Len(walk) + 1 # 1 => Len(walk) \in 1 .. Len(walk)
    BY <1>1
  <2>2. other[Len(walk) + 1] \in {stop, Null}
    BY <1>2, <1>3, <2>1
  <2>3. other[Len(walk) + 1] # stop /\ other[Len(walk) + 1] \in QueueNode
    BY <1>2, <2>1
  <2> QED
    BY <2>2, <2>3, QueueConstants
<1> QED
  BY <1>3, <1>4, SeqEqual

(* What show and do_job show is in the nodes of whatever walk there is.    *)
LEMMA QueueShow ==
  ASSUME QueueIInv, NEW start, NEW stop, Queue!Show(start, stop),
         NEW k \in Seq(QueueNode), Queue!IsWalk(k, start, stop)
  PROVE  shown' = [i \in 1 .. Len(k) |-> queueData[k[i]]]
<1>1. PICK walk \in UNION {[1 .. n -> QueueNode] : n \in 0 .. queueSent[User]} :
        /\ Queue!IsWalk(walk, start, stop)
        /\ shown' = [i \in 1 .. Len(walk) |-> queueData[walk[i]]]
  BY DEF Queue!Show
<1>2. walk \in Seq(QueueNode)
  <2>1. queueSent[User] \in Nat
    BY QueueConstants DEF QueueIInv, QueueTypes
  <2>2. PICK n \in 0 .. queueSent[User] : walk \in [1 .. n -> QueueNode]
    OBVIOUS
  <2> QED
    BY <2>1, <2>2
<1> QED
  <2>1. Len(walk) \in Nat /\ Len(k) \in Nat
    BY <1>2
  <2>2. CASE Len(walk) <= Len(k)
    BY <1>1, <1>2, <2>2, QueueWalkUnique
  <2>3. CASE Len(k) <= Len(walk)
    BY <1>1, <1>2, <2>3, QueueWalkUnique
  <2> QED
    BY <2>1, <2>2, <2>3

LEMMA QueueShowsItems ==
  ASSUME QueueIInv, [Queue!Next]_queue
  PROVE  [Queue!ShowsItems]_queue
<1>1. CASE UNCHANGED queue
  BY <1>1
<1>2. ASSUME shown' = shown
      PROVE  Queue!ShowsItems
  BY <1>2 DEF Queue!ShowsItems
<1>3. CASE Queue!show
  <2>1. version = "6.4" /\ Queue!Show(head, Null)
    BY <1>3 DEF Queue!show, Queue!dummy
  <2>2. order \in Seq(QueueNode) /\ Len(order) \in Nat
    BY DEF QueueIInv, QueueTypes
  <2>3. Queue!IsWalk(order, head, Null)
    <3>1. ASSUME NEW i \in 1 .. Len(order)
          PROVE  /\ order[i] = IF i = 1 THEN head ELSE queueNext[order[i - 1]]
                 /\ order[i] # Null
      <4>1. order[i] # Null
        BY <2>2, QueueConstants
      <4>2. CASE i = 1
        BY <2>2, <4>1, <4>2, QueueEnds
      <4>3. CASE i # 1
        <5>1. i - 1 \in 1 .. Len(order) /\ i - 1 # Len(order) /\ (i - 1) + 1 = i
          BY <2>2, <4>3
        <5> QED
          BY <4>1, <4>3, <5>1 DEF QueueIInv, QueueLinks
      <4> QED
        BY <4>2, <4>3
    <3>2. (IF Len(order) + 1 = 1 THEN head ELSE queueNext[order[Len(order) + 1 - 1]]) = Null
      <4>1. Len(order) + 1 - 1 = Len(order) /\ (Len(order) + 1 = 1 <=> Len(order) = 0)
        BY <2>2
      <4>2. CASE Len(order) = 0
        BY <4>1, <4>2, QueueEnds
      <4>3. CASE Len(order) # 0
        <5>1. Len(order) \in 1 .. Len(order)
          BY <2>2, <4>3
        <5> QED
          BY <4>1, <4>3, <5>1 DEF QueueIInv, QueueLinks
      <4> QED
        BY <4>2, <4>3
    <3> QED
      BY <3>1, <3>2 DEF Queue!IsWalk
  <2>4. shown' = [i \in 1 .. Len(order) |-> queueData[order[i]]]
    BY <2>1, <2>2, <2>3, QueueShow
  <2> QED
    BY <2>1, <2>4 DEF Queue!ShowsItems, Queue!Content, Queue!dummy
<1>4. CASE Queue!dummy /\ Queue!Show(queueNext[head], tail) /\ queueNext[head] # Null
  <2> DEFINE L == Len(order)
             between == [i \in 1 .. L - 2 |-> order[i + 1]]
  <2>1. /\ L \in Nat /\ L > 0 /\ head = order[1] /\ tail = order[L] /\ order \in Seq(QueueNode)
        /\ 1 \in 1 .. L
    <3>1. L \in Nat /\ L > 0
      BY <1>4, QueueEnds DEF Queue!dummy
    <3> QED
      BY <3>1, QueueEnds DEF QueueIInv, QueueTypes
  <2>2. L # 1 /\ queueNext[head] = order[2]
    <3>1. queueNext[order[1]] = IF 1 = L THEN Null ELSE order[1 + 1]
      BY <2>1 DEF QueueIInv, QueueLinks
    <3> QED
      BY <1>4, <2>1, <3>1
  <2>3. L - 2 \in Nat /\ L - 1 \in Nat
    <3>1. \A x \in Nat : x > 0 /\ x # 1 => x - 2 \in Nat /\ x - 1 \in Nat
      OBVIOUS
    <3> QED
      BY <2>1, <2>2, <3>1
  <2>4. \A i \in 1 .. L - 2 : i + 1 \in 1 .. L /\ i + 1 # L /\ i \in 1 .. L - 1
    BY <2>1, <2>3
  <2>5. /\ between \in Seq(QueueNode) /\ Len(between) = L - 2
        /\ \A i \in 1 .. L - 2 : between[i] = order[i + 1]
    <3>1. \A i \in 1 .. L - 2 : order[i + 1] \in QueueNode
      BY <2>4, QueueEnds
    <3> QED
      BY <2>3, <3>1
  <2>6. Queue!IsWalk(between, queueNext[head], tail)
    <3>1. ASSUME NEW i \in 1 .. L - 2
          PROVE  /\ between[i] = IF i = 1 THEN queueNext[head] ELSE queueNext[between[i - 1]]
                 /\ between[i] # tail
      <4>1. between[i] = order[i + 1] /\ i + 1 \in 1 .. L /\ i + 1 # L /\ L \in 1 .. L
        BY <2>1, <2>4, <2>5
      <4>2. between[i] # tail
        BY <2>1, <4>1 DEF QueueIInv, QueueLinks
      <4>3. CASE i = 1
        BY <2>2, <4>1, <4>2, <4>3
      <4>4. CASE i # 1
        <5>1. i - 1 \in 1 .. L - 2 /\ i \in 1 .. L /\ i # L /\ (i - 1) + 1 = i
          BY <2>3, <4>4
        <5>2. between[i - 1] = order[i]
          BY <2>5, <5>1
        <5>3. queueNext[order[i]] = order[i + 1]
          BY <5>1 DEF QueueIInv, QueueLinks
        <5> QED
          BY <4>1, <4>2, <4>4, <5>2, <5>3
      <4> QED
        BY <4>3, <4>4
    <3>2. (IF L - 2 + 1 = 1 THEN queueNext[head] ELSE queueNext[between[L - 2 + 1 - 1]]) = tail
      <4>1. L - 2 + 1 - 1 = L - 2 /\ (L - 2 + 1 = 1 <=> L = 2)
        BY <2>1
      <4>2. CASE L = 2
        BY <2>1, <2>2, <4>1, <4>2
      <4>3. CASE L # 2
        <5>1. /\ L - 2 \in 1 .. L - 2 /\ L - 2 + 1 = L - 1
              /\ L - 1 \in 1 .. L /\ L - 1 # L /\ (L - 1) + 1 = L
          <6>1. \A x \in Nat : x > 0 /\ x # 1 /\ x # 2 =>
                  /\ x - 2 \in 1 .. x - 2 /\ x - 2 + 1 = x - 1
                  /\ x - 1 \in 1 .. x /\ x - 1 # x /\ (x - 1) + 1 = x
            OBVIOUS
          <6> QED
            BY <2>1, <2>2, <4>3, <6>1
        <5>2. between[L - 2] = order[L - 1]
          BY <2>5, <5>1
        <5>3. queueNext[order[L - 1]] = order[L]
          BY <5>1 DEF QueueIInv, QueueLinks
        <5> QED
          BY <2>1, <4>1, <4>3, <5>2, <5>3
      <4> QED
        BY <4>2, <4>3
    <3> HIDE DEF between
    <3> QED
      BY <2>5, <3>1, <3>2 DEF Queue!IsWalk
  <2>7. shown' = [i \in 1 .. L - 2 |-> queueData[between[i]]]
    <3> HIDE DEF between
    <3> QED
      BY <1>4, <2>5, <2>6, QueueShow
  <2>8. shown' = [i \in 1 .. L - 2 |-> queueData[order[i + 1]]]
    BY <2>5, <2>7
  <2>9. Tail(Queue!Content) = [i \in 1 .. L - 2 |-> queueData[order[i + 1]]]
    <3>1. /\ Queue!Content = [i \in 1 .. L - 1 |-> queueData[order[i]]]
          /\ Len(Queue!Content) = L - 1
      BY <1>4, QueueContent DEF HoldsItems, Queue!Content, Queue!dummy
    <3>2. PICK C : C = Queue!Content
      OBVIOUS
    <3>3. L - 1 - 1 = L - 2 /\ \A i \in 1 .. L - 2 : i + 1 \in 1 .. L - 1
      BY <2>1
    <3>4. C \in Seq(QueueItem \cup {Nothing}) /\ C # <<>> /\ Len(C) = L - 1
      <4>1. L - 1 # 0
        BY <2>1, <2>2
      <4> QED
        BY <3>1, <3>2, <4>1, QueueContent DEF HoldsItems
    <3>5. /\ Tail(C) \in Seq(QueueItem \cup {Nothing}) /\ Len(Tail(C)) = L - 1 - 1
          /\ \A i \in 1 .. L - 1 - 1 : Tail(C)[i] = C[i + 1]
      BY <3>4
    <3>6. PICK rest : rest = Tail(C)
      OBVIOUS
    <3>7. PICK later : later = [i \in 1 .. L - 2 |-> queueData[order[i + 1]]]
      OBVIOUS
    <3>8. \A i \in 1 .. L - 2 : rest[i] = later[i]
      BY <3>1, <3>2, <3>3, <3>5, <3>6, <3>7
    <3>9. /\ later \in Seq(QueueItem \cup {Nothing}) /\ Len(later) = L - 2
          /\ rest \in Seq(QueueItem \cup {Nothing}) /\ Len(rest) = L - 2
      <4>1. \A i \in 1 .. L - 2 : queueData[order[i + 1]] \in QueueItem \cup {Nothing}
        BY <2>4, QueueEnds DEF QueueIInv, QueueTypes
      <4> QED
        <5>1. later \in Seq(QueueItem \cup {Nothing}) /\ Len(later) = L - 2
          BY <2>3, <3>7, <4>1
        <5>2. rest \in Seq(QueueItem \cup {Nothing}) /\ Len(rest) = L - 2
          BY <3>3, <3>5, <3>6
        <5> QED
          BY <5>1, <5>2
    <3>10. rest = later
      BY <3>8, <3>9, SeqEqual
    <3> QED
      BY <3>2, <3>6, <3>7, <3>10
  <2> QED
    BY <1>4, <2>8, <2>9 DEF Queue!ShowsItems
<1> QED
  BY <1>1, <1>2, <1>3, <1>4
  DEF Queue!Next, Queue!try_pop, Queue!push, Queue!PopNothing, Queue!Pop, Queue!Break,
      Queue!do_job

-----------------------------------------------------------------------------
(* The containers together *)

LEMMA TableTypeOK ==
  ASSUME TableIInv
  PROVE  Table!TypeOK
<1>3. ASSUME NEW t \in Caller, tablePc[t] = "idle"
      PROVE  key[t] = NoValue /\ found_entry[t] = 0
  BY <1>3 DEF TableIInv, TableArguments, TableFound, Finds
<1>1. ASSUME NEW t \in Caller, tablePc[t] # "idle"
      PROVE  /\ key[t] \in Key
             /\ found_entry[t] \in 0 .. Len(tableData[Table!get_bucket(t)])
  <2>1. key[t] \in Key
    BY <1>1 DEF TableIInv, TableArguments
  <2>2. hasher[key[t]] \in Bucket
    BY <2>1, ConstantsAssumption DEF Table!ConstantsAssumption
  <2>3. Len(tableData[hasher[key[t]]]) \in Nat
    BY <2>2 DEF TableIInv, TableTypes
  <2>4. found_entry[t] = 0 \/ found_entry[t] \in 1 .. Len(tableData[hasher[key[t]]])
    BY <1>1 DEF TableIInv, TableFound, IsEntry
  <2> QED
    BY <2>1, <2>3, <2>4 DEF Table!get_bucket
<1>2. TableTypes
  BY DEF TableIInv
<1> QED
  BY <1>1, <1>2, <1>3 DEF TableTypes, Table!TypeOK, Reads, Changes

IInv ==
  /\ container \in {"list", "table", "stack", "queue"}
  /\ ListIInv /\ TableIInv /\ StackIInv /\ QueueIInv

(* One container takes a step at a time, and it keeps its invariant. *)
LEMMA Inductive == Spec => []IInv
<1>1. Init => IInv
  BY ListInit, TableInit, StackInit, QueueInit DEF Init, IInv
<1>2. IInv /\ [Next]_vars => IInv'
  <2> SUFFICES ASSUME IInv, [Next]_vars
               PROVE  IInv'
    OBVIOUS
  <2>1. [List!Next]_list /\ [Table!Next]_table /\ [Stack!Next]_stack /\ [Queue!Next]_queue
    BY DEF Next, vars
  <2>2. container' = container
    BY DEF Next, vars
  <2> QED
    BY <2>1, <2>2, ListInductive, TableInductive, StackInductive, QueueInductive DEF IInv
<1> QED
  BY <1>1, <1>2, PTL DEF Spec

(* In every behaviour, one container takes the steps and the others stay.  *)
LEMMA Steps ==
  Spec => /\ [][Table!Next]_table /\ [][Stack!Next]_stack /\ [][Queue!Next]_queue
<1>1. [Next]_vars => [Table!Next]_table /\ [Stack!Next]_stack /\ [Queue!Next]_queue
  BY DEF Next, vars
<1> QED
  BY <1>1, PTL DEF Spec

(* Every variable of the list, the table, the stack and the queues has a   *)
(* value of its type.                                                      *)
THEOREM TypeCorrect == Spec => []TypeOK
<1>1. IInv => TypeOK
  BY TableTypeOK, StackTypeOK, QueueTypeOK DEF IInv, ListIInv, TypeOK
<1> QED
  BY <1>1, Inductive, PTL

(* However many threads push to, walk over and remove from threadsafe_list *)
(* at once, no walk looks at a deleted node, and no node is lost; and what *)
(* the queues of 6.4 and 6.5 dereference is a node unless they are empty.  *)
THEOREM NothingDangles == Spec => []NoDanglingUse
<1>1. IInv => NoDanglingUse
  BY ListNoDanglingUse, QueueOnlyEmptyMisused DEF IInv, NoDanglingUse
<1> QED
  BY <1>1, Inductive, PTL

(* A for_each, find_first_if or remove_if over threadsafe_list comes to    *)
(* every item that is in the list from its beginning to its end, once,     *)
(* whatever is pushed and removed meanwhile.                               *)
THEOREM WalksMissNothing == Spec => []WalkMissesNothing
<1>1. IInv => WalkMissesNothing
  BY ListWalkMissesNothing DEF IInv, WalkMissesNothing
<1> QED
  BY <1>1, Inductive, PTL

(* The walks over threadsafe_list, each of which locks the next node       *)
(* before it unlocks the one it is at, never wait for one another in a     *)
(* circle.                                                                 *)
THEOREM WalksGoOn == Spec => []NoDeadlock
<1>1. IInv => NoDeadlock
  BY ListNoDeadlock DEF IInv, NoDeadlock
<1> QED
  BY <1>1, Inductive, PTL

(* threadsafe_lookup_table is a map, whatever the hash function: each call *)
(* of value_for, add_or_update_mapping and remove_mapping takes effect at  *)
(* one moment, although it looks its key up before it uses the entry.      *)
THEOREM ImplementsMap == Spec => IsAMap
<1>1. Init => Table!Abstract!Init
  BY TableInit, TableStart DEF Init
<1>2. IInv /\ IInv' /\ [Table!Next]_table
        => [Table!Abstract!Next]_<<TableMap, TableRequest, answer>>
  BY TableRefines DEF IInv
<1> QED
  BY <1>1, <1>2, Inductive, Steps, PTL
  DEF Spec, IsAMap, Table!IsAMap, Table!Abstract!Spec, TableMap, TableRequest

(* threadsafe_stack is a stack: the pushes of 3.5 and 6.1 and the pops of  *)
(* 3.5 take effect one at a time, whatever throws in between, and a copy   *)
(* that 6.1 makes has the items that were in the stack at one moment.  The *)
(* pops of 6.1 do not compile once they are used; the copies of 3.5 lock   *)
(* the wrong mutex, and nothing is said of them.                           *)
THEOREM ImplementsStack == Spec => IsAStack
<1>1. Init => Stack!Abstract!Init
  BY StackStart DEF Init
<1>2. IInv /\ [Stack!Next]_stack =>
        [Stack!Abstract!Next]_<<stackData, sent, result>> /\ [Stack!CopyIsWhole]_stack
  BY StackRefines, StackCopiesWhole DEF IInv
<1> QED
  BY <1>1, <1>2, Inductive, Steps, PTL
  DEF Spec, IsAStack, Stack!IsAStack, Stack!Abstract!Spec, Stack!vars, stack

(* The queues of 6.4, 6.5 and 6.6 are queues for one thread, and show and  *)
(* do_job go through the items inside in the order in which they came.     *)
THEOREM ImplementsQueue == Spec => IsAQueue
<1>1. Init => Queue!Abstract!Init
  BY QueueStart DEF Init
<1>2. IInv /\ IInv' /\ [Queue!Next]_queue =>
        /\ [Queue!Abstract!Next]_<<Queue!Content, queueSent, queueResult>>
        /\ [Queue!ShowsItems]_queue
  BY QueueRefines, QueueShowsItems DEF IInv
<1> QED
  BY <1>1, <1>2, Inductive, Steps, PTL
  DEF Spec, IsAQueue, Queue!IsAQueue, Queue!Abstract!Spec, Queue!vars, queue

=============================================================================
