------------------------ MODULE TimeWheelListProofs ------------------------
(***************************************************************************)
(* Until a stale execution has changed the lists, the slots are doubly     *)
(* linked lists of exactly the registered nodes, whatever the callers, the *)
(* rotation and the workers do.  The invariant says of a fresh execution   *)
(* that its node is registered and that the slot and the task it copied    *)
(* before it released the locks are still those of the node: that is what  *)
(* lets it unlink the node later with no more than its own copies.         *)
(*                                                                         *)
(* On this invariant rest the later sections: UpdateTask keeps its task, a *)
(* task function runs no more often than its mode says, and no less.       *)
(***************************************************************************)
EXTENDS TimeWheelProofs

Lists == /\ WellLinked(Registered, slots, next, prev, slotIndex)
         /\ Reachable(Registered, slots, next)

InTask == {"context", "call", "running", "load", "store", "recheck", "schedule"}

FreshOK ==
  \A e \in Exec : fresh[e] =>
    /\ NodeOf(e) \in Registered
    /\ cur[e] = slotIndex[NodeOf(e)]
    /\ pc[e] \in InTask => info[e] = task[NodeOf(e)]

Sound == Lists /\ EntriesRight /\ PreparedPrivate /\ FreshOK

ListInv == TypeInv /\ (~staleActed => Sound)
-----------------------------------------------------------------------------
(* A step that changes no list, no entry and no node of the map.           *)
LEMMA Frame ==
  ASSUME TypeInv, Sound, UNCHANGED <<listVars, mapVars, task>>,
         \A c \in Client : client'[c].op = "commit" => client'[c] = client[c],
         \A e \in Exec : fresh'[e] =>
            /\ fresh[e] /\ cur'[e] = cur[e]
            /\ pc'[e] \in InTask => \/ pc[e] \in InTask /\ info'[e] = info[e]
                                    \/ info'[e] = task[NodeOf(e)]
  PROVE  Sound'
<1>1. Registered' = Registered
  BY DEF Registered, mapVars
<1>2. Lists' /\ EntriesRight'
  BY <1>1 DEF Sound, Lists, WellLinked, Reachable, EntriesRight, listVars, mapVars
<1>3. PreparedPrivate'
  BY <1>1 DEF Sound, PreparedPrivate, Adding, mapVars
<1>4. FreshOK'
  BY <1>1 DEF Sound, FreshOK, listVars
<1> QED BY <1>2, <1>3, <1>4 DEF Sound

(* Registered nodes are nodes, each under one ID.                          *)
LEMMA RegisteredFacts ==
  ASSUME TypeInv, Sound
  PROVE  /\ Registered \in SUBSET Node
         /\ \A id \in TaskID : shard[id] # NULL => shard[id] \in Registered
         /\ \A id, jd \in TaskID : shard[id] # NULL /\ shard[id] = shard[jd] => id = jd
         /\ Registered \cap taskPool = {}
<1>1. Registered \in SUBSET Node
  BY DEF Registered, TypeInv, TypeOK
<1>2. \A id \in TaskID : shard[id] # NULL => shard[id] \in Registered
  BY DEF Registered
<1>3. \A id, jd \in TaskID : shard[id] # NULL /\ shard[id] = shard[jd] => id = jd
  BY DEF Sound, EntriesRight
<1>4. Registered \cap taskPool = {}
  BY DEF Sound, EntriesRight, Registered
<1> QED BY <1>1, <1>2, <1>3, <1>4

(* The variables of the lists have the types the lemmas on lists ask for.  *)
LEMMA ListTypes ==
  ASSUME TypeInv
  PROVE  /\ slots \in [Slot -> Link] /\ next \in [Node -> Link]
         /\ prev \in [Node -> Link] /\ slotIndex \in [Node -> Slot]
BY DEF TypeInv, TypeOK, Link

(* A registered node leaves its list and the map for the pool.             *)
LEMMA RecycleKeeps ==
  ASSUME TypeInv, Sound, NEW id \in TaskID, NEW n, n = shard[id], n # NULL,
         Recycle(n, id, slotIndex[n]), Outdate(n), slotIndex' = slotIndex,
         \A c \in Client : client'[c].op = "commit" => client'[c] = client[c],
         cur' = cur, info' = info,
         \A e \in Exec : pc'[e] \in InTask => pc[e] \in InTask
  PROVE  Sound'
<1>1. n \in Registered /\ n \in Node /\ Registered \in SUBSET Node
  BY RegisteredFacts
<1>2. shard' = [shard EXCEPT ![id] = NULL] /\ shard \in [TaskID -> Node \cup {NULL}]
  BY DEF Recycle, DeleteEntry, TypeInv, TypeOK
<1>3. Registered' = Registered \ {n}
  BY <1>2, RegisteredFacts DEF Registered
<1>4. Lists'
  <2>1. /\ slots' = IF prev[n] = NULL THEN [slots EXCEPT ![slotIndex[n]] = next[n]]
                                      ELSE slots
        /\ next' = [Store(next, prev[n], next[n]) EXCEPT ![n] = NULL]
        /\ prev' = [Store(prev, next[n], prev[n]) EXCEPT ![n] = NULL]
    BY DEF Recycle, UnlinkHead, UnlinkNext, UnlinkPrev
  <2>2. WellLinked(Registered \ {n}, slots', next', prev', slotIndex)
    BY <1>1, <2>1, ListTypes, UnlinkKeepsLists DEF Sound, Lists
  <2>3. Reachable(Registered \ {n}, slots', next')
    BY <1>1, <2>1, ListTypes, UnlinkKeepsReach DEF Sound, Lists
  <2>4. Lists' = (/\ WellLinked(Registered', slots', next', prev', slotIndex')
                  /\ Reachable(Registered', slots', next'))
    BY DEF Lists, WellLinked, Reachable
  <2> QED BY <1>3, <2>2, <2>3, <2>4
<1>5. \A m \in Node \ {n} : task'[m] = task[m]
  BY DEF Recycle, TypeInv, TypeOK
<1>6. taskPool' = taskPool \cup {n}
  BY DEF Recycle
<1>7. EntriesRight'
  <2> SUFFICES ASSUME NEW jd \in TaskID, shard'[jd] # NULL
               PROVE  /\ task'[shard'[jd]] # NULL /\ task'[shard'[jd]].ID = jd
                      /\ shard'[jd] \notin taskPool'
    BY DEF EntriesRight
  <2>1. jd # id /\ shard'[jd] = shard[jd] /\ shard[jd] # n /\ shard[jd] \in Node
    BY <1>2, RegisteredFacts
  <2> QED BY <1>5, <1>6, <2>1 DEF Sound, EntriesRight
<1>8. PreparedPrivate'
  <2>1. \A c \in Adding' : c \in Adding /\ client'[c] = client[c] /\ client[c].node # n
                           /\ client[c].node \in Node
    BY <1>1 DEF Adding, Sound, PreparedPrivate, TypeInv, ClientOK
  <2> QED BY <1>3, <1>5, <1>6, <2>1 DEF Sound, PreparedPrivate
<1>9. FreshOK'
  <2> SUFFICES ASSUME NEW e \in Exec, fresh'[e]
               PROVE  /\ NodeOf(e) \in Registered'
                      /\ cur'[e] = slotIndex'[NodeOf(e)]
                      /\ pc'[e] \in InTask => info'[e] = task'[NodeOf(e)]
    BY DEF FreshOK
  <2>1. fresh[e] /\ NodeOf(e) # n
    BY DEF Outdate
  <2>2. NodeOf(e) \in Registered /\ NodeOf(e) \in Node
    BY <1>1, <2>1 DEF Sound, FreshOK
  <2> QED BY <1>3, <1>5, <2>1, <2>2 DEF Sound, FreshOK
<1> QED BY <1>4, <1>7, <1>8, <1>9 DEF Sound

(* Lists' speaks of the lists of the next state.                           *)
LEMMA ListsPrime ==
  Lists' = (/\ WellLinked(Registered', slots', next', prev', slotIndex')
            /\ Reachable(Registered', slots', next'))
BY DEF Lists, WellLinked, Reachable

(* AddTask fills a node no list and no other call has.                     *)
LEMMA PrepareKeeps ==
  ASSUME TypeInv, Sound, NEW c \in Client, Prepare(c)
  PROVE  Sound'
<1> DEFINE t == client[c].task
<1>1. PICK n \in Node, s \in Slot :
        /\ n \in taskPool /\ taskPool' = taskPool \ {n}
        /\ task' = [task EXCEPT ![n] = t]
        /\ slotIndex' = [slotIndex EXCEPT ![n] = s]
        /\ next' = [next EXCEPT ![n] = NULL]
        /\ prev' = [prev EXCEPT ![n] = NULL]
        /\ client' = [client EXCEPT ![c].op = "commit", ![c].node = n]
  BY DEF Prepare, Get
<1>2. UNCHANGED <<slots, shard, pc, info, cur, fresh>>
  BY DEF Prepare, execVars
<1>3. Registered' = Registered /\ Registered \in SUBSET Node /\ n \notin Registered
  BY <1>1, <1>2, RegisteredFacts DEF Registered
<1>4. Lists'
  <2>1. next[n] = NULL /\ prev[n] = NULL
    BY <1>3 DEF Sound, Lists, WellLinked
  <2>2. next' = next /\ prev' = prev
    BY <1>1, <2>1 DEF TypeInv, TypeOK
  <2>3. \A m \in Registered : slotIndex'[m] = slotIndex[m]
    BY <1>1, <1>3 DEF TypeInv, TypeOK
  <2>4. WellLinked(Registered, slots, next, prev, slotIndex')
    BY <2>3, NullAssumption DEF Sound, Lists, WellLinked
  <2> QED BY <1>2, <1>3, <2>2, <2>4, ListsPrime DEF Sound, Lists
<1>5. \A m \in Node \ {n} : task'[m] = task[m] /\ slotIndex'[m] = slotIndex[m]
  BY <1>1 DEF TypeInv, TypeOK
<1>6. EntriesRight'
  BY <1>1, <1>2, <1>3, <1>5, RegisteredFacts DEF Sound, EntriesRight
<1>7. PreparedPrivate'
  <2>1. \A d \in Adding \ {c} : client[d].node # n /\ client[d].node \in Node
    BY <1>1 DEF Adding, Sound, PreparedPrivate, TypeInv, ClientOK
  <2>2. Adding' = Adding \cup {c}
    BY <1>1 DEF Adding, TypeInv, TypeOK, CallState
  <2>3. \A d \in Adding \ {c} : client'[d] = client[d]
    BY <1>1 DEF Adding, TypeInv, TypeOK
  <2>4. client'[c].node = n /\ client'[c].task = t /\ task'[n] = t
    BY <1>1 DEF TypeInv, TypeOK, CallState
  <2>5. \A d \in Adding' : /\ client'[d].node \notin Registered' \cup taskPool'
                           /\ task'[client'[d].node] = client'[d].task
    <3>1. ASSUME NEW d \in Adding \ {c}
          PROVE  /\ client'[d].node \notin Registered' \cup taskPool'
                 /\ task'[client'[d].node] = client'[d].task
      <4>1. /\ client[d].node \notin Registered \cup taskPool
            /\ task[client[d].node] = client[d].task
        BY <3>1 DEF Sound, PreparedPrivate
      <4>2. task'[client[d].node] = task[client[d].node]
        BY <1>5, <2>1, <3>1
      <4>3. client'[d] = client[d]
        BY <2>3, <3>1
      <4>4. taskPool' \subseteq taskPool
        BY <1>1
      <4> QED BY <1>3, <4>1, <4>2, <4>3, <4>4
    <3>2. n \notin Registered' \cup taskPool'
      BY <1>1, <1>3
    <3> QED BY <2>2, <2>4, <3>1, <3>2
  <2>6. \A d, b \in Adding' : client'[d].node = client'[b].node => d = b
    BY <2>1, <2>2, <2>3, <2>4 DEF Sound, PreparedPrivate
  <2> QED BY <2>5, <2>6 DEF PreparedPrivate
<1>8. FreshOK'
  <2>1. \A e \in Exec : fresh[e] => NodeOf(e) \in Node \ {n}
    BY <1>3 DEF Sound, FreshOK
  <2> QED BY <1>2, <1>3, <1>5, <2>1 DEF Sound, FreshOK
<1> QED BY <1>4, <1>6, <1>7, <1>8 DEF Sound

(* AddTask links its node where the lists say a node of its slot may be.   *)
LEMMA LinkKeepsLists ==
  ASSUME TypeInv, Sound, NEW n \in Node \ Registered, NEW t, NEW s, s = slotIndex[n],
         LinkEmpty(n, s) \/ LinkFront(n, s, t) \/ LinkAfter(n, s, t)
  PROVE  /\ WellLinked(Registered \cup {n}, slots', next', prev', slotIndex)
         /\ Reachable(Registered \cup {n}, slots', next')
<1>0. NULL \notin Node /\ s \in Slot /\ Registered \in SUBSET Node
  BY NullAssumption, RegisteredFacts DEF TypeInv, TypeOK
<1>1. next[n] = NULL /\ prev[n] = NULL /\ slots[s] # n
  BY <1>0 DEF Sound, Lists, WellLinked
<1>2. CASE LinkEmpty(n, s) \/ LinkFront(n, s, t)
  <2>1. \A r \in Slot : slots'[r] = IF r = s THEN n ELSE slots[r]
    BY <1>0, <1>2, ListTypes DEF LinkEmpty, LinkFront
  <2>2. \A m \in Node : next'[m] = IF m = n THEN slots[s] ELSE next[m]
    BY <1>1, <1>2, ListTypes DEF LinkEmpty, LinkFront
  <2>3. \A m \in Node : prev'[m] = IF m = n THEN NULL
                                   ELSE IF m = slots[s] THEN n ELSE prev[m]
    <3>1. CASE LinkEmpty(n, s)
      BY <1>0, <1>1, <3>1 DEF LinkEmpty
    <3>2. CASE LinkFront(n, s, t)
      BY <1>0, <1>1, <3>2, ListTypes DEF LinkFront
    <3> QED BY <1>2, <3>1, <3>2
  <2>4. PutFirst(n, Registered, slots, next, prev, slotIndex,
                 slots', next', prev', slotIndex)
    BY <1>0, <2>1, <2>2, <2>3 DEF PutFirst
  <2> QED BY <1>0, <2>4, ListTypes, FrontKeepsLists DEF Sound, Lists
<1>3. CASE LinkAfter(n, s, t)
  <2>1. PICK p \in Before(s, t) :
          /\ next' = [next EXCEPT ![n] = next[p], ![p] = n]
          /\ prev' = [Store(prev, next[p], n) EXCEPT ![n] = p]
          /\ UNCHANGED slots
    BY <1>3 DEF LinkAfter
  <2>2. p \in Registered /\ slotIndex[p] = s
    BY <1>0, <2>1, WalkStaysInSlot DEF Before, Sound, Lists, TypeInv
  <2>3. p # n /\ p \in Node /\ next[p] # n
    BY <1>0, <1>1, <2>2 DEF Sound, Lists, WellLinked
  <2>4. \A m \in Node : next'[m] = IF m = n THEN next[p]
                                   ELSE IF m = p THEN n ELSE next[m]
    BY <2>1, <2>3, ListTypes
  <2>5. \A m \in Node : prev'[m] = IF m = n THEN p
                                   ELSE IF m = next[p] THEN n ELSE prev[m]
    BY <2>1, <2>3, ListTypes DEF Store
  <2>6. PutAfter(n, p, Registered, next, prev, slotIndex, next', prev')
    BY <2>2, <2>4, <2>5 DEF PutAfter
  <2>7. /\ WellLinked(Registered \cup {n}, slots, next', prev', slotIndex)
        /\ Reachable(Registered \cup {n}, slots, next')
    BY <1>0, <2>6, ListTypes, InsertKeepsLists DEF Sound, Lists
  <2> QED BY <2>1, <2>7
<1> QED BY <1>2, <1>3

(* The second half of AddTask registers the node it prepared.              *)
LEMMA AddCommitKeeps ==
  ASSUME TypeInv, Sound, NEW c \in Client, AddCommit(c)
  PROVE  Sound'
<1> DEFINE t == client[c].task
           n == client[c].node
           id == client[c].task.ID
<1>1. /\ c \in Adding /\ n \in Node \ Registered /\ n \notin taskPool /\ task[n] = t
      /\ t \in Task /\ id \in TaskID /\ t # NULL
  BY TaskAssumption, NullAssumption
     DEF AddCommit, Adding, TypeInv, ClientOK, Sound, PreparedPrivate
<1>2. /\ shard[id] = NULL /\ shard' = [shard EXCEPT ![id] = n]
      /\ client' = [client EXCEPT ![c] = NoCall]
      /\ UNCHANGED <<slotIndex, task, taskPool, pc, info, cur, fresh>>
  BY DEF AddCommit, nodeVars, execVars, histVars
<1>3. Registered' = Registered \cup {n}
  BY <1>1, <1>2, NullAssumption DEF Registered, TypeInv, TypeOK
<1>4. Lists'
  <2>1. LinkEmpty(n, slotIndex[n]) \/ LinkFront(n, slotIndex[n], t)
          \/ LinkAfter(n, slotIndex[n], t)
    BY DEF AddCommit
  <2>2. /\ WellLinked(Registered \cup {n}, slots', next', prev', slotIndex)
        /\ Reachable(Registered \cup {n}, slots', next')
    BY <1>1, <2>1, LinkKeepsLists
  <2> QED BY <1>2, <1>3, <2>2, ListsPrime
<1>5. EntriesRight'
  BY <1>1, <1>2 DEF Sound, EntriesRight, TypeInv, TypeOK
<1>6. PreparedPrivate'
  <2>1. \A d \in Adding' : d \in Adding \ {c} /\ client'[d] = client[d]
    BY <1>2 DEF Adding, NoCall, TypeInv, TypeOK
  <2>2. \A d \in Adding' : client'[d].node # n
    BY <1>1, <2>1 DEF Sound, PreparedPrivate
  <2> QED BY <1>2, <1>3, <2>1, <2>2 DEF Sound, PreparedPrivate
<1>7. FreshOK'
  BY <1>2, <1>3 DEF Sound, FreshOK
<1> QED BY <1>4, <1>5, <1>6, <1>7 DEF Sound

(* A rejected AddTask gives its node back.                                 *)
LEMMA AddRejectedKeeps ==
  ASSUME TypeInv, Sound, NEW c \in Client, AddRejected(c)
  PROVE  Sound'
<1> DEFINE n == client[c].node
<1>1. c \in Adding /\ n \notin Registered
  BY DEF AddRejected, Adding, Sound, PreparedPrivate
<1>2. /\ taskPool' = taskPool \cup {n}
      /\ UNCHANGED <<slots, next, prev, slotIndex, task, shard, pc, info, cur, fresh>>
  BY DEF AddRejected, listVars, nodeVars, execVars, histVars
<1>3. Registered' = Registered
  BY <1>2 DEF Registered
<1>4. Lists' /\ FreshOK'
  BY <1>2, <1>3, ListsPrime DEF Sound, Lists, FreshOK
<1>5. EntriesRight'
  BY <1>1, <1>2, RegisteredFacts DEF Sound, EntriesRight
<1>6. PreparedPrivate'
  <2>1. \A d \in Adding' : d \in Adding \ {c} /\ client'[d] = client[d]
    BY DEF AddRejected, FailedAdd, Adding, NoCall, TypeInv, TypeOK
  <2>2. \A d \in Adding' : client'[d].node # n
    BY <1>1, <2>1 DEF Sound, PreparedPrivate
  <2> QED BY <1>2, <1>3, <2>1, <2>2 DEF Sound, PreparedPrivate
<1> QED BY <1>4, <1>5, <1>6 DEF Sound

(* rescheduleTask moves the node to the head of another slot.              *)
LEMMA MoveToKeepsLists ==
  ASSUME TypeInv, Sound, NEW n \in Registered, NEW s \in Slot, s # slotIndex[n],
         MoveTo(n, s, slotIndex[n]), Registered' = Registered
  PROVE  Lists'
<1> DEFINE L == Registered \ {n}
           hd == UnlinkHead(n, slotIndex[n])
           nx == [UnlinkNext(n) EXCEPT ![n] = NULL]
           pv == [UnlinkPrev(n) EXCEPT ![n] = NULL]
<1>0. NULL \notin Node /\ n \in Node /\ Registered \in SUBSET Node /\ slotIndex[n] \in Slot
  BY NullAssumption, RegisteredFacts DEF TypeInv, TypeOK
<1>1. /\ hd = IF prev[n] = NULL THEN [slots EXCEPT ![slotIndex[n]] = next[n]] ELSE slots
      /\ nx = [Store(next, prev[n], next[n]) EXCEPT ![n] = NULL]
      /\ pv = [Store(prev, next[n], prev[n]) EXCEPT ![n] = NULL]
  BY DEF UnlinkHead, UnlinkNext, UnlinkPrev
<1>2. WellLinked(L, hd, nx, pv, slotIndex) /\ Reachable(L, hd, nx)
  <2> HIDE DEF hd, nx, pv
  <2>1. WellLinked(Registered, slots, next, prev, slotIndex) /\ Reachable(Registered, slots, next)
    BY DEF Sound, Lists
  <2>2. WellLinked(L, hd, nx, pv, slotIndex)
    BY <1>0, <1>1, <2>1, ListTypes, UnlinkKeepsLists
  <2>3. Reachable(L, hd, nx)
    BY <1>0, <1>1, <2>1, ListTypes, UnlinkKeepsReach
  <2> QED BY <2>2, <2>3
<1>3. /\ hd \in [Slot -> Link] /\ UnlinkNext(n) \in [Node -> Link]
      /\ UnlinkPrev(n) \in [Node -> Link]
  BY <1>0, UnlinkType DEF TypeInv
<1>4. nx \in [Node -> Link] /\ pv \in [Node -> Link]
  BY <1>3 DEF Link
<1>5. hd[s] # n
  BY <1>0, <1>2 DEF WellLinked
<1>6. PutFirst(n, L, hd, nx, pv, slotIndex, slots', next', prev', slotIndex')
  <2>1. /\ n \in Node \ L /\ slotIndex'[n] = s
        /\ \A m \in L : slotIndex'[m] = slotIndex[m]
    BY <1>0 DEF MoveTo, TypeInv, TypeOK
  <2>2. \A r \in Slot : slots'[r] = IF r = s THEN n ELSE hd[r]
    BY <1>3 DEF MoveTo
  <2>3. \A m \in Node : next'[m] = IF m = n THEN hd[s] ELSE nx[m]
    BY <1>3 DEF MoveTo
  <2>4. \A m \in Node : prev'[m] = IF m = n THEN NULL ELSE IF m = hd[s] THEN n ELSE pv[m]
    BY <1>0, <1>3, <1>5 DEF MoveTo, Store
  <2> HIDE DEF hd, nx, pv
  <2> QED BY <2>1, <2>2, <2>3, <2>4 DEF PutFirst
<1>7. L \in SUBSET Node /\ L \cup {n} = Registered
  BY <1>0
<1> HIDE DEF hd, nx, pv, L
<1>8. /\ WellLinked(L \cup {n}, slots', next', prev', slotIndex')
      /\ Reachable(L \cup {n}, slots', next')
  BY <1>2, <1>3, <1>4, <1>6, <1>7, ListTypes, FrontKeepsLists
<1> QED BY <1>7, <1>8, ListsPrime

(* The locked part of executeTask, for an execution that is fresh.         *)
LEMMA HandleTaskSchedulingKeeps ==
  ASSUME TypeInv, Sound, NEW e \in Exec, HandleTaskScheduling(e), ~staleActed'
  PROVE  Sound'
<1> DEFINE n == NodeOf(e)
<1>0. pc[e] = "schedule" /\ pc' = [pc EXCEPT ![e] = "finish"]
      /\ UNCHANGED <<client, info, cur>> /\ n \in Node
  BY DEF HandleTaskScheduling, Goto, Exec, NodeOf
<1>1. \A f \in Exec : pc'[f] \in InTask => pc[f] \in InTask
  BY <1>0 DEF InTask, TypeInv, TypeOK
<1>2. CASE UNCHANGED <<listVars, mapVars, task, fresh>>
  BY <1>0, <1>1, <1>2, Frame
<1>3. ASSUME fresh[e]
      PROVE  n \in Registered /\ cur[e] = slotIndex[n] /\ info[e] = task[n]
  BY <1>0, <1>3 DEF Sound, FreshOK, InTask
<1>4. ASSUME fresh[e], Reschedule(e) PROVE Sound'
  <2>1. PICK s \in Slot :
          IF s = slotIndex[n] THEN UNCHANGED <<listVars, fresh>>
                              ELSE MoveTo(n, s, cur[e]) /\ Outdate(n)
    BY <1>4 DEF Reschedule
  <2>2. UNCHANGED <<mapVars, task>> /\ Registered' = Registered
    BY <1>4 DEF Reschedule, mapVars, Registered
  <2>3. CASE s = slotIndex[n]
    BY <1>2, <2>1, <2>2, <2>3
  <2>4. CASE s # slotIndex[n]
    <3>1. MoveTo(n, s, slotIndex[n]) /\ Outdate(n)
      BY <1>3, <1>4, <2>1, <2>4
    <3>2. Lists'
      BY <1>3, <1>4, <2>2, <2>4, <3>1, MoveToKeepsLists
    <3>3. EntriesRight' /\ PreparedPrivate'
      BY <1>0, <2>2 DEF Sound, EntriesRight, PreparedPrivate, Adding, mapVars
    <3>4. FreshOK'
      <4> SUFFICES ASSUME NEW f \in Exec, fresh'[f]
                   PROVE  /\ NodeOf(f) \in Registered'
                          /\ cur'[f] = slotIndex'[NodeOf(f)]
                          /\ pc'[f] \in InTask => info'[f] = task'[NodeOf(f)]
        BY DEF FreshOK
      <4>1. fresh[f] /\ NodeOf(f) # n
        BY <3>1 DEF Outdate
      <4>2. NodeOf(f) \in Node
        BY DEF Exec, NodeOf
      <4>3. slotIndex'[NodeOf(f)] = slotIndex[NodeOf(f)]
        BY <3>1, <4>1, <4>2 DEF MoveTo, TypeInv, TypeOK
      <4> QED BY <1>0, <1>1, <2>2, <4>1, <4>3 DEF Sound, FreshOK
    <3> QED BY <3>2, <3>3, <3>4 DEF Sound
  <2> QED BY <2>3, <2>4
<1>5. ASSUME fresh[e], RemoveExecuted(e) PROVE Sound'
  <2>1. PICK id \in TaskID : shard[id] = n /\ n # NULL
    BY <1>3, <1>5 DEF Registered
  <2>2. info[e].ID = id
    BY <1>3, <1>5, <2>1 DEF Sound, EntriesRight
  <2>3. Recycle(n, id, slotIndex[n]) /\ Outdate(n) /\ slotIndex' = slotIndex
    BY <1>3, <1>5, <2>2 DEF RemoveExecuted
  <2> QED BY <1>0, <1>1, <2>1, <2>3, RecycleKeeps
<1> QED BY <1>2, <1>4, <1>5 DEF HandleTaskScheduling

(* tick starts executions of registered nodes of the slot it is at.        *)
LEMMA TickKeeps == ASSUME TypeInv, Sound, Tick PROVE Sound'
<1> DEFINE s == (currentSlot + 1) % SlotNum
           collected == {n \in Chain(s) : due[n]}
           started == {<<n, IdleCall(n)>> : n \in collected}
<1>1. s \in Slot /\ Registered \in SUBSET Node
  BY NextSlotIsSlot, RegisteredFacts DEF TypeInv, TypeOK
<1>2. \A n \in collected : n \in Registered /\ slotIndex[n] = s
  BY <1>1, WalkStaysInSlot DEF Chain, Sound, Lists, TypeInv
<1>3. \A e \in started : NodeOf(e) \in Registered /\ slotIndex[NodeOf(e)] = s
  BY <1>2 DEF NodeOf
<1>4. /\ pc' = [e \in Exec |-> IF e \in started THEN "start" ELSE pc[e]]
      /\ cur' = [e \in Exec |-> IF e \in started THEN s ELSE cur[e]]
      /\ fresh' = [e \in Exec |-> e \in started \/ fresh[e]]
      /\ UNCHANGED <<slots, next, prev, slotIndex, task, shard, taskPool, client, info>>
  BY DEF Tick, listVars, nodeVars, mapVars
<1> HIDE DEF s, started
<1>5. Registered' = Registered
  BY <1>4 DEF Registered
<1>6. FreshOK'
  <2> SUFFICES ASSUME NEW e \in Exec, fresh'[e]
               PROVE  /\ NodeOf(e) \in Registered'
                      /\ cur'[e] = slotIndex'[NodeOf(e)]
                      /\ pc'[e] \in InTask => info'[e] = task'[NodeOf(e)]
    BY DEF FreshOK
  <2>1. CASE e \in started
    BY <1>3, <1>4, <1>5, <2>1 DEF InTask
  <2>2. CASE e \notin started
    BY <1>4, <1>5, <2>2 DEF Sound, FreshOK
  <2> QED BY <2>1, <2>2
<1>7. Lists' /\ EntriesRight' /\ PreparedPrivate'
  BY <1>4, <1>5, ListsPrime DEF Sound, Lists, EntriesRight, PreparedPrivate, Adding
<1> QED BY <1>6, <1>7 DEF Sound

(* The steps of executeTask outside the locks write no list.               *)
LEMMA WorkerKeeps ==
  ASSUME TypeInv, Sound, NEW e \in Exec, Worker(e), ~staleActed'
  PROVE  Sound'
<1>1. CASE HandleTaskScheduling(e)
  BY <1>1, HandleTaskSchedulingKeeps
<1>2. ASSUME Leave(e)
      PROVE  \A f \in Exec : fresh'[f] =>
               /\ fresh[f] /\ cur'[f] = cur[f]
               /\ pc'[f] \in InTask => pc[f] \in InTask /\ info'[f] = info[f]
  BY <1>2 DEF Leave, Goto, InTask, TypeInv, TypeOK
<1>3. ASSUME SkipExecution(e) \/ Finish(e) PROVE Sound'
  <2>1. Leave(e) /\ UNCHANGED <<listVars, mapVars, task, client>>
    BY <1>3 DEF SkipExecution, Finish, Quiet, nodeVars
  <2> QED BY <1>2, <2>1, Frame
<1>4. ASSUME CopyTaskInfo(e) PROVE Sound'
  <2>1. /\ pc' = [pc EXCEPT ![e] = IF task[NodeOf(e)] = NULL THEN "finish" ELSE "context"]
        /\ info' = [info EXCEPT ![e] = task[NodeOf(e)]]
        /\ UNCHANGED <<listVars, mapVars, task, client, cur, fresh>>
    BY <1>4 DEF CopyTaskInfo, Goto, Quiet, nodeVars, histVars
  <2>2. \A f \in Exec : pc'[f] \in InTask => \/ pc[f] \in InTask /\ info'[f] = info[f]
                                             \/ info'[f] = task[NodeOf(f)]
    BY <2>1 DEF TypeInv, TypeOK
  <2> QED BY <2>1, <2>2, Frame
<1>5. ASSUME UNCHANGED <<listVars, mapVars, task, client, cur, fresh, info>>,
             \A f \in Exec : pc'[f] \in InTask => pc[f] \in InTask
      PROVE  Sound'
  BY <1>5, Frame
<1> USE DEF Goto, Quiet, nodeVars, histVars, InTask, TypeInv, TypeOK
<1>6. CASE AcquireSemaphore(e)
  BY <1>5, <1>6 DEF AcquireSemaphore
<1>7. CASE CheckTaskState(e)
  BY <1>5, <1>7 DEF CheckTaskState
<1>8. CASE RunTask(e)
  BY <1>5, <1>8 DEF RunTask
<1>9. CASE CallRun(e)
  BY <1>5, <1>9 DEF CallRun
<1>10. CASE RunReturns(e)
  BY <1>5, <1>10 DEF RunReturns
<1>11. CASE RunPanics(e)
  BY <1>5, <1>11 DEF RunPanics
<1>12. CASE LoadExecuted(e)
  BY <1>5, <1>12 DEF LoadExecuted
<1>13. CASE StoreExecuted(e)
  BY <1>5, <1>13 DEF StoreExecuted
<1>14. CASE Recheck(e)
  BY <1>5, <1>14 DEF Recheck
<1> QED BY <1>1, <1>3, <1>4, <1>6, <1>7, <1>8, <1>9, <1>10, <1>11, <1>12, <1>13, <1>14
        DEF Worker

(* A step of a caller of AddTask or UpdateTask.                            *)
LEMMA CallKeeps ==
  ASSUME TypeInv, Sound, NEW c \in Client, Call(c)
  PROVE  Sound'
<1>0. ASSUME UNCHANGED <<listVars, mapVars, task, pc, info, cur, fresh>>,
             \A d \in Client : client'[d].op = "commit" => client'[d] = client[d]
      PROVE  Sound'
  BY <1>0, Frame
<1>1. ASSUME FailedAdd(c)
      PROVE  \A d \in Client : client'[d].op = "commit" => client'[d] = client[d]
  BY <1>1 DEF FailedAdd, NoCall, TypeInv, TypeOK
<1>2. ASSUME NEW t, NEW old, Admit(c, t, old) PROVE Sound'
  BY <1>0, <1>2 DEF Admit, nodeVars, execVars, histVars, TypeInv, TypeOK
<1>3. ASSUME NEW t \in Task, UpdateTask(c, t) PROVE Sound'
  BY <1>0, <1>3 DEF UpdateTask, nodeVars, execVars, histVars, TypeInv, TypeOK
<1>4. CASE UpdateRemove(c)
  <2>1. \A d \in Client : client'[d].op = "commit" => client'[d] = client[d]
    BY <1>4 DEF UpdateRemove, NoCall, TypeInv, TypeOK, CallState
  <2>2. client[c].task.ID \in TaskID
    BY <1>4, TaskAssumption DEF UpdateRemove, TypeInv, ClientOK
  <2>3. CASE Remove(client[c].task.ID)
    BY <2>1, <2>2, <2>3, RecycleKeeps DEF Remove, execVars
  <2>4. CASE UNCHANGED <<wheelVars, listVars, nodeVars, mapVars, execVars, histVars>>
    BY <1>0, <2>1, <2>4 DEF nodeVars, execVars, histVars
  <2> QED BY <1>4, <2>3, <2>4 DEF UpdateRemove
<1>5. CASE UpdateAdd(c)
  <2>1. CASE Admit(c, client[c].task, client[c].old)
    BY <1>2, <2>1
  <2>2. CASE FailedAdd(c) /\ UNCHANGED <<wheelVars, listVars, nodeVars, mapVars,
                                         execVars, histVars>>
    BY <1>0, <1>1, <2>2 DEF nodeVars, execVars, histVars
  <2> QED BY <1>5, <2>1, <2>2 DEF UpdateAdd
<1>6. CASE UpdateRollback(c)
  <2>1. CASE Admit(c, client[c].old, NULL)
    BY <1>2, <2>1
  <2>2. CASE /\ client' = [client EXCEPT ![c] = NoCall]
             /\ UNCHANGED <<wheelVars, listVars, nodeVars, mapVars, execVars, histVars>>
    BY <1>0, <2>2 DEF nodeVars, execVars, histVars, NoCall, TypeInv, TypeOK
  <2> QED BY <1>6, <2>1, <2>2 DEF UpdateRollback
<1> QED BY <1>2, <1>3, <1>4, <1>5, <1>6, PrepareKeeps, AddCommitKeeps, AddRejectedKeeps
        DEF Call, AddTask

(* RemoveTask, ClearAllTasks, PauseTask, ResumeTask, Start, Stop, the clock *)
LEMMA OtherKeeps ==
  ASSUME TypeInv, Sound,
         \/ \E id \in TaskID : Control(id)
         \/ Lifecycle \/ \E n \in Node : TimePasses(n)
  PROVE  Sound'
<1>0. ASSUME UNCHANGED <<listVars, mapVars, task, client, pc, info, cur, fresh>>
      PROVE  Sound'
  BY <1>0, Frame
<1>1. ASSUME NEW id \in TaskID, Remove(id), UNCHANGED client PROVE Sound'
  BY <1>1, RecycleKeeps DEF Remove, execVars
<1>2. ASSUME NEW id \in TaskID, Control(id) PROVE Sound'
  <2>1. CASE PauseTask(id) \/ ResumeTask(id)
    BY <1>0, <2>1 DEF PauseTask, ResumeTask, execVars, histVars
  <2> QED BY <1>1, <1>2, <2>1 DEF Control, RemoveTask, ClearAllTasks
<1>3. CASE Lifecycle
  BY <1>0, <1>3 DEF Lifecycle, Start, StopBegin, LoopExit, LoopAwaited, StopEnd, nodeVars, execVars,
                    histVars
<1>4. ASSUME NEW n \in Node, TimePasses(n) PROVE Sound'
  BY <1>0, <1>4 DEF TimePasses, execVars, histVars
<1> QED BY <1>2, <1>3, <1>4
-----------------------------------------------------------------------------
LEMMA ListInit == Init => ListInv
<1> SUFFICES ASSUME Init PROVE ListInv
  OBVIOUS
<1>1. Registered = {}
  BY DEF Init, Registered
<1>2. Lists
  <2>1. WellLinked(Registered, slots, next, prev, slotIndex)
    BY <1>1 DEF Init, WellLinked
  <2>2. Reachable(Registered, slots, next)
    BY <1>1 DEF Reachable
  <2> QED BY <2>1, <2>2 DEF Lists
<1>3. EntriesRight
  BY DEF Init, EntriesRight
<1>4. PreparedPrivate
  BY DEF Init, PreparedPrivate, Adding, NoCall
<1>5. FreshOK
  BY DEF Init, FreshOK
<1> QED BY <1>2, <1>3, <1>4, <1>5, InitType DEF ListInv, Sound

(* An execution that was not fresh when it acted is never forgotten.       *)
LEMMA StaleForEver == ASSUME TypeInv, [Next]_vars, ~staleActed' PROVE ~staleActed
<1>1. ASSUME NEW e \in Exec, Worker(e), ~staleActed' PROVE ~staleActed
  BY <1>1 DEF Worker, AcquireSemaphore, SkipExecution, CheckTaskState, CopyTaskInfo, RunTask,
              CallRun, RunReturns, RunPanics, LoadExecuted, StoreExecuted, Recheck,
              HandleTaskScheduling, Finish, histVars
<1>2. ASSUME NEW c \in Client, Call(c) PROVE staleActed' = staleActed
  BY <1>2 DEF Call, AddTask, Admit, UpdateTask, AddRejected, AddCommit, UpdateRemove, UpdateAdd,
              UpdateRollback, Prepare, Remove, histVars
<1>3. ASSUME NEW id \in TaskID, Control(id) PROVE staleActed' = staleActed
  BY <1>3 DEF Control, RemoveTask, ClearAllTasks, PauseTask, ResumeTask, Remove, histVars
<1>4. ASSUME Lifecycle PROVE staleActed' = staleActed
  BY <1>4 DEF Lifecycle, Start, StopBegin, LoopExit, LoopAwaited, StopEnd, histVars
<1>5. ASSUME NEW n \in Node, TimePasses(n) PROVE staleActed' = staleActed
  BY <1>5 DEF TimePasses, histVars
<1>6. ASSUME Tick PROVE staleActed' = staleActed
  BY <1>6 DEF Tick
<1>7. ASSUME UNCHANGED vars PROVE staleActed' = staleActed
  BY <1>7 DEF vars, histVars
<1> QED BY <1>1, <1>2, <1>3, <1>4, <1>5, <1>6, <1>7 DEF Next

LEMMA ListNext == ListInv /\ [Next]_vars => ListInv'
<1> SUFFICES ASSUME ListInv, [Next]_vars PROVE ListInv'
  OBVIOUS
<1>1. TypeInv'
  BY NextType DEF ListInv
<1>2. ASSUME ~staleActed' PROVE Sound'
  <2>1. TypeInv /\ Sound
    BY <1>2, StaleForEver DEF ListInv
  <2>2. CASE UNCHANGED vars
    BY <2>1, <2>2, Frame DEF vars, listVars, mapVars, nodeVars, execVars, histVars
  <2>3. ASSUME NEW c \in Client, Call(c) PROVE Sound'
    BY <2>1, <2>3, CallKeeps
  <2>4. ASSUME NEW e \in Exec, Worker(e) PROVE Sound'
    BY <1>2, <2>1, <2>4, WorkerKeeps
  <2>5. CASE Tick
    BY <2>1, <2>5, TickKeeps
  <2> QED BY <2>1, <2>2, <2>3, <2>4, <2>5, OtherKeeps DEF Next
<1> QED BY <1>1, <1>2 DEF ListInv

(* Before a stale execution acts, the slots are doubly linked lists of     *)
(* exactly the registered nodes (WellLinked), in every interleaving of     *)
(* AddTask, RemoveTask, UpdateTask, ClearAllTasks, tick and executeTask.   *)
THEOREM ListsStayIntact == Spec => []ListsIntact
<1>1. ListInv => ListsIntact
  BY DEF ListInv, Sound, Lists, ListsIntact
<1> QED BY ListInit, ListNext, <1>1, PTL DEF Spec

(* ... every registered node is on the walk from the head of its list ...  *)
THEOREM TasksAreNotLost == Spec => []NoTaskLost
<1>1. ListInv => NoTaskLost
  BY DEF ListInv, Sound, Lists, NoTaskLost
<1> QED BY ListInit, ListNext, <1>1, PTL DEF Spec

(* ... and the task map holds each node under the ID of its task, and none *)
(* that is in the pool or that an AddTask call is still filling.           *)
THEOREM MapStaysIntact == Spec => []MapIntact
<1>1. ListInv => MapIntact
  BY DEF ListInv, Sound, MapIntact
<1> QED BY ListInit, ListNext, <1>1, PTL DEF Spec
-----------------------------------------------------------------------------
(***************************************************************************)
(* UpdateTask's rollback.  What makes it work is that the call holds a     *)
(* copy of the old task from before the removal on: without one a failed   *)
(* AddTask is the end of the call (FailedAdd).                             *)
(***************************************************************************)

OldKept ==
  \A c \in Client : client[c].op \in {"updateRemove", "updateAdd"} => client[c].old # NULL

UpdateInv == ListInv /\ (~staleActed => OldKept)

LEMMA CallKeepsOld ==
  ASSUME TypeInv, Sound, OldKept, NEW c \in Client, Call(c)
  PROVE  OldKept'
<1>0. client \in [Client -> CallState]
  BY DEF TypeInv, TypeOK
<1>1. ASSUME NEW r, client' = [client EXCEPT ![c] = r],
             r.op \in {"updateRemove", "updateAdd"} => r.old # NULL
      PROVE  OldKept'
  BY <1>0, <1>1 DEF OldKept
<1>2. ASSUME NEW t, NEW old, Admit(c, t, old) PROVE OldKept'
  BY <1>1, <1>2 DEF Admit
<1>3. ASSUME FailedAdd(c) PROVE OldKept'
  <2>1. client'[c].op \notin {"updateRemove", "updateAdd"}
    BY <1>0, <1>3 DEF FailedAdd, NoCall
  <2>2. \A d \in Client \ {c} : client'[d] = client[d]
    BY <1>0, <1>3 DEF FailedAdd
  <2> QED BY <2>1, <2>2 DEF OldKept
<1>4. ASSUME client' = [client EXCEPT ![c] = NoCall] PROVE OldKept'
  BY <1>1, <1>4 DEF NoCall
<1>5. ASSUME NEW t \in Task, UpdateTask(c, t) PROVE OldKept'
  <2>1. shard[t.ID] # NULL /\ t.ID \in TaskID
    BY <1>5, TaskAssumption DEF UpdateTask
  <2>2. task[shard[t.ID]] # NULL
    BY <2>1 DEF Sound, EntriesRight
  <2> QED BY <1>1, <1>5, <2>2 DEF UpdateTask
<1>6. CASE Prepare(c)
  BY <1>0, <1>6 DEF Prepare, OldKept, CallState
<1>7. CASE UpdateRemove(c)
  BY <1>0, <1>4, <1>7 DEF UpdateRemove, OldKept, CallState
<1> QED BY <1>2, <1>3, <1>4, <1>5, <1>6, <1>7
        DEF Call, AddTask, AddRejected, AddCommit, UpdateAdd, UpdateRollback

(* Only its own caller moves a call on.                                    *)
LEMMA OthersLeaveCalls ==
  ASSUME [Next]_vars, \A c \in Client : ~Call(c)
  PROVE  client' = client
<1>1. ASSUME NEW id \in TaskID, Control(id) PROVE client' = client
  BY <1>1 DEF Control, RemoveTask, ClearAllTasks, PauseTask, ResumeTask
<1>2. ASSUME NEW e \in Exec, Worker(e) PROVE client' = client
  BY <1>2 DEF Worker, AcquireSemaphore, SkipExecution, CheckTaskState, CopyTaskInfo, RunTask,
              CallRun, RunReturns, RunPanics, LoadExecuted, StoreExecuted, Recheck,
              HandleTaskScheduling, Finish, Quiet
<1> QED BY <1>1, <1>2 DEF Next, Lifecycle, Start, StopBegin, LoopExit, LoopAwaited, StopEnd, Tick,
                          TimePasses, vars

LEMMA UpdateNext == UpdateInv /\ [Next]_vars => UpdateInv'
<1> SUFFICES ASSUME UpdateInv, [Next]_vars, ~staleActed' PROVE OldKept'
  BY ListNext DEF UpdateInv
<1>1. TypeInv /\ Sound /\ OldKept
  BY StaleForEver DEF UpdateInv, ListInv
<1>2. CASE \E c \in Client : Call(c)
  BY <1>1, <1>2, CallKeepsOld
<1>3. CASE \A c \in Client : ~Call(c)
  BY <1>1, <1>3, OthersLeaveCalls DEF OldKept
<1> QED BY <1>2, <1>3

(* A call that ends past the removal ends with its ID in the map.          *)
LEMMA CallEndsRegistered ==
  ASSUME TypeInv, OldKept, NEW d \in Client, Call(d), NEW c \in Client,
         client[c].op \in {"updateAdd", "rollback", "commit"}, client'[c].op = "idle",
         phase = "running"
  PROVE  shard'[client[c].task.ID] # NULL
<1>0. client \in [Client -> CallState]
  BY DEF TypeInv, TypeOK
<1>1. c = d
  BY <1>0 DEF Call, AddTask, Admit, Prepare, AddRejected, AddCommit, UpdateTask, UpdateRemove,
              UpdateAdd, UpdateRollback, FailedAdd
<1>2. ASSUME NEW t, NEW old, Admit(c, t, old) PROVE FALSE
  BY <1>0, <1>2 DEF Admit
<1>3. ASSUME UpdateAdd(c) PROVE FALSE
  <2>1. FailedAdd(c) /\ client[c].old # NULL
    BY <1>2, <1>3 DEF UpdateAdd, OldKept
  <2> QED BY <1>0, <2>1 DEF FailedAdd
<1>4. ~UpdateRollback(c)
  BY <1>2 DEF UpdateRollback
<1>5. CASE AddRejected(c)
  BY <1>5 DEF AddRejected
<1>6. CASE AddCommit(c)
  <2>1. client[c].node \in Node /\ client[c].task.ID \in TaskID
    BY <1>6, TaskAssumption DEF AddCommit, TypeInv, ClientOK
  <2> QED BY <1>6, <2>1, NullAssumption DEF AddCommit, TypeInv, TypeOK
<1> QED BY <1>1, <1>2, <1>3, <1>4, <1>5, <1>6
        DEF Call, AddTask, UpdateTask, Prepare, UpdateRemove

(* While the wheel runs, an UpdateTask that has removed its task ends with *)
(* the ID in the map again, whatever becomes of the new task and however   *)
(* many other callers add and remove the same ID meanwhile.                *)
THEOREM UpdatesKeepTheirTask == Spec => UpdateKeepsTask
<1>1. Init => UpdateInv
  BY ListInit DEF UpdateInv, OldKept, Init, NoCall
<1> DEFINE EndsKept(c) == (/\ client[c].op \in {"updateAdd", "rollback", "commit"}
                           /\ client'[c].op = "idle"
                           /\ phase = "running" /\ ~staleActed)
                          => shard'[client[c].task.ID] # NULL
<1>2. ASSUME UpdateInv, Next, NEW c \in Client PROVE EndsKept(c)
  <2> SUFFICES ASSUME client[c].op \in {"updateAdd", "rollback", "commit"},
                      client'[c].op = "idle", phase = "running", ~staleActed
               PROVE  shard'[client[c].task.ID] # NULL
    OBVIOUS
  <2>1. \E d \in Client : Call(d)
    BY <1>2, OthersLeaveCalls
  <2> QED BY <1>2, <2>1, CallEndsRegistered DEF UpdateInv, ListInv
<1>3. UpdateInv /\ [Next]_vars => [\A c \in Client : EndsKept(c)]_vars
  BY <1>2
<1>4. Spec => [][\A c \in Client : EndsKept(c)]_vars
  <2> HIDE DEF EndsKept
  <2> QED BY <1>1, <1>3, UpdateNext, PTL DEF Spec
<1> QED BY <1>4 DEF UpdateKeepsTask
-----------------------------------------------------------------------------
(***************************************************************************)
(* The counts of executions.  A node in use has a task and is not in the   *)
(* pool; ran counts the calls of its task function and executed what       *)
(* updateTaskResult has added up.  When one execution of a node runs at a  *)
(* time, ran is ahead of executed only between the call and the store, and *)
(* executed reaches the limit only in the execution that retires the task. *)
(***************************************************************************)

Live(n) == task[n] # NULL /\ n \notin taskPool

InRun(e) == pc[e] \in {"running", "load", "store"}
Ending(e) == fresh[e] /\ pc[e] \in {"recheck", "schedule"}

CountsAgree(e) ==
  LET n == NodeOf(e)
  IN /\ ran[n] <= executed[n] + (IF InRun(e) THEN 1 ELSE 0)
     /\ pc[e] = "store" /\ fresh[e] => seen[e] = executed[n]
     /\ task[n].Mode # "Repeated" =>
          \/ executed[n] < Limit(task[n])
          \/ executed[n] = Limit(task[n]) /\ Ending(e)

Admitted == \A c \in Client : client[c].op = "prepare" => client[c].task.Valid

CountsRight == Admitted /\ \A e \in Exec : Live(NodeOf(e)) => CountsAgree(e)

OneAtATime == Overlap = 1 /\ ~Panics

CountInv == ListInv /\ (OneAtATime /\ ~staleActed => CountsRight)

(* Registered nodes are in use, and so are the nodes of fresh executions.  *)
LEMMA LiveFacts ==
  ASSUME TypeInv, Sound
  PROVE  /\ \A n \in Registered : n \in Node /\ Live(n)
         /\ \A e \in Exec : fresh[e] => Live(NodeOf(e)) /\ NodeOf(e) \in Node
<1>1. \A n \in Registered : n \in Node /\ Live(n)
  BY RegisteredFacts DEF Registered, Sound, EntriesRight, Live
<1> QED BY <1>1 DEF Sound, FreshOK

LEMMA RecycledFacts ==
  ASSUME TypeInv, NEW n \in Node, NEW id, NEW s, Recycle(n, id, s)
  PROVE  /\ ~Live(n)'
         /\ \A m \in Node \ {n} : /\ task'[m] = task[m] /\ ctx'[m] = ctx[m]
                                  /\ Live(m)' => Live(m)
BY DEF Recycle, Live, TypeInv, TypeOK

(* What the step does to an execution and its node disturbs no count.      *)
LEMMA CountFrame ==
  ASSUME NEW e \in Exec, CountsAgree(e),
         task'[NodeOf(e)] = task[NodeOf(e)], ran'[NodeOf(e)] = ran[NodeOf(e)],
         executed'[NodeOf(e)] = executed[NodeOf(e)],
         InRun(e) <=> InRun(e)', Ending(e) => Ending(e)',
         pc'[e] = "store" /\ fresh'[e] =>
           pc[e] = "store" /\ fresh[e] /\ seen'[e] = seen[e]
  PROVE  CountsAgree(e)'
BY DEF CountsAgree

LEMMA CountsUnchanged ==
  ASSUME CountsRight, UNCHANGED <<task, taskPool, executed, ran, pc, fresh, seen>>,
         \A c \in Client : client'[c].op = "prepare" =>
            client'[c] = client[c] \/ client'[c].task.Valid
  PROVE  CountsRight'
<1>1. Admitted'
  BY DEF CountsRight, Admitted
<1>2. ASSUME NEW e \in Exec, Live(NodeOf(e))' PROVE CountsAgree(e)'
  BY <1>2, CountFrame DEF CountsRight, Live, InRun, Ending
<1> QED BY <1>1, <1>2 DEF CountsRight

LEMMA RemoveCounts ==
  ASSUME TypeInv, CountsRight, NEW id \in TaskID, Remove(id),
         \A c \in Client : client'[c].op = "prepare" => client'[c] = client[c]
  PROVE  CountsRight'
<1> DEFINE n == shard[id]
<1>1. n \in Node /\ Recycle(n, id, slotIndex[n]) /\ Outdate(n)
      /\ UNCHANGED <<executed, ran, pc, seen>>
  BY DEF Remove, TypeInv, TypeOK, execVars
<1>2. Admitted'
  BY DEF CountsRight, Admitted
<1>3. ASSUME NEW e \in Exec, Live(NodeOf(e))' PROVE CountsAgree(e)'
  <2>1. NodeOf(e) \in Node
    BY DEF Exec, NodeOf
  <2>2. NodeOf(e) # n /\ task'[NodeOf(e)] = task[NodeOf(e)] /\ Live(NodeOf(e))
    BY <1>1, <1>3, <2>1, RecycledFacts
  <2>3. fresh'[e] = fresh[e]
    BY <1>1, <2>2 DEF Outdate, TypeInv, TypeOK
  <2> QED BY <1>1, <2>2, <2>3, CountFrame DEF CountsRight, InRun, Ending
<1> QED BY <1>2, <1>3 DEF CountsRight

(* AddTask resets both counts of the node it takes from the pool.          *)
LEMMA PrepareCounts ==
  ASSUME TypeInv, Sound, CountsRight, NEW c \in Client, Prepare(c)
  PROVE  CountsRight'
<1> DEFINE t == client[c].task
<1>0. t \in Task /\ t.Valid
  BY DEF Prepare, TypeInv, ClientOK, CountsRight, Admitted
<1>1. PICK n \in Node :
        /\ n \in taskPool /\ taskPool' = taskPool \ {n}
        /\ task' = [task EXCEPT ![n] = t]
        /\ executed' = [executed EXCEPT ![n] = 0]
        /\ ran' = [ran EXCEPT ![n] = 0]
        /\ client' = [client EXCEPT ![c].op = "commit", ![c].node = n]
        /\ UNCHANGED <<pc, seen, fresh>>
  BY DEF Prepare, Get, ResetCount, execVars
<1>2. Admitted'
  BY <1>1 DEF CountsRight, Admitted, TypeInv, TypeOK, CallState
<1>3. ASSUME NEW e \in Exec, NodeOf(e) = n PROVE CountsAgree(e)'
  <2>1. ~fresh'[e]
    BY <1>1, <1>3, LiveFacts DEF Live
  <2>2. task'[n] = t /\ executed'[n] = 0 /\ ran'[n] = 0
    BY <1>1 DEF TypeInv, TypeOK
  <2>3. t.Mode # "Repeated" => 0 < Limit(t)
    BY <1>0, TaskAssumption DEF Limit, Modes
  <2> QED BY <1>3, <2>1, <2>2, <2>3 DEF CountsAgree
<1>4. ASSUME NEW e \in Exec, NodeOf(e) # n, Live(NodeOf(e))' PROVE CountsAgree(e)'
  <2>1. NodeOf(e) \in Node
    BY DEF Exec, NodeOf
  <2>2. /\ task'[NodeOf(e)] = task[NodeOf(e)] /\ ran'[NodeOf(e)] = ran[NodeOf(e)]
        /\ executed'[NodeOf(e)] = executed[NodeOf(e)] /\ Live(NodeOf(e))
    BY <1>1, <1>4, <2>1 DEF Live, TypeInv, TypeOK
  <2> QED BY <1>1, <2>2, CountFrame DEF CountsRight, InRun, Ending
<1> QED BY <1>2, <1>3, <1>4 DEF CountsRight

LEMMA CallCounts ==
  ASSUME TypeInv, Sound, CountsRight, NEW c \in Client, Call(c)
  PROVE  CountsRight'
<1>0. client \in [Client -> CallState]
  BY DEF TypeInv, TypeOK
<1>1. ASSUME UNCHANGED <<task, taskPool, executed, ran, pc, fresh, seen>>,
             NEW r, client' = [client EXCEPT ![c] = r], r.op = "prepare" => r.task.Valid
      PROVE  CountsRight'
  BY <1>0, <1>1, CountsUnchanged
<1>2. ASSUME NEW t, NEW old, Admit(c, t, old) PROVE CountsRight'
  BY <1>1, <1>2 DEF Admit, nodeVars, mapVars, execVars, histVars
<1>3. ASSUME FailedAdd(c)
      PROVE  \A d \in Client : client'[d].op = "prepare" => client'[d] = client[d]
  BY <1>0, <1>3 DEF FailedAdd, NoCall
<1>4. ASSUME FailedAdd(c), UNCHANGED <<nodeVars, mapVars, execVars, histVars>>
      PROVE  CountsRight'
  BY <1>3, <1>4, CountsUnchanged DEF nodeVars, mapVars, execVars, histVars
<1>5. ASSUME NEW t \in Task, UpdateTask(c, t) PROVE CountsRight'
  BY <1>1, <1>5 DEF UpdateTask, nodeVars, mapVars, execVars, histVars
<1>6. CASE AddRejected(c)
  <2>1. Admitted'
    BY <1>3, <1>6 DEF AddRejected, CountsRight, Admitted
  <2>2. ASSUME NEW e \in Exec, Live(NodeOf(e))' PROVE CountsAgree(e)'
    BY <1>6, <2>2, CountFrame DEF AddRejected, nodeVars, execVars, histVars, CountsRight,
                                  Live, InRun, Ending
  <2> QED BY <2>1, <2>2 DEF CountsRight
<1>7. CASE AddCommit(c)
  BY <1>1, <1>7 DEF AddCommit, NoCall, nodeVars, execVars, histVars
<1>8. CASE UpdateRemove(c)
  <2>1. client[c].task.ID \in TaskID
    BY <1>8, TaskAssumption DEF UpdateRemove, TypeInv, ClientOK
  <2>2. \A d \in Client : client'[d].op = "prepare" => client'[d] = client[d]
    BY <1>0, <1>8 DEF UpdateRemove, NoCall, CallState
  <2> QED BY <1>8, <2>1, <2>2, RemoveCounts, CountsUnchanged
          DEF UpdateRemove, nodeVars, mapVars, execVars, histVars
<1>9. CASE UpdateRollback(c)
  BY <1>1, <1>2, <1>9 DEF UpdateRollback, NoCall, nodeVars, mapVars, execVars, histVars
<1>10. CASE UpdateAdd(c)
  BY <1>2, <1>4, <1>10 DEF UpdateAdd
<1> QED BY <1>2, <1>5, <1>6, <1>7, <1>8, <1>9, <1>10, PrepareCounts DEF Call, AddTask

(* Executions of the same node are the same one.                           *)
LEMMA OneExecution ==
  ASSUME Overlap = 1, NEW e \in Exec, NEW f \in Exec, NodeOf(e) = NodeOf(f)
  PROVE  e = f
BY DEF Exec, NodeOf

(* The counts of the node an execution works on.                           *)
LEMMA WorkerCountsOwn ==
  ASSUME TypeInv, Sound, NEW e \in Exec, Worker(e), ~staleActed', ~Panics,
         Live(NodeOf(e)) => CountsAgree(e), Live(NodeOf(e))'
  PROVE  CountsAgree(e)'
<1> DEFINE n == NodeOf(e)
<1>0. /\ n \in Node /\ ran[n] \in 0 .. CountCap /\ executed[n] \in 0 .. CountCap
      /\ ran \in [Node -> 0 .. CountCap] /\ executed \in [Node -> 0 .. CountCap]
      /\ pc \in [Exec -> PC] /\ seen \in [Exec -> 0 .. CountCap] /\ fresh \in [Exec -> BOOLEAN]
  BY DEF Exec, NodeOf, TypeInv, TypeOK
<1>1. ASSUME UNCHANGED <<task, taskPool, ran, executed, seen, fresh>>,
             pc[e] \notin {"recheck", "schedule"}, NEW label,
             pc' = [pc EXCEPT ![e] = label], label # "store",
             InRun(e) => label \in {"running", "load"}
      PROVE  CountsAgree(e)'
  <2>1. CountsAgree(e) /\ pc'[e] = label
    BY <1>0, <1>1 DEF Live
  <2> QED BY <1>0, <1>1, <2>1 DEF CountsAgree, InRun, Ending
<1>2. CASE AcquireSemaphore(e) \/ CheckTaskState(e) \/ CopyTaskInfo(e) \/ RunTask(e)
           \/ RunReturns(e)
  BY <1>1, <1>2 DEF AcquireSemaphore, CheckTaskState, CopyTaskInfo, RunTask, RunReturns, Goto,
                    Quiet, mapVars, nodeVars, histVars, InRun
<1>3. CASE CallRun(e)
  <2>1. task[n] # NULL /\ CountsAgree(e) /\ UNCHANGED <<task, executed, seen, fresh>>
    BY <1>3 DEF CallRun, Quiet, mapVars, nodeVars, Live
  <2>2. /\ pc[e] = "call" /\ pc' = [pc EXCEPT ![e] = "running"]
        /\ ran' = [ran EXCEPT ![n] = Saturate(@)]
    BY <1>3, <2>1 DEF CallRun, Goto
  <2>3. ran'[n] <= ran[n] + 1 /\ pc'[e] = "running"
    BY <1>0, <2>2, BoundAssumption DEF Saturate
  <2>4. ran[n] <= executed[n] /\ ran'[n] \in Int
    BY <1>0, <2>1, <2>2, BoundAssumption DEF CountsAgree, InRun, Saturate
  <2> QED BY <1>0, <2>1, <2>2, <2>3, <2>4 DEF CountsAgree, InRun, Ending
<1>4. CASE LoadExecuted(e)
  <2>1. CountsAgree(e) /\ UNCHANGED <<task, ran, executed, fresh>>
    BY <1>4 DEF LoadExecuted, Quiet, mapVars, nodeVars, histVars, Live
  <2>2. pc[e] = "load" /\ pc'[e] = "store" /\ seen'[e] = executed[n]
    BY <1>0, <1>4 DEF LoadExecuted, Goto
  <2> QED BY <1>0, <2>1, <2>2 DEF CountsAgree, InRun, Ending
<1>5. CASE StoreExecuted(e)
  <2>1. /\ UNCHANGED <<task, ran, seen, fresh>> /\ CountsAgree(e)
        /\ pc[e] = "store" /\ pc'[e] = "recheck"
    BY <1>0, <1>5 DEF StoreExecuted, Goto, Quiet, mapVars, Live
  <2>2. fresh[e]
    BY <1>5, <2>1 DEF StoreExecuted, Live
  <2>3. executed'[n] = Saturate(executed[n])
    BY <1>0, <1>5, <2>1, <2>2 DEF StoreExecuted, CountsAgree
  <2>4. task[n] \in Task
    BY <2>1 DEF Live, TypeInv, TypeOK, Exec, NodeOf
  <2>5. Limit(task[n]) \in Nat
    BY <2>4, TaskAssumption, BoundAssumption DEF Limit
  <2> QED BY <1>0, <2>1, <2>2, <2>3, <2>5, BoundAssumption DEF CountsAgree, InRun, Ending, Saturate
<1>6. CASE Recheck(e)
  <2>1. UNCHANGED <<task, ran, executed, seen, fresh>> /\ CountsAgree(e) /\ task[n] # NULL
    BY <1>6 DEF Recheck, Quiet, mapVars, nodeVars, histVars, Live
  <2>2. pc[e] = "recheck" /\ pc'[e] = "schedule"
    BY <1>0, <1>6, <2>1 DEF Recheck, Goto
  <2> QED BY <2>1, <2>2 DEF CountsAgree, InRun, Ending
<1>7. CASE HandleTaskScheduling(e)
  <2>1. UNCHANGED <<ran, executed>> /\ pc[e] = "schedule" /\ pc'[e] = "finish"
    BY <1>0, <1>7 DEF HandleTaskScheduling, Goto
  <2>2. task[n] # NULL /\ ~RemoveExecuted(e)
    <3>1. ~RemoveExecuted(e)
      BY <1>0, RecycledFacts DEF RemoveExecuted
    <3>2. task[n] = NULL => task'[n] = NULL
      BY <1>7 DEF HandleTaskScheduling
    <3> QED BY <3>1, <3>2 DEF Live
  <2>3. fresh[e] /\ ShouldReschedule(e) /\ Reschedule(e)
    BY <1>7, <2>2 DEF HandleTaskScheduling
  <2>4. UNCHANGED <<task, taskPool>> /\ CountsAgree(e) /\ info[e] = task[n]
    BY <2>1, <2>3 DEF Reschedule, mapVars, Live, Sound, FreshOK, InTask
  <2>5. task[n].Mode # "Repeated" => executed[n] < Limit(task[n])
    <3>1. task[n] \in Task
      BY <1>0, <2>2 DEF TypeInv, TypeOK
    <3> QED BY <2>3, <2>4, <3>1, TaskAssumption DEF ShouldReschedule, Limit, Modes
  <2> QED BY <2>1, <2>4, <2>5 DEF CountsAgree, InRun, Ending
<1>8. CASE SkipExecution(e) \/ Finish(e)
  <2>1. /\ UNCHANGED <<task, taskPool, ran, executed>> /\ pc[e] \in {"start", "finish"}
        /\ pc'[e] = "idle"
    BY <1>0, <1>8 DEF SkipExecution, Finish, Leave, Goto, Quiet, mapVars, nodeVars
  <2> QED BY <2>1 DEF CountsAgree, InRun, Ending, Live
<1> QED BY <1>2, <1>3, <1>4, <1>5, <1>6, <1>7, <1>8 DEF Worker, RunPanics

(* The counts of another execution, which has another node.                *)
LEMMA WorkerCountsOther ==
  ASSUME TypeInv, NEW e \in Exec, Worker(e), NEW f \in Exec, NodeOf(f) # NodeOf(e),
         Live(NodeOf(f)) => CountsAgree(f), Live(NodeOf(f))'
  PROVE  CountsAgree(f)'
<1>0. NodeOf(e) \in Node /\ NodeOf(f) \in Node /\ e # f
  BY DEF Exec, NodeOf
<1>1. pc'[f] = pc[f] /\ seen'[f] = seen[f] /\ fresh'[f] = fresh[f]
  BY <1>0 DEF Worker, AcquireSemaphore, SkipExecution, CheckTaskState, CopyTaskInfo, RunTask,
         CallRun, RunReturns, RunPanics, LoadExecuted, StoreExecuted, Recheck,
         HandleTaskScheduling, Reschedule, RemoveExecuted, Outdate, Finish, Leave, Goto,
         histVars, TypeInv, TypeOK
<1>2. ran'[NodeOf(f)] = ran[NodeOf(f)] /\ executed'[NodeOf(f)] = executed[NodeOf(f)]
  BY <1>0 DEF Worker, AcquireSemaphore, SkipExecution, CheckTaskState, CopyTaskInfo, RunTask,
         CallRun, RunReturns, RunPanics, LoadExecuted, StoreExecuted, Recheck,
         HandleTaskScheduling, Finish, nodeVars, histVars, TypeInv, TypeOK
<1>3. task'[NodeOf(f)] = task[NodeOf(f)] /\ Live(NodeOf(f))
  <2>1. CASE HandleTaskScheduling(e)
    BY <1>0, <2>1, RecycledFacts
       DEF HandleTaskScheduling, Reschedule, RemoveExecuted, mapVars, Live
  <2>2. CASE ~HandleTaskScheduling(e)
    BY <2>2 DEF Worker, AcquireSemaphore, SkipExecution, CheckTaskState, CopyTaskInfo, RunTask,
         CallRun, RunReturns, RunPanics, LoadExecuted, StoreExecuted, Recheck, Finish, Quiet,
         nodeVars, mapVars, Live
  <2> QED BY <2>1, <2>2
<1> QED BY <1>1, <1>2, <1>3, CountFrame DEF InRun, Ending

LEMMA WorkerCounts ==
  ASSUME TypeInv, Sound, CountsRight, NEW e \in Exec, Worker(e), ~staleActed', OneAtATime
  PROVE  CountsRight'
<1>1. client' = client
  BY DEF Worker, AcquireSemaphore, SkipExecution, CheckTaskState, CopyTaskInfo, RunTask,
         CallRun, RunReturns, RunPanics, LoadExecuted, StoreExecuted, Recheck,
         HandleTaskScheduling, Finish, Quiet
<1>2. Admitted'
  BY <1>1 DEF CountsRight, Admitted
<1>3. ASSUME NEW f \in Exec, Live(NodeOf(f))' PROVE CountsAgree(f)'
  <2>1. CASE f = e
    BY <1>3, <2>1, WorkerCountsOwn DEF CountsRight, OneAtATime
  <2>2. CASE f # e
    BY <1>3, <2>2, OneExecution, WorkerCountsOther DEF CountsRight, OneAtATime
  <2> QED BY <2>1, <2>2
<1> QED BY <1>2, <1>3 DEF CountsRight

LEMMA TickCounts ==
  ASSUME TypeInv, CountsRight, Tick
  PROVE  CountsRight'
<1> DEFINE s == (currentSlot + 1) % SlotNum
           collected == {n \in Chain(s) : due[n]}
           started == {<<n, IdleCall(n)>> : n \in collected}
<1>1. \A e \in started : pc[e] = "idle"
  BY DEF Tick, IdleCall
<1>2. /\ pc' = [e \in Exec |-> IF e \in started THEN "start" ELSE pc[e]]
      /\ fresh' = [e \in Exec |-> e \in started \/ fresh[e]]
      /\ UNCHANGED <<task, taskPool, executed, ran, seen, client>>
  BY DEF Tick, nodeVars, mapVars
<1> HIDE DEF started
<1>3. Admitted'
  BY <1>2 DEF CountsRight, Admitted
<1>4. ASSUME NEW e \in Exec, Live(NodeOf(e))' PROVE CountsAgree(e)'
  BY <1>1, <1>2, <1>4, CountFrame DEF CountsRight, Live, InRun, Ending
<1> QED BY <1>3, <1>4 DEF CountsRight

LEMMA CountInit == Init => CountInv
<1>1. \A e \in Exec : NodeOf(e) \in Node
  BY DEF Exec, NodeOf
<1>2. Init => CountsRight
  BY <1>1 DEF Init, CountsRight, Admitted, NoCall, Live
<1> QED BY <1>2, ListInit DEF CountInv

LEMMA CountNext == CountInv /\ [Next]_vars => CountInv'
<1> SUFFICES ASSUME CountInv, [Next]_vars, OneAtATime, ~staleActed' PROVE CountsRight'
  BY ListNext DEF CountInv, OneAtATime
<1>1. TypeInv /\ Sound /\ CountsRight
  BY StaleForEver DEF CountInv, ListInv
<1>2. CASE UNCHANGED vars
  BY <1>1, <1>2, CountsUnchanged DEF vars, nodeVars, mapVars, execVars, histVars
<1>3. CASE Lifecycle
  BY <1>1, <1>3, CountsUnchanged DEF Lifecycle, Start, StopBegin, LoopExit, LoopAwaited, StopEnd, nodeVars,
                                     mapVars, execVars, histVars
<1>4. ASSUME NEW id \in TaskID, Control(id) PROVE CountsRight'
  <2>1. CASE PauseTask(id) \/ ResumeTask(id)
    BY <1>1, <2>1, CountsUnchanged DEF PauseTask, ResumeTask, mapVars, execVars, histVars
  <2> QED BY <1>1, <1>4, <2>1, RemoveCounts DEF Control, RemoveTask, ClearAllTasks
<1>5. ASSUME NEW n \in Node, TimePasses(n) PROVE CountsRight'
  BY <1>1, <1>5, CountsUnchanged DEF TimePasses, mapVars, execVars, histVars
<1>6. CASE Tick
  BY <1>1, <1>6, TickCounts
<1>7. ASSUME NEW c \in Client, Call(c) PROVE CountsRight'
  BY <1>1, <1>7, CallCounts
<1>8. ASSUME NEW e \in Exec, Worker(e) PROVE CountsRight'
  BY <1>1, <1>8, WorkerCounts
<1> QED BY <1>2, <1>3, <1>4, <1>5, <1>6, <1>7, <1>8 DEF Next

(* When runs of a node never overlap and none panics, a registered Once    *)
(* task has been run at most once and a FixedTimes task at most Times      *)
(* times, on nodes that are recycled for any number of tasks.              *)
THEOREM RunsStayBounded == Spec => []RunsBounded
<1>1. ASSUME CountInv, OneAtATime, ~staleActed, NEW n \in Registered
      PROVE  ran[n] <= Limit(task[n])
  <2>0. TypeInv /\ Sound /\ CountsRight
    BY <1>1 DEF CountInv, ListInv
  <2>1. n \in Node /\ Live(n)
    BY <1>1, <2>0, LiveFacts
  <2>2. <<n, 1>> \in Exec /\ NodeOf(<<n, 1>>) = n
    BY <1>1, <2>1 DEF Exec, NodeOf, OneAtATime
  <2>3. CountsAgree(<<n, 1>>)
    BY <2>0, <2>1, <2>2 DEF CountsRight
  <2>4. /\ ran[n] \in 0 .. CountCap /\ executed[n] \in 0 .. CountCap /\ task[n] \in Task
        /\ pc[<<n, 1>>] \in PC
    BY <2>0, <2>1, <2>2 DEF Live, TypeInv, TypeOK
  <2>5. Limit(task[n]) \in Nat /\ (task[n].Mode = "Repeated" => Limit(task[n]) = CountCap)
    BY <2>4, TaskAssumption, BoundAssumption DEF Limit
  <2> QED BY <2>2, <2>3, <2>4, <2>5, BoundAssumption DEF CountsAgree, InRun, Ending
<1>2. CountInv => RunsBounded
  BY <1>1 DEF RunsBounded, OneAtATime
<1> QED BY CountInit, CountNext, <1>2, PTL DEF Spec
-----------------------------------------------------------------------------
(***************************************************************************)
(* The other bound, with any number of overlapping executions: executed    *)
(* loses increments but never gains one.  An execution that has called the *)
(* function and not yet stored its count still owes an increment, and what *)
(* is stored or loaded, plus what is owed, stays within the calls made.  A *)
(* task with a timeout is excepted: a run skipped on a cancelled context   *)
(* is counted.                                                             *)
(***************************************************************************)

FreshRuns(n) == {e \in Exec : NodeOf(e) = n /\ fresh[e] /\ InRun(e)}

CountsCovered(n) ==
  /\ ctx[n] # NULL
  /\ ~task[n].Timeout /\ ran[n] # CountCap =>
       /\ executed[n] + Cardinality(FreshRuns(n)) <= ran[n]
       /\ \A e \in FreshRuns(n) :
            pc[e] = "store" => seen[e] + Cardinality(FreshRuns(n)) <= ran[n]

AllCovered == \A n \in Node : Live(n) => CountsCovered(n)

CoverInv == ListInv /\ (~staleActed => AllCovered)

LEMMA FreshRunsFinite ==
  ASSUME NEW S \in SUBSET Exec
  PROVE  IsFiniteSet(S) /\ Cardinality(S) \in Nat
<1>1. IsFiniteSet(1 .. Overlap)
  BY BoundAssumption, FS_Interval
<1>2. IsFiniteSet(Exec)
  BY <1>1, BoundAssumption, FS_Product DEF Exec
<1> QED BY <1>2, FS_Subset, FS_CardinalityType

(* A step that counts nothing on a node and adds no run to it.             *)
LEMMA CoverFrame ==
  ASSUME TypeInv, NEW n \in Node, CountsCovered(n), ctx'[n] # NULL,
         task'[n] = task[n], executed'[n] = executed[n], ran'[n] = ran[n],
         FreshRuns(n)' \subseteq FreshRuns(n),
         \A e \in FreshRuns(n)' : pc'[e] = "store" => pc[e] = "store" /\ seen'[e] = seen[e]
  PROVE  CountsCovered(n)'
<1> DEFINE P == Cardinality(FreshRuns(n))
           Q == Cardinality(FreshRuns(n)')
<1>1. FreshRuns(n) \in SUBSET Exec /\ FreshRuns(n)' \in SUBSET Exec
  BY DEF FreshRuns
<1>2. P \in Nat /\ Q \in Nat /\ Q <= P
  BY <1>1, FreshRunsFinite, FS_Subset
<1>3. /\ executed[n] \in Int /\ ran[n] \in Int
      /\ \A e \in FreshRuns(n) : seen[e] \in Int
  BY <1>1 DEF TypeInv, TypeOK
<1>4. ASSUME ~task[n].Timeout /\ ran[n] # CountCap
      PROVE  /\ executed[n] + Q <= ran[n]
             /\ \A e \in FreshRuns(n)' : pc'[e] = "store" => seen'[e] + Q <= ran[n]
  BY <1>2, <1>3, <1>4 DEF CountsCovered
<1> QED BY <1>4 DEF CountsCovered

LEMMA CoverUnchanged ==
  ASSUME TypeInv, AllCovered, UNCHANGED <<task, executed, ran, pc, fresh, seen>>,
         taskPool \subseteq taskPool',
         \A n \in Node : ctx[n] # NULL => ctx'[n] # NULL
  PROVE  AllCovered'
<1> SUFFICES ASSUME NEW n \in Node, Live(n)' PROVE CountsCovered(n)'
  BY DEF AllCovered
<1>1. CountsCovered(n)
  BY DEF AllCovered, Live
<1>2. FreshRuns(n)' = FreshRuns(n)
  BY DEF FreshRuns, InRun
<1> QED BY <1>1, <1>2, CoverFrame DEF CountsCovered

LEMMA RemoveCovered ==
  ASSUME TypeInv, AllCovered, NEW id \in TaskID, Remove(id)
  PROVE  AllCovered'
<1> DEFINE r == shard[id]
<1>1. r \in Node /\ Recycle(r, id, slotIndex[r]) /\ Outdate(r)
      /\ UNCHANGED <<executed, ran, pc, seen>>
  BY DEF Remove, TypeInv, TypeOK, execVars
<1> SUFFICES ASSUME NEW n \in Node, Live(n)' PROVE CountsCovered(n)'
  BY DEF AllCovered
<1>2. n # r /\ task'[n] = task[n] /\ ctx'[n] = ctx[n] /\ Live(n)
  BY <1>1, RecycledFacts
<1>3. CountsCovered(n) /\ ctx'[n] # NULL
  BY <1>2 DEF AllCovered, CountsCovered
<1>4. FreshRuns(n)' \subseteq FreshRuns(n)
  BY <1>1 DEF FreshRuns, InRun, Outdate
<1> QED BY <1>1, <1>2, <1>3, <1>4, CoverFrame

LEMMA PrepareCovered ==
  ASSUME TypeInv, Sound, AllCovered, NEW c \in Client, Prepare(c)
  PROVE  AllCovered'
<1>1. PICK n \in Node :
        /\ n \in taskPool /\ taskPool' = taskPool \ {n}
        /\ task' = [task EXCEPT ![n] = client[c].task]
        /\ ctx' = [ctx EXCEPT ![n] = IF Stopping THEN "cancelled" ELSE "live"]
        /\ executed' = [executed EXCEPT ![n] = 0]
        /\ ran' = [ran EXCEPT ![n] = 0]
        /\ UNCHANGED <<pc, seen, fresh>>
  BY DEF Prepare, Get, ResetCount, execVars
<1> SUFFICES ASSUME NEW m \in Node, Live(m)' PROVE CountsCovered(m)'
  BY DEF AllCovered
<1>2. FreshRuns(m)' = FreshRuns(m)
  BY <1>1 DEF FreshRuns, InRun
<1>3. CASE m = n
  <2>1. FreshRuns(m)' = {}
    BY <1>1, <1>2, <1>3, LiveFacts DEF FreshRuns, Live
  <2>2. executed'[m] = 0 /\ ran'[m] = 0 /\ ctx'[m] # NULL
    BY <1>1, <1>3, NullAssumption DEF TypeInv, TypeOK
  <2> QED BY <2>1, <2>2, FS_EmptySet DEF CountsCovered
<1>4. CASE m # n
  <2>1. /\ Live(m) /\ task'[m] = task[m] /\ ctx'[m] = ctx[m]
        /\ executed'[m] = executed[m] /\ ran'[m] = ran[m]
    BY <1>1, <1>4 DEF Live, TypeInv, TypeOK
  <2>2. CountsCovered(m) /\ ctx'[m] # NULL
    BY <2>1 DEF AllCovered, CountsCovered
  <2> QED BY <1>1, <1>2, <2>1, <2>2, CoverFrame
<1> QED BY <1>3, <1>4

LEMMA CallCovered ==
  ASSUME TypeInv, Sound, AllCovered, NEW c \in Client, Call(c)
  PROVE  AllCovered'
<1>1. ASSUME UNCHANGED <<nodeVars, execVars, histVars>>, taskPool \subseteq taskPool'
      PROVE  AllCovered'
  BY <1>1, CoverUnchanged DEF nodeVars, execVars, histVars
<1>2. ASSUME NEW t, NEW old, Admit(c, t, old) PROVE AllCovered'
  BY <1>1, <1>2 DEF Admit, mapVars
<1>3. ASSUME NEW t \in Task, UpdateTask(c, t) PROVE AllCovered'
  BY <1>1, <1>3 DEF UpdateTask, mapVars
<1>4. CASE UpdateRemove(c)
  <2>1. client[c].task.ID \in TaskID
    BY <1>4, TaskAssumption DEF UpdateRemove, TypeInv, ClientOK
  <2> QED BY <1>1, <1>4, <2>1, RemoveCovered DEF UpdateRemove, mapVars
<1>5. CASE AddRejected(c) \/ AddCommit(c)
  BY <1>1, <1>5 DEF AddRejected, AddCommit
<1>6. CASE UpdateAdd(c)
  BY <1>1, <1>2, <1>6 DEF UpdateAdd, mapVars
<1>7. CASE UpdateRollback(c)
  BY <1>1, <1>2, <1>7 DEF UpdateRollback, mapVars
<1> QED BY <1>2, <1>3, <1>4, <1>5, <1>6, <1>7, PrepareCovered DEF Call, AddTask

(* A run begins: one more call, one more increment owed.                   *)
LEMMA CallRunCovered ==
  ASSUME TypeInv, NEW e \in Exec, CallRun(e), CountsCovered(NodeOf(e)),
         task[NodeOf(e)] # NULL
  PROVE  CountsCovered(NodeOf(e))'
<1> DEFINE n == NodeOf(e)
           P == FreshRuns(n)
<1>0. n \in Node /\ ran \in [Node -> 0 .. CountCap] /\ pc \in [Exec -> PC]
      /\ executed[n] \in Int
  BY DEF Exec, NodeOf, TypeInv, TypeOK
<1>1. /\ pc[e] = "call" /\ pc' = [pc EXCEPT ![e] = "running"]
      /\ ran' = [ran EXCEPT ![n] = Saturate(@)]
      /\ UNCHANGED <<task, ctx, executed, seen, fresh>>
  BY DEF CallRun, Goto, Quiet, nodeVars
<1>2. FreshRuns(n)' = IF fresh[e] THEN P \cup {e} ELSE P
  BY <1>0, <1>1 DEF FreshRuns, InRun
<1>3. P \in SUBSET Exec /\ e \notin P
  BY <1>1 DEF FreshRuns, InRun
<1>4. Cardinality(P) \in Nat /\ Cardinality(FreshRuns(n)') \in Nat
      /\ Cardinality(FreshRuns(n)') <= Cardinality(P) + 1
  BY <1>2, <1>3, FreshRunsFinite, FS_AddElement
<1> HIDE DEF P
<1>5. ASSUME ~task[n].Timeout, ran'[n] # CountCap
      PROVE  /\ executed[n] + Cardinality(FreshRuns(n)') <= ran'[n]
             /\ \A f \in FreshRuns(n)' :
                  pc'[f] = "store" => seen[f] + Cardinality(FreshRuns(n)') <= ran'[n]
  <2>1. ran[n] # CountCap /\ ran'[n] = ran[n] + 1 /\ ran[n] \in Int
    BY <1>0, <1>1, <1>5, BoundAssumption DEF Saturate
  <2>2. executed[n] + Cardinality(P) <= ran[n]
    BY <1>5, <2>1 DEF CountsCovered, P
  <2>3. ASSUME NEW f \in FreshRuns(n)', pc'[f] = "store"
        PROVE  seen[f] + Cardinality(P) <= ran[n] /\ seen[f] \in Int
    <3>1. f \in P /\ pc[f] = "store" /\ f \in Exec
      BY <1>0, <1>1, <1>2, <1>3, <2>3
    <3> QED BY <1>5, <2>1, <3>1 DEF CountsCovered, P, TypeInv, TypeOK
  <2> QED BY <1>0, <1>4, <2>1, <2>2, <2>3
<1> QED BY <1>1, <1>5 DEF CountsCovered

(* The increment is read ...                                               *)
LEMMA LoadCovered ==
  ASSUME TypeInv, NEW e \in Exec, LoadExecuted(e), CountsCovered(NodeOf(e))
  PROVE  CountsCovered(NodeOf(e))'
<1> DEFINE n == NodeOf(e)
<1>0. pc \in [Exec -> PC] /\ seen \in [Exec -> 0 .. CountCap]
  BY DEF TypeInv, TypeOK
<1>1. /\ pc[e] = "load" /\ pc' = [pc EXCEPT ![e] = "store"]
      /\ seen' = [seen EXCEPT ![e] = executed[n]]
      /\ UNCHANGED <<task, ctx, executed, ran, fresh>>
  BY DEF LoadExecuted, Goto, Quiet, nodeVars, histVars
<1>2. FreshRuns(n)' = FreshRuns(n)
  BY <1>0, <1>1 DEF FreshRuns, InRun
<1>3. \A f \in FreshRuns(n) : f \in Exec
  BY DEF FreshRuns
<1> QED BY <1>0, <1>1, <1>2, <1>3 DEF CountsCovered

(* ... and stored, which settles one.                                      *)
LEMMA StoreCovered ==
  ASSUME TypeInv, NEW e \in Exec, StoreExecuted(e), CountsCovered(NodeOf(e)), fresh[e]
  PROVE  CountsCovered(NodeOf(e))'
<1> DEFINE n == NodeOf(e)
           P == FreshRuns(n)
<1>0. /\ n \in Node /\ ran[n] \in 0 .. CountCap /\ pc \in [Exec -> PC]
      /\ executed \in [Node -> 0 .. CountCap] /\ seen \in [Exec -> 0 .. CountCap]
  BY DEF Exec, NodeOf, TypeInv, TypeOK
<1>1. /\ pc[e] = "store" /\ pc' = [pc EXCEPT ![e] = "recheck"]
      /\ executed' = [executed EXCEPT ![n] = Saturate(seen[e])]
      /\ UNCHANGED <<task, ctx, seen, fresh, ran>>
  BY DEF StoreExecuted, Goto
<1>2. e \in P /\ FreshRuns(n)' = P \ {e} /\ P \in SUBSET Exec
  BY <1>0, <1>1 DEF FreshRuns, InRun
<1>3. Cardinality(P) \in Nat /\ Cardinality(FreshRuns(n)') = Cardinality(P) - 1
  BY <1>2, FreshRunsFinite, FS_RemoveElement
<1> HIDE DEF P
<1>4. ASSUME ~task[n].Timeout, ran[n] # CountCap
      PROVE  /\ executed'[n] + Cardinality(FreshRuns(n)') <= ran[n]
             /\ \A f \in FreshRuns(n)' :
                  pc'[f] = "store" => seen[f] + Cardinality(FreshRuns(n)') <= ran[n]
  <2>1. \A f \in P : pc[f] = "store" => seen[f] + Cardinality(P) <= ran[n]
    BY <1>4 DEF CountsCovered, P
  <2>2. executed'[n] <= seen[e] + 1 /\ executed'[n] \in Int
    BY <1>0, <1>1, BoundAssumption DEF Saturate
  <2>3. executed'[n] + Cardinality(FreshRuns(n)') <= ran[n]
    <3>1. seen[e] + Cardinality(P) <= ran[n] /\ seen[e] \in Int /\ ran[n] \in Int
      BY <1>0, <1>1, <1>2, <2>1
    <3> QED BY <1>3, <2>2, <3>1
  <2>4. ASSUME NEW f \in FreshRuns(n)', pc'[f] = "store"
        PROVE  seen[f] + Cardinality(FreshRuns(n)') <= ran[n]
    <3>1. f \in P /\ f \in Exec /\ pc[f] = "store"
      BY <1>0, <1>1, <1>2, <2>4
    <3>2. seen[f] + Cardinality(P) <= ran[n] /\ seen[f] \in Int /\ ran[n] \in Int
      BY <1>0, <2>1, <3>1
    <3> QED BY <1>3, <3>2
  <2> QED BY <2>3, <2>4
<1> QED BY <1>1, <1>4 DEF CountsCovered

(* A worker's step on its own node ...                                     *)
LEMMA WorkerCoveredOwn ==
  ASSUME TypeInv, Sound, NEW e \in Exec, Worker(e), ~staleActed',
         Live(NodeOf(e)) => CountsCovered(NodeOf(e)), Live(NodeOf(e))'
  PROVE  CountsCovered(NodeOf(e))'
<1> DEFINE n == NodeOf(e)
<1>0. n \in Node /\ pc \in [Exec -> PC] /\ fresh \in [Exec -> BOOLEAN]
      /\ seen \in [Exec -> 0 .. CountCap]
  BY DEF Exec, NodeOf, TypeInv, TypeOK
<1>1. ASSUME UNCHANGED <<task, taskPool, ctx, executed, ran>>, NEW label,
             pc' = [pc EXCEPT ![e] = label], label # "store",
             label \in {"running", "load"} => InRun(e),
             \A f \in Exec : fresh'[f] => fresh[f],
             \A f \in Exec \ {e} : seen'[f] = seen[f]
      PROVE  CountsCovered(n)'
  <2>1. CountsCovered(n) /\ ctx'[n] # NULL
    BY <1>1 DEF Live, CountsCovered
  <2>2. FreshRuns(n)' \subseteq FreshRuns(n)
    BY <1>0, <1>1 DEF FreshRuns, InRun
  <2>3. \A f \in FreshRuns(n)' : pc'[f] = "store" => pc[f] = "store" /\ seen'[f] = seen[f]
    BY <1>0, <1>1 DEF FreshRuns
  <2> QED BY <1>0, <1>1, <2>1, <2>2, <2>3, CoverFrame
<1>2. CASE AcquireSemaphore(e) \/ CheckTaskState(e) \/ CopyTaskInfo(e) \/ RunReturns(e)
           \/ RunPanics(e) \/ Recheck(e)
  BY <1>1, <1>2 DEF AcquireSemaphore, CheckTaskState, CopyTaskInfo, RunReturns, RunPanics,
                    Recheck, Goto, Quiet, mapVars, nodeVars, histVars, InRun
<1>3. CASE SkipExecution(e) \/ Finish(e)
  <2>1. UNCHANGED <<task, taskPool, ctx, executed, ran>> /\ Leave(e)
    BY <1>3 DEF SkipExecution, Finish, Quiet, mapVars, nodeVars
  <2> QED BY <1>0, <1>1, <2>1 DEF Leave, Goto
<1>4. CASE RunTask(e)
  <2>1. /\ UNCHANGED <<task, taskPool, ctx, executed, ran, seen, fresh, info>>
        /\ pc[e] = "context" /\ CountsCovered(n)
        /\ pc' = [pc EXCEPT ![e] =
              IF ctx[n] = NULL \/ (info[e].Timeout /\ ctx[n] = "cancelled")
              THEN "load" ELSE "call"]
    BY <1>4 DEF RunTask, Goto, Quiet, mapVars, nodeVars, histVars, Live
  <2>2. CASE task[n].Timeout
    BY <2>1, <2>2 DEF CountsCovered
  <2>3. CASE ~fresh[e]
    <3>1. FreshRuns(n)' = FreshRuns(n)
      BY <1>0, <2>1, <2>3 DEF FreshRuns, InRun
    <3>2. \A f \in FreshRuns(n)' : pc'[f] = "store" => pc[f] = "store"
      BY <1>0, <2>1 DEF FreshRuns
    <3> QED BY <1>0, <2>1, <3>1, <3>2, CoverFrame DEF CountsCovered
  <2>4. CASE fresh[e] /\ ~task[n].Timeout
    <3>1. pc' = [pc EXCEPT ![e] = "call"]
      BY <2>1, <2>4 DEF CountsCovered, Sound, FreshOK, InTask
    <3> QED BY <1>1, <2>1, <3>1
  <2> QED BY <2>2, <2>3, <2>4
<1>5. CASE CallRun(e)
  <2>1. CountsCovered(n) /\ task[n] # NULL
    BY <1>5 DEF CallRun, Quiet, mapVars, nodeVars, Live
  <2> QED BY <1>5, <2>1, CallRunCovered
<1>6. CASE LoadExecuted(e)
  <2>1. CountsCovered(n)
    BY <1>6 DEF LoadExecuted, Quiet, mapVars, nodeVars, Live
  <2> QED BY <1>6, <2>1, LoadCovered
<1>7. CASE StoreExecuted(e)
  <2>1. CountsCovered(n) /\ fresh[e]
    BY <1>7 DEF StoreExecuted, Quiet, mapVars, Live
  <2> QED BY <1>7, <2>1, StoreCovered
<1>8. CASE HandleTaskScheduling(e)
  <2>1. UNCHANGED <<ran, executed, seen>> /\ pc' = [pc EXCEPT ![e] = "finish"]
    BY <1>8 DEF HandleTaskScheduling, Goto
  <2>2. ~RemoveExecuted(e)
    BY <1>0, RecycledFacts DEF RemoveExecuted
  <2>3. /\ UNCHANGED <<task, ctx, taskPool>>
        /\ \A f \in Exec : fresh'[f] => fresh[f]
    BY <1>8, <2>2 DEF HandleTaskScheduling, Reschedule, Outdate, mapVars
  <2> QED BY <1>1, <2>1, <2>3
<1> QED BY <1>2, <1>3, <1>4, <1>5, <1>6, <1>7, <1>8 DEF Worker

(* ... and what it does to another node.                                   *)
LEMMA WorkerCoveredOther ==
  ASSUME TypeInv, NEW e \in Exec, Worker(e), NEW n \in Node, n # NodeOf(e),
         Live(n) => CountsCovered(n), Live(n)'
  PROVE  CountsCovered(n)'
<1>0. NodeOf(e) \in Node
  BY DEF Exec, NodeOf
<1>1. \A f \in Exec : NodeOf(f) = n => pc'[f] = pc[f] /\ seen'[f] = seen[f]
                                       /\ (fresh'[f] => fresh[f])
  BY DEF Worker, AcquireSemaphore, SkipExecution, CheckTaskState, CopyTaskInfo, RunTask,
         CallRun, RunReturns, RunPanics, LoadExecuted, StoreExecuted, Recheck,
         HandleTaskScheduling, Reschedule, RemoveExecuted, Outdate, Finish, Leave, Goto,
         histVars, TypeInv, TypeOK
<1>2. ran'[n] = ran[n] /\ executed'[n] = executed[n]
  BY DEF Worker, AcquireSemaphore, SkipExecution, CheckTaskState, CopyTaskInfo, RunTask,
         CallRun, RunReturns, RunPanics, LoadExecuted, StoreExecuted, Recheck,
         HandleTaskScheduling, Finish, nodeVars, histVars, TypeInv, TypeOK
<1>3. task'[n] = task[n] /\ ctx'[n] = ctx[n] /\ Live(n)
  <2>1. CASE HandleTaskScheduling(e)
    BY <1>0, <2>1, RecycledFacts
       DEF HandleTaskScheduling, Reschedule, RemoveExecuted, mapVars, Live
  <2>2. CASE ~HandleTaskScheduling(e)
    BY <2>2 DEF Worker, AcquireSemaphore, SkipExecution, CheckTaskState, CopyTaskInfo, RunTask,
         CallRun, RunReturns, RunPanics, LoadExecuted, StoreExecuted, Recheck, Finish, Quiet,
         nodeVars, mapVars, Live
  <2> QED BY <2>1, <2>2
<1>4. FreshRuns(n)' \subseteq FreshRuns(n)
  BY <1>1 DEF FreshRuns, InRun
<1>5. \A f \in FreshRuns(n)' : pc'[f] = pc[f] /\ seen'[f] = seen[f]
  BY <1>1 DEF FreshRuns
<1> QED BY <1>2, <1>3, <1>4, <1>5, CoverFrame DEF CountsCovered

LEMMA TickCovered ==
  ASSUME TypeInv, AllCovered, Tick
  PROVE  AllCovered'
<1> DEFINE s == (currentSlot + 1) % SlotNum
           collected == {n \in Chain(s) : due[n]}
           started == {<<n, IdleCall(n)>> : n \in collected}
<1>1. \A e \in started : pc[e] = "idle"
  BY DEF Tick, IdleCall
<1>2. /\ pc' = [e \in Exec |-> IF e \in started THEN "start" ELSE pc[e]]
      /\ fresh' = [e \in Exec |-> e \in started \/ fresh[e]]
      /\ UNCHANGED <<task, taskPool, ctx, executed, ran, seen>>
  BY DEF Tick, nodeVars, mapVars
<1> HIDE DEF started
<1> SUFFICES ASSUME NEW n \in Node, Live(n)' PROVE CountsCovered(n)'
  BY DEF AllCovered
<1>3. CountsCovered(n)
  BY <1>2 DEF AllCovered, Live
<1>4. FreshRuns(n)' \subseteq FreshRuns(n)
  BY <1>1, <1>2 DEF FreshRuns, InRun
<1>5. \A f \in FreshRuns(n)' : pc'[f] = "store" => pc[f] = "store"
  BY <1>2 DEF FreshRuns
<1> QED BY <1>2, <1>3, <1>4, <1>5, CoverFrame DEF CountsCovered

LEMMA CoverNext == CoverInv /\ [Next]_vars => CoverInv'
<1> SUFFICES ASSUME CoverInv, [Next]_vars, ~staleActed' PROVE AllCovered'
  BY ListNext DEF CoverInv
<1>1. TypeInv /\ Sound /\ AllCovered
  BY StaleForEver DEF CoverInv, ListInv
<1>2. CASE UNCHANGED vars
  BY <1>1, <1>2, CoverUnchanged DEF vars, nodeVars, mapVars, execVars, histVars
<1>3. CASE Lifecycle
  <2>1. /\ UNCHANGED <<task, executed, ran, pc, fresh, seen, taskPool>>
        /\ \A n \in Node : ctx[n] # NULL => ctx'[n] # NULL
    BY <1>3, NullAssumption DEF Lifecycle, Start, StopBegin, LoopExit, LoopAwaited, StopEnd, nodeVars,
                                mapVars, execVars, histVars
  <2> QED BY <1>1, <2>1, CoverUnchanged
<1>4. ASSUME NEW id \in TaskID, Control(id) PROVE AllCovered'
  <2>1. CASE PauseTask(id) \/ ResumeTask(id)
    BY <1>1, <2>1, CoverUnchanged DEF PauseTask, ResumeTask, mapVars, execVars, histVars
  <2> QED BY <1>1, <1>4, <2>1, RemoveCovered DEF Control, RemoveTask, ClearAllTasks
<1>5. ASSUME NEW n \in Node, TimePasses(n) PROVE AllCovered'
  BY <1>1, <1>5, CoverUnchanged DEF TimePasses, mapVars, execVars, histVars
<1>6. CASE Tick
  BY <1>1, <1>6, TickCovered
<1>7. ASSUME NEW c \in Client, Call(c) PROVE AllCovered'
  BY <1>1, <1>7, CallCovered
<1>8. ASSUME NEW e \in Exec, Worker(e) PROVE AllCovered'
  <2> SUFFICES ASSUME NEW n \in Node, Live(n)' PROVE CountsCovered(n)'
    BY DEF AllCovered
  <2>1. CASE n = NodeOf(e)
    BY <1>1, <1>8, <2>1, WorkerCoveredOwn DEF AllCovered
  <2>2. CASE n # NodeOf(e)
    BY <1>1, <1>8, <2>2, WorkerCoveredOther DEF AllCovered
  <2> QED BY <2>1, <2>2
<1> QED BY <1>2, <1>3, <1>4, <1>5, <1>6, <1>7, <1>8 DEF Next

(* Only the locked part of executeTask leaves "schedule".                  *)
LEMMA LeavesSchedule ==
  ASSUME TypeInv, Next, NEW e \in Exec, pc[e] = "schedule", pc'[e] = "finish"
  PROVE  HandleTaskScheduling(e)
<1>1. ASSUME NEW f \in Exec, Worker(f) PROVE HandleTaskScheduling(e)
  BY <1>1 DEF Worker, AcquireSemaphore, SkipExecution, CheckTaskState, CopyTaskInfo, RunTask,
         CallRun, RunReturns, RunPanics, LoadExecuted, StoreExecuted, Recheck,
         HandleTaskScheduling, Finish, Leave, Goto, TypeInv, TypeOK
<1>2. ASSUME NEW c \in Client, Call(c) PROVE pc' = pc
  BY <1>2 DEF Call, AddTask, Admit, UpdateTask, AddRejected, AddCommit, UpdateRemove, UpdateAdd,
              UpdateRollback, Prepare, Remove, execVars
<1>3. ASSUME NEW id \in TaskID, Control(id) PROVE pc' = pc
  BY <1>3 DEF Control, RemoveTask, ClearAllTasks, PauseTask, ResumeTask, Remove, execVars
<1>4. CASE Lifecycle \/ \E n \in Node : TimePasses(n)
  BY <1>4 DEF Lifecycle, Start, StopBegin, LoopExit, LoopAwaited, StopEnd, TimePasses, execVars
<1>5. CASE Tick
  BY <1>5 DEF Tick
<1> QED BY <1>1, <1>2, <1>3, <1>4, <1>5 DEF Next

(* The wheel ends a FixedTimes task without a timeout only when its        *)
(* function has been called Times times, however many executions of the    *)
(* node overlap, panic, or are skipped.                                    *)
THEOREM RetiredOnlyAfterTimes == Spec => RetiredAfterTimes
<1>1. Init => CoverInv
  BY ListInit DEF Init, CoverInv, AllCovered, Live
<1> DEFINE Retired(e) == (/\ ~staleActed
                          /\ pc[e] = "schedule" /\ fresh[e] /\ pc'[e] = "finish"
                          /\ info[e].Mode = "FixedTimes" /\ ~info[e].Timeout
                          /\ task'[NodeOf(e)] = NULL)
                         => ran[NodeOf(e)] >= info[e].Times
<1>2. ASSUME CoverInv, Next, NEW e \in Exec PROVE Retired(e)
  <2> DEFINE n == NodeOf(e)
  <2> SUFFICES ASSUME ~staleActed, pc[e] = "schedule", fresh[e], pc'[e] = "finish",
                      info[e].Mode = "FixedTimes", ~info[e].Timeout, task'[n] = NULL
               PROVE  ran[n] >= info[e].Times
    OBVIOUS
  <2>1. TypeInv /\ Sound /\ AllCovered
    BY <1>2 DEF CoverInv, ListInv
  <2>2. n \in Node /\ Live(n) /\ info[e] = task[n]
    BY <2>1, LiveFacts DEF Sound, FreshOK, InTask
  <2>3. task[n] \in Task /\ ran[n] \in Nat /\ executed[n] \in Nat
    BY <2>1, <2>2 DEF Live, TypeInv, TypeOK
  <2>4. HandleTaskScheduling(e)
    BY <1>2, <2>1, LeavesSchedule
  <2>5. ~ShouldReschedule(e)
    BY <2>2, <2>4 DEF HandleTaskScheduling, Reschedule, Live
  <2>6. info[e].Times \in Nat /\ info[e].Times <= executed[n] /\ info[e].Times < CountCap
    BY <2>2, <2>3, <2>5, TaskAssumption DEF ShouldReschedule
  <2>7. Cardinality(FreshRuns(n)) \in Nat
    BY FreshRunsFinite DEF FreshRuns
  <2>8. ran[n] # CountCap => executed[n] + Cardinality(FreshRuns(n)) <= ran[n]
    BY <2>1, <2>2 DEF AllCovered, CountsCovered
  <2> QED BY <2>3, <2>6, <2>7, <2>8, BoundAssumption
<1>3. CoverInv /\ [Next]_vars => [\A e \in Exec : Retired(e)]_vars
  BY <1>2
<1>4. Spec => [][\A e \in Exec : Retired(e)]_vars
  <2> HIDE DEF Retired
  <2> QED BY <1>1, <1>3, CoverNext, PTL DEF Spec
<1> QED BY <1>4 DEF RetiredAfterTimes
=============================================================================
