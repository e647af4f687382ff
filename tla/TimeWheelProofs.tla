-------------------------- MODULE TimeWheelProofs --------------------------
(***************************************************************************)
(* Proofs about TimeWheel for every number of nodes, tasks, callers, slots *)
(* and overlapping executions.                                             *)
(***************************************************************************)
EXTENDS TimeWheel, FiniteSetTheorems, TLAPS

Link == Node \cup {NULL}

(***************************************************************************)
(* Facts about doubly linked lists, independent of the state.              *)
(***************************************************************************)

(* Taking n out of the list of its slot leaves lists of the other nodes.   *)
LEMMA UnlinkKeepsLists ==
  ASSUME NEW L \in SUBSET Node,
         NEW hd \in [Slot -> Link], NEW nx \in [Node -> Link],
         NEW pv \in [Node -> Link], NEW si \in [Node -> Slot],
         WellLinked(L, hd, nx, pv, si), NEW n \in L,
         NEW hd2, hd2 = IF pv[n] = NULL THEN [hd EXCEPT ![si[n]] = nx[n]] ELSE hd,
         NEW nx2, nx2 = [Store(nx, pv[n], nx[n]) EXCEPT ![n] = NULL],
         NEW pv2, pv2 = [Store(pv, nx[n], pv[n]) EXCEPT ![n] = NULL]
  PROVE  WellLinked(L \ {n}, hd2, nx2, pv2, si)
<1>1. /\ n \in Node /\ NULL \notin Node /\ DOMAIN nx = Node /\ DOMAIN pv = Node
      /\ si[n] \in Slot
  BY NullAssumption
<1>2. /\ nx2 \in [Node -> Link] /\ pv2 \in [Node -> Link]
      /\ hd2 \in [Slot -> Link]
  BY <1>1 DEF Store, Link
<1>3. ASSUME NEW m \in Node
      PROVE  /\ nx2[m] = IF m = n THEN NULL ELSE IF m = pv[n] THEN nx[n] ELSE nx[m]
             /\ pv2[m] = IF m = n THEN NULL ELSE IF m = nx[n] THEN pv[n] ELSE pv[m]
  BY <1>1 DEF Store, Link
<1>4. ASSUME NEW s \in Slot
      PROVE  hd2[s] = IF pv[n] = NULL /\ s = si[n] THEN nx[n] ELSE hd[s]
  BY <1>1
<1>5. ASSUME NEW s \in Slot, hd2[s] # NULL
      PROVE  hd2[s] \in L \ {n} /\ si[hd2[s]] = s /\ pv2[hd2[s]] = NULL
  BY <1>1, <1>3, <1>4, <1>5 DEF WellLinked, Link
<1>6. ASSUME NEW m \in L \ {n}
      PROVE  /\ pv2[m] = NULL => hd2[si[m]] = m
             /\ pv2[m] # NULL => /\ pv2[m] \in L \ {n} /\ nx2[pv2[m]] = m
                                 /\ si[pv2[m]] = si[m]
             /\ nx2[m] # NULL => nx2[m] \in L \ {n} /\ pv2[nx2[m]] = m
  BY <1>1, <1>3, <1>4 DEF WellLinked, Link
<1>7. \A m \in Node \ (L \ {n}) : nx2[m] = NULL /\ pv2[m] = NULL
  BY <1>1, <1>3 DEF WellLinked, Link
<1> QED BY <1>5, <1>6, <1>7 DEF WellLinked

(* ... and every other node is still on the walk from its head.            *)
LEMMA UnlinkKeepsReach ==
  ASSUME NEW L \in SUBSET Node,
         NEW hd \in [Slot -> Link], NEW nx \in [Node -> Link],
         NEW pv \in [Node -> Link], NEW si \in [Node -> Slot],
         WellLinked(L, hd, nx, pv, si), Reachable(L, hd, nx), NEW n \in L,
         NEW hd2, hd2 = IF pv[n] = NULL THEN [hd EXCEPT ![si[n]] = nx[n]] ELSE hd,
         NEW nx2, nx2 = [Store(nx, pv[n], nx[n]) EXCEPT ![n] = NULL]
  PROVE  Reachable(L \ {n}, hd2, nx2)
<1>1. /\ n \in Node /\ NULL \notin Node /\ DOMAIN nx = Node /\ si[n] \in Slot
  BY NullAssumption
<1>2. ASSUME NEW m \in Node
      PROVE  nx2[m] = IF m = n THEN NULL ELSE IF m = pv[n] THEN nx[n] ELSE nx[m]
  BY <1>1 DEF Store, Link
<1>3. ASSUME NEW s \in Slot
      PROVE  hd2[s] = IF pv[n] = NULL /\ s = si[n] THEN nx[n] ELSE hd[s]
  BY <1>1
<1> SUFFICES ASSUME NEW S \in SUBSET Node,
                    \A s \in Slot : hd2[s] # NULL => hd2[s] \in S,
                    \A m \in S : nx2[m] # NULL => nx2[m] \in S
             PROVE  L \ {n} \subseteq S
  BY DEF Reachable
<1>4. CASE pv[n] = NULL \/ pv[n] \in S
  <2>1. nx[n] # NULL => nx[n] \in S
    BY <1>1, <1>2, <1>3, <1>4 DEF WellLinked, Link
  <2>2. \A s \in Slot : hd[s] # NULL => hd[s] \in S \cup {n}
    BY <1>1, <1>3 DEF WellLinked, Link
  <2>3. \A m \in S \cup {n} : nx[m] # NULL => nx[m] \in S \cup {n}
    BY <1>1, <1>2, <2>1 DEF WellLinked, Link
  <2>4. L \subseteq S \cup {n}
    <3>1. S \cup {n} \in SUBSET Node
      BY <1>1
    <3> QED BY <3>1, <2>2, <2>3 DEF Reachable
  <2> QED BY <2>4
<1>5. CASE pv[n] # NULL /\ pv[n] \notin S
  <2>1. \A s \in Slot : hd[s] # NULL => hd[s] \in S \ {n}
    BY <1>1, <1>3, <1>5 DEF WellLinked, Link
  <2>2. \A m \in S \ {n} : nx[m] # NULL => nx[m] \in S \ {n}
    <3> SUFFICES ASSUME NEW m \in S \ {n}, nx[m] # NULL PROVE nx[m] \in S \ {n}
      OBVIOUS
    <3>1. m # pv[n] /\ nx2[m] = nx[m]
      BY <1>1, <1>2, <1>5
    <3>2. nx[m] # n
      BY <1>1, <1>5, <3>1 DEF WellLinked, Link
    <3> QED BY <3>1, <3>2
  <2>3. L \subseteq S \ {n}
    <3>1. S \ {n} \in SUBSET Node
      OBVIOUS
    <3> QED BY <3>1, <2>1, <2>2 DEF Reachable
  <2> QED BY <2>3
<1> QED BY <1>4, <1>5

(* n, which is in no list, is put before the head of the list of its slot. *)
PutFirst(n, L, hd, nx, pv, si, hd2, nx2, pv2, si2) ==
  /\ n \in Node \ L /\ si2[n] \in Slot
  /\ \A m \in L : si2[m] = si[m]
  /\ \A r \in Slot : hd2[r] = IF r = si2[n] THEN n ELSE hd[r]
  /\ \A m \in Node : nx2[m] = IF m = n THEN hd[si2[n]] ELSE nx[m]
  /\ \A m \in Node : pv2[m] = IF m = n THEN NULL
                              ELSE IF m = hd[si2[n]] THEN n ELSE pv[m]

LEMMA FrontKeepsLists ==
  ASSUME NEW L \in SUBSET Node,
         NEW hd \in [Slot -> Link], NEW nx \in [Node -> Link],
         NEW pv \in [Node -> Link], NEW si \in [Node -> Slot],
         WellLinked(L, hd, nx, pv, si), Reachable(L, hd, nx),
         NEW n, NEW hd2, NEW nx2, NEW pv2, NEW si2,
         PutFirst(n, L, hd, nx, pv, si, hd2, nx2, pv2, si2)
  PROVE  WellLinked(L \cup {n}, hd2, nx2, pv2, si2) /\ Reachable(L \cup {n}, hd2, nx2)
<1> USE DEF PutFirst
<1>0. NULL \notin Node
  BY NullAssumption
<1>1. ASSUME NEW r \in Slot, hd2[r] # NULL
      PROVE  hd2[r] \in L \cup {n} /\ si2[hd2[r]] = r /\ pv2[hd2[r]] = NULL
  BY <1>0, <1>1 DEF WellLinked, Link
<1>2. ASSUME NEW m \in L \cup {n}
      PROVE  /\ pv2[m] = NULL => hd2[si2[m]] = m
             /\ pv2[m] # NULL => /\ pv2[m] \in L \cup {n} /\ nx2[pv2[m]] = m
                                 /\ si2[pv2[m]] = si2[m]
             /\ nx2[m] # NULL => nx2[m] \in L \cup {n} /\ pv2[nx2[m]] = m
  BY <1>0, <1>2 DEF WellLinked, Link
<1>3. \A m \in Node \ (L \cup {n}) : nx2[m] = NULL /\ pv2[m] = NULL
  BY <1>0 DEF WellLinked, Link
<1>4. ASSUME NEW S \in SUBSET Node,
             \A r \in Slot : hd2[r] # NULL => hd2[r] \in S,
             \A m \in S : nx2[m] # NULL => nx2[m] \in S
      PROVE  L \cup {n} \subseteq S
  <2>1. n \in S /\ nx[n] = NULL
    BY <1>0, <1>4 DEF WellLinked
  <2>2. \A r \in Slot : hd[r] # NULL => hd[r] \in S
    BY <1>0, <1>4, <2>1
  <2>3. \A m \in S : nx[m] # NULL => nx[m] \in S
    BY <1>0, <1>4, <2>1
  <2>4. L \subseteq S
    BY <2>2, <2>3 DEF Reachable
  <2> QED BY <2>1, <2>4
<1> QED
  <2>1. WellLinked(L \cup {n}, hd2, nx2, pv2, si2)
    BY <1>1, <1>2, <1>3 DEF WellLinked
  <2>2. Reachable(L \cup {n}, hd2, nx2)
    BY <1>4 DEF Reachable
  <2> QED BY <2>1, <2>2

(* n, which is in no list, is put after the node p of its slot.            *)
PutAfter(n, p, L, nx, pv, si, nx2, pv2) ==
  /\ n \in Node \ L /\ p \in L /\ si[p] = si[n]
  /\ \A m \in Node : nx2[m] = IF m = n THEN nx[p] ELSE IF m = p THEN n ELSE nx[m]
  /\ \A m \in Node : pv2[m] = IF m = n THEN p ELSE IF m = nx[p] THEN n ELSE pv[m]

LEMMA InsertKeepsLists ==
  ASSUME NEW L \in SUBSET Node,
         NEW hd \in [Slot -> Link], NEW nx \in [Node -> Link],
         NEW pv \in [Node -> Link], NEW si \in [Node -> Slot],
         WellLinked(L, hd, nx, pv, si), Reachable(L, hd, nx),
         NEW n, NEW p, NEW nx2, NEW pv2, PutAfter(n, p, L, nx, pv, si, nx2, pv2)
  PROVE  WellLinked(L \cup {n}, hd, nx2, pv2, si) /\ Reachable(L \cup {n}, hd, nx2)
<1> USE DEF PutAfter
<1>0. NULL \notin Node /\ p # n /\ p \in Node
  BY NullAssumption
<1>1. ASSUME NEW r \in Slot, hd[r] # NULL
      PROVE  hd[r] \in L \cup {n} /\ si[hd[r]] = r /\ pv2[hd[r]] = NULL
  BY <1>0, <1>1 DEF WellLinked, Link
<1>2. ASSUME NEW m \in L \cup {n}
      PROVE  /\ pv2[m] = NULL => hd[si[m]] = m
             /\ pv2[m] # NULL => /\ pv2[m] \in L \cup {n} /\ nx2[pv2[m]] = m
                                 /\ si[pv2[m]] = si[m]
             /\ nx2[m] # NULL => nx2[m] \in L \cup {n} /\ pv2[nx2[m]] = m
  BY <1>0, <1>2 DEF WellLinked, Link
<1>3. \A m \in Node \ (L \cup {n}) : nx2[m] = NULL /\ pv2[m] = NULL
  BY <1>0 DEF WellLinked, Link
<1>4. ASSUME NEW S \in SUBSET Node,
             \A r \in Slot : hd[r] # NULL => hd[r] \in S,
             \A m \in S : nx2[m] # NULL => nx2[m] \in S
      PROVE  L \cup {n} \subseteq S
  <2>1. nx[n] = NULL
    BY <1>0 DEF WellLinked
  <2>2. \A m \in S : nx[m] # NULL => nx[m] \in S
    BY <1>0, <1>4, <2>1
  <2>3. L \subseteq S
    BY <1>4, <2>2 DEF Reachable
  <2>4. nx2[p] = n
    BY <1>0
  <2> QED BY <1>0, <1>4, <2>3, <2>4
<1> QED
  <2>1. WellLinked(L \cup {n}, hd, nx2, pv2, si)
    BY <1>1, <1>2, <1>3 DEF WellLinked
  <2>2. Reachable(L \cup {n}, hd, nx2)
    BY <1>4 DEF Reachable
  <2> QED BY <2>1, <2>2

(* A walk of slot s visits only nodes of L whose slot is s.                *)
LEMMA WalkStaysInSlot ==
  ASSUME NEW L \in SUBSET Node, TypeOK, NEW s \in Slot,
         WellLinked(L, slots, next, prev, slotIndex),
         NEW Keep \in SUBSET Node, NEW n \in Walk(s, Keep)
  PROVE  n \in L /\ n \in Keep /\ slotIndex[n] = s
<1> DEFINE S == {m \in L \cap Keep : slotIndex[m] = s}
<1>0. NULL \notin Node
  BY NullAssumption
<1>1. S \in SUBSET Keep
  OBVIOUS
<1>2. slots[s] \in Keep => slots[s] \in S
  BY <1>0 DEF WellLinked, TypeOK
<1>3. \A m \in S : next[m] \in Keep => next[m] \in S
  BY <1>0 DEF WellLinked, TypeOK
<1>4. n \in S
  BY <1>1, <1>2, <1>3 DEF Walk
<1> QED BY <1>4
-----------------------------------------------------------------------------
(***************************************************************************)
(* Type correctness.  It needs to know what a call in progress holds.      *)
(***************************************************************************)

ClientOK ==
  \A c \in Client :
    /\ client[c].op = "commit" => client[c].node \in Node
    /\ client[c].op \in {"prepare", "commit", "updateRemove", "updateAdd"} => client[c].task \in Task
    /\ client[c].op = "rollback" => client[c].old \in Task

TypeInv == TypeOK /\ ClientOK

LEMMA NextSlotIsSlot == \A s \in Slot : (s + 1) % SlotNum \in Slot
BY BoundAssumption DEF Slot

(* Unlinking gives lists of the right type.                                *)
LEMMA UnlinkType ==
  ASSUME TypeOK, NEW n \in Node, NEW s \in Slot
  PROVE  /\ UnlinkHead(n, s) \in [Slot -> Link]
         /\ UnlinkNext(n) \in [Node -> Link]
         /\ UnlinkPrev(n) \in [Node -> Link]
BY DEF TypeOK, UnlinkHead, UnlinkNext, UnlinkPrev, Store, Link

LEMMA RecycleType ==
  ASSUME TypeOK, NEW n \in Node, NEW s \in Slot, NEW id, Recycle(n, id, s)
  PROVE  /\ slots' \in [Slot -> Node \cup {NULL}]
         /\ next' \in [Node -> Node \cup {NULL}]
         /\ prev' \in [Node -> Node \cup {NULL}]
         /\ shard' \in [TaskID -> Node \cup {NULL}]
         /\ task' \in [Node -> Task \cup {NULL}]
         /\ ctx' \in [Node -> {"live", "cancelled", NULL}]
         /\ taskPool' \subseteq Node
<1>1. /\ UnlinkHead(n, s) \in [Slot -> Link]
      /\ UnlinkNext(n) \in [Node -> Link]
      /\ UnlinkPrev(n) \in [Node -> Link]
  BY UnlinkType
<1>2. slots' \in [Slot -> Link] /\ next' \in [Node -> Link] /\ prev' \in [Node -> Link]
  BY <1>1 DEF Recycle, Link
<1>3. /\ shard' \in [TaskID -> Node \cup {NULL}]
      /\ task' \in [Node -> Task \cup {NULL}]
      /\ ctx' \in [Node -> {"live", "cancelled", NULL}]
      /\ taskPool' \subseteq Node
  BY DEF Recycle, DeleteEntry, TypeOK
<1> QED BY <1>2, <1>3 DEF Link

LEMMA RemoveType ==
  ASSUME TypeOK, NEW id \in TaskID, Remove(id), client' \in [Client -> CallState]
  PROVE  TypeOK'
<1>1. shard[id] \in Node /\ slotIndex[shard[id]] \in Slot
  BY DEF TypeOK, Remove
<1>2. Recycle(shard[id], id, slotIndex[shard[id]])
  BY DEF Remove
<1>3. /\ slots' \in [Slot -> Node \cup {NULL}]
      /\ next' \in [Node -> Node \cup {NULL}]
      /\ prev' \in [Node -> Node \cup {NULL}]
      /\ shard' \in [TaskID -> Node \cup {NULL}]
      /\ task' \in [Node -> Task \cup {NULL}]
      /\ ctx' \in [Node -> {"live", "cancelled", NULL}]
      /\ taskPool' \subseteq Node
  BY <1>1, <1>2, RecycleType
<1>4. fresh' \in [Exec -> BOOLEAN]
  BY DEF TypeOK, Remove, Outdate
<1> QED BY <1>3, <1>4 DEF TypeOK, Remove, wheelVars, execVars

LEMMA PrepareType == ASSUME TypeInv, NEW c \in Client, Prepare(c) PROVE TypeInv'
<1>1. PICK n \in Node, s \in Slot :
        /\ taskPool' = taskPool \ {n}
        /\ task' = [task EXCEPT ![n] = client[c].task]
        /\ ctx' = [ctx EXCEPT ![n] = IF Stopping THEN "cancelled" ELSE "live"]
        /\ slotIndex' = [slotIndex EXCEPT ![n] = s]
        /\ due' = [due EXCEPT ![n] = FALSE]
        /\ executed' = [executed EXCEPT ![n] = 0]
        /\ next' = [next EXCEPT ![n] = NULL]
        /\ prev' = [prev EXCEPT ![n] = NULL]
        /\ ran' = [ran EXCEPT ![n] = 0]
        /\ client' = [client EXCEPT ![c].op = "commit", ![c].node = n]
  BY DEF Prepare, Get, ResetCount
<1>2. UNCHANGED <<wheelVars, slots, paused, shard, execVars, fresh, staleActed>>
  BY DEF Prepare
<1>0. client[c].op = "prepare" /\ client[c].task \in Task
  BY DEF Prepare, TypeInv, ClientOK
<1>3. client' \in [Client -> CallState] /\ ClientOK'
  BY <1>0, <1>1, ZenonT(40) DEF TypeInv, TypeOK, ClientOK, CallState
<1>4. TypeOK'
  BY <1>0, <1>1, <1>2, <1>3, BoundAssumption DEF TypeInv, TypeOK, wheelVars, execVars
<1> QED BY <1>3, <1>4 DEF TypeInv

LEMMA AdmitType ==
  ASSUME TypeInv, NEW c \in Client, NEW t \in Task,
         NEW old \in Task \cup {NULL}, Admit(c, t, old)
  PROVE  TypeInv'
<1>1. client' \in [Client -> CallState] /\ ClientOK'
  BY DEF Admit, TypeInv, TypeOK, ClientOK, CallState
<1> QED BY <1>1 DEF Admit, TypeInv, TypeOK, wheelVars, listVars, nodeVars, mapVars,
                    execVars, histVars

LEMMA FailedAddType ==
  ASSUME TypeInv, NEW c \in Client, FailedAdd(c)
  PROVE  client' \in [Client -> CallState] /\ ClientOK'
<1>1. client[c] \in CallState
  BY DEF TypeInv, TypeOK
<1> QED BY <1>1 DEF FailedAdd, TypeInv, TypeOK, ClientOK, CallState, NoCall

LEMMA AddCommitType ==
  ASSUME TypeInv, NEW c \in Client, AddCommit(c)
  PROVE  TypeInv'
<1> DEFINE t == client[c].task
           n == client[c].node
           s == slotIndex[n]
<1>1. n \in Node /\ t \in Task /\ s \in Slot /\ t.ID \in TaskID
  BY TaskAssumption DEF TypeInv, TypeOK, ClientOK, AddCommit
<1>2. client' \in [Client -> CallState] /\ ClientOK'
  BY DEF AddCommit, TypeInv, TypeOK, ClientOK, CallState, NoCall
<1>3. /\ slots' \in [Slot -> Link]
      /\ next' \in [Node -> Link] /\ prev' \in [Node -> Link]
  <2>1. CASE LinkEmpty(n, s)
    BY <1>1, <2>1 DEF LinkEmpty, TypeInv, TypeOK, Link
  <2>2. CASE LinkFront(n, s, t)
    BY <1>1, <2>2 DEF LinkFront, TypeInv, TypeOK, Link
  <2>3. CASE LinkAfter(n, s, t)
    <3>1. /\ slots \in [Slot -> Link] /\ next \in [Node -> Link] /\ prev \in [Node -> Link]
          /\ n \in Link
      BY <1>1 DEF TypeInv, TypeOK, Link
    <3>2. Before(s, t) \subseteq Node
      BY DEF Before, Walk
    <3> HIDE DEF s, n, t
    <3>3. PICK p \in Before(s, t) : /\ next' = [next EXCEPT ![n] = next[p], ![p] = n]
                                   /\ prev' = [Store(prev, next[p], n) EXCEPT ![n] = p]
                                   /\ UNCHANGED slots
      BY <2>3 DEF LinkAfter
    <3>4. p \in Node /\ next[p] \in Link
      BY <3>1, <3>2
    <3>5. Store(prev, next[p], n) \in [Node -> Link]
      BY <3>1, <3>4 DEF Store
    <3> QED BY <3>1, <3>3, <3>4, <3>5 DEF Link
  <2> QED BY <2>1, <2>2, <2>3 DEF AddCommit
<1>4. shard' \in [TaskID -> Node \cup {NULL}]
  BY <1>1 DEF AddCommit, TypeInv, TypeOK
<1>5. TypeOK'
  BY <1>2, <1>3, <1>4 DEF AddCommit, TypeInv, TypeOK, Link, wheelVars,
                          nodeVars, execVars, histVars
<1> QED BY <1>2, <1>5 DEF TypeInv

(* A caller's step.                                                        *)
LEMMA CallType ==
  ASSUME TypeInv, NEW c \in Client, Call(c)
  PROVE  TypeInv'
<1>1. ASSUME NEW t \in Task, AddTask(c, t) PROVE TypeInv'
  BY <1>1, AdmitType DEF AddTask
<1>2. ASSUME NEW t \in Task, UpdateTask(c, t) PROVE TypeInv'
  <2>1. t.ID \in TaskID
    BY TaskAssumption
  <2>2. task[shard[t.ID]] \in Task \cup {NULL}
    BY <1>2, <2>1 DEF UpdateTask, TypeInv, TypeOK
  <2>3. client' \in [Client -> CallState] /\ ClientOK'
    BY <1>2, <2>2 DEF UpdateTask, TypeInv, TypeOK, ClientOK, CallState
  <2> QED BY <1>2, <2>3 DEF UpdateTask, TypeInv, TypeOK, wheelVars, listVars,
                            nodeVars, mapVars, execVars, histVars
<1>3. ASSUME AddRejected(c) PROVE TypeInv'
  <2>1. client' \in [Client -> CallState] /\ ClientOK'
    BY <1>3, FailedAddType DEF AddRejected
  <2>2. taskPool' \subseteq Node
    BY <1>3 DEF AddRejected, TypeInv, TypeOK, ClientOK
  <2> QED BY <1>3, <2>1, <2>2 DEF AddRejected, TypeInv, TypeOK, wheelVars,
                                 listVars, nodeVars, execVars, histVars
<1>4. ASSUME UpdateRemove(c) PROVE TypeInv'
  <2>0. client[c].task \in Task /\ client[c].task.ID \in TaskID
    BY <1>4, TaskAssumption DEF UpdateRemove, TypeInv, ClientOK
  <2>1. client' \in [Client -> CallState] /\ ClientOK'
    BY <1>4, <2>0, SMTT(20) DEF UpdateRemove, TypeInv, TypeOK, ClientOK, CallState, NoCall
  <2>2. CASE Remove(client[c].task.ID)
    BY <2>0, <2>1, <2>2, RemoveType DEF TypeInv
  <2>3. CASE UNCHANGED <<wheelVars, listVars, nodeVars, mapVars, execVars, histVars>>
    BY <2>1, <2>3 DEF TypeInv, TypeOK, wheelVars, listVars, nodeVars, mapVars,
                      execVars, histVars
  <2> QED BY <1>4, <2>2, <2>3 DEF UpdateRemove
<1>5. ASSUME UpdateAdd(c) PROVE TypeInv'
  <2>1. client[c].task \in Task /\ client[c].old \in Task \cup {NULL}
    BY <1>5 DEF UpdateAdd, TypeInv, TypeOK, ClientOK, CallState
  <2>2. CASE Admit(c, client[c].task, client[c].old)
    BY <2>1, <2>2, AdmitType
  <2>3. CASE FailedAdd(c) /\ UNCHANGED <<wheelVars, listVars, nodeVars, mapVars,
                                         execVars, histVars>>
    BY <2>3, FailedAddType DEF TypeInv, TypeOK, wheelVars, listVars, nodeVars,
                               mapVars, execVars, histVars
  <2> QED BY <1>5, <2>2, <2>3 DEF UpdateAdd
<1>6. ASSUME UpdateRollback(c) PROVE TypeInv'
  <2>1. client[c].old \in Task
    BY <1>6 DEF UpdateRollback, TypeInv, ClientOK
  <2>2. CASE Admit(c, client[c].old, NULL)
    BY <2>1, <2>2, AdmitType
  <2>3. CASE /\ client' = [client EXCEPT ![c] = NoCall]
             /\ UNCHANGED <<wheelVars, listVars, nodeVars, mapVars, execVars, histVars>>
    BY <2>3 DEF TypeInv, TypeOK, ClientOK, CallState, NoCall, wheelVars, listVars,
                nodeVars, mapVars, execVars, histVars
  <2> QED BY <1>6, <2>2, <2>3 DEF UpdateRollback
<1> QED BY <1>1, <1>2, <1>3, <1>4, <1>5, <1>6, PrepareType, AddCommitType DEF Call

LEMMA TickType == ASSUME TypeInv, Tick PROVE TypeInv'
<1>1. currentSlot' \in Slot
  BY NextSlotIsSlot DEF Tick, TypeInv, TypeOK
<1>2. pc' \in [Exec -> PC] /\ cur' \in [Exec -> Slot] /\ fresh' \in [Exec -> BOOLEAN]
  BY <1>1 DEF Tick, TypeInv, TypeOK, PC
<1> QED BY <1>1, <1>2 DEF Tick, TypeInv, TypeOK, ClientOK, listVars, nodeVars, mapVars

LEMMA MoveToType ==
  ASSUME TypeOK, NEW n \in Node, NEW s \in Slot, NEW from \in Slot, MoveTo(n, s, from)
  PROVE  /\ slots' \in [Slot -> Link] /\ next' \in [Node -> Link]
         /\ prev' \in [Node -> Link] /\ slotIndex' \in [Node -> Slot]
<1>1. /\ UnlinkHead(n, from) \in [Slot -> Link]
      /\ UnlinkNext(n) \in [Node -> Link]
      /\ UnlinkPrev(n) \in [Node -> Link]
  BY UnlinkType
<1>2. UnlinkHead(n, from)[s] \in Link
  BY <1>1
<1>3. slots' \in [Slot -> Link] /\ next' \in [Node -> Link]
  BY <1>1, <1>2 DEF MoveTo, Link
<1>4. Store(UnlinkPrev(n), UnlinkHead(n, from)[s], n) \in [Node -> Link]
  BY <1>1 DEF Store, Link
<1>5. prev' \in [Node -> Link] /\ slotIndex' \in [Node -> Slot]
  BY <1>4 DEF MoveTo, Link, TypeOK
<1> QED BY <1>3, <1>5

LEMMA HandleTaskSchedulingType ==
  ASSUME TypeInv, NEW e \in Exec, HandleTaskScheduling(e)
  PROVE  TypeInv'
<1> DEFINE n == NodeOf(e)
<1>0. n \in Node /\ cur[e] \in Slot
  BY DEF TypeInv, TypeOK, Exec, NodeOf
<1>1. pc' \in [Exec -> PC] /\ staleActed' \in BOOLEAN
  BY DEF HandleTaskScheduling, Goto, TypeInv, TypeOK, PC
<1>2. CASE UNCHANGED <<listVars, task, ctx, due, mapVars, fresh>>
  BY <1>1, <1>2 DEF HandleTaskScheduling, TypeInv, TypeOK, ClientOK, wheelVars,
                    listVars, mapVars
<1>3. CASE Reschedule(e)
  <2>1. PICK s \in Slot :
          IF s = slotIndex[n] THEN UNCHANGED <<listVars, fresh>>
                              ELSE MoveTo(n, s, cur[e]) /\ Outdate(n)
    BY <1>3 DEF Reschedule
  <2>2. /\ slots' \in [Slot -> Link] /\ next' \in [Node -> Link]
        /\ prev' \in [Node -> Link] /\ slotIndex' \in [Node -> Slot]
    <3>1. CASE s = slotIndex[n]
      BY <2>1, <3>1 DEF TypeInv, TypeOK, listVars, Link
    <3>2. CASE s # slotIndex[n]
      BY <1>0, <2>1, <3>2, MoveToType DEF TypeInv
    <3> QED BY <3>1, <3>2
  <2>3. fresh' \in [Exec -> BOOLEAN] /\ due' \in [Node -> BOOLEAN]
    BY <1>3, <2>1 DEF Reschedule, Outdate, TypeInv, TypeOK
  <2> QED BY <1>1, <1>3, <2>2, <2>3 DEF HandleTaskScheduling, Reschedule, TypeInv,
                 TypeOK, ClientOK, wheelVars, mapVars, Link
<1>4. CASE RemoveExecuted(e)
  <2>1. Recycle(n, info[e].ID, cur[e])
    BY <1>4 DEF RemoveExecuted
  <2>2. /\ slots' \in [Slot -> Node \cup {NULL}]
        /\ next' \in [Node -> Node \cup {NULL}]
        /\ prev' \in [Node -> Node \cup {NULL}]
        /\ shard' \in [TaskID -> Node \cup {NULL}]
        /\ task' \in [Node -> Task \cup {NULL}]
        /\ ctx' \in [Node -> {"live", "cancelled", NULL}]
        /\ taskPool' \subseteq Node
    BY <1>0, <2>1, RecycleType DEF TypeInv
  <2>3. fresh' \in [Exec -> BOOLEAN]
    BY <1>4 DEF RemoveExecuted, Outdate, TypeInv, TypeOK
  <2> QED BY <1>1, <1>4, <2>2, <2>3 DEF HandleTaskScheduling, RemoveExecuted, TypeInv,
                 TypeOK, ClientOK, wheelVars
<1> QED BY <1>2, <1>3, <1>4 DEF HandleTaskScheduling

LEMMA WorkerType ==
  ASSUME TypeInv, NEW e \in Exec, Worker(e)
  PROVE  TypeInv'
<1>0. NodeOf(e) \in Node
  BY DEF Exec, NodeOf
<1>a. Saturate(seen[e]) \in 0 .. CountCap
  BY BoundAssumption DEF Saturate, TypeInv, TypeOK
<1>b. ASSUME NEW n \in Node PROVE Saturate(ran[n]) \in 0 .. CountCap
  BY BoundAssumption DEF Saturate, TypeInv, TypeOK
<1>c. ASSUME Leave(e)
      PROVE  /\ pc' \in [Exec -> PC] /\ info' \in [Exec -> Task \cup {NULL}]
             /\ cur' \in [Exec -> Slot] /\ seen' \in [Exec -> 0 .. CountCap]
             /\ fresh' \in [Exec -> BOOLEAN]
  BY <1>c, BoundAssumption DEF Leave, Goto, TypeInv, TypeOK, PC, Slot
<1>d. runningTasks \in Int /\ MaxConcurrent \in Int
  BY BoundAssumption DEF TypeInv, TypeOK
<1> USE DEF TypeInv, TypeOK, ClientOK, PC, Goto, Quiet, wheelVars, listVars, nodeVars,
            mapVars, histVars
<1>1. CASE AcquireSemaphore(e)
  BY <1>1, <1>d DEF AcquireSemaphore
<1>2. CASE SkipExecution(e)
  BY <1>2, <1>c DEF SkipExecution
<1>3. CASE CheckTaskState(e)
  BY <1>3 DEF CheckTaskState
<1>4. CASE CopyTaskInfo(e)
  BY <1>4, <1>0 DEF CopyTaskInfo
<1>5. CASE RunTask(e)
  BY <1>5 DEF RunTask
<1>6. CASE CallRun(e)
  BY <1>6, <1>0, <1>b DEF CallRun
<1>7. CASE RunReturns(e)
  BY <1>7 DEF RunReturns
<1>8. CASE RunPanics(e)
  BY <1>8 DEF RunPanics
<1>9. CASE LoadExecuted(e)
  BY <1>9, <1>0 DEF LoadExecuted
<1>10. CASE StoreExecuted(e)
  BY <1>10, <1>0, <1>a DEF StoreExecuted
<1>11. CASE Recheck(e)
  BY <1>11 DEF Recheck
<1>12. CASE Finish(e)
  BY <1>12, <1>c, <1>d DEF Finish, ReleaseToken
<1>13. CASE HandleTaskScheduling(e)
  BY <1>13, HandleTaskSchedulingType
<1> QED BY <1>1, <1>2, <1>3, <1>4, <1>5, <1>6, <1>7, <1>8, <1>9, <1>10, <1>11, <1>12,
           <1>13 DEF Worker

LEMMA ControlType ==
  ASSUME TypeInv, NEW id \in TaskID, Control(id)
  PROVE  TypeInv'
<1>1. ASSUME Remove(id), UNCHANGED client PROVE TypeInv'
  <2>1. client' \in [Client -> CallState] /\ ClientOK'
    BY <1>1 DEF TypeInv, TypeOK, ClientOK
  <2> QED BY <1>1, <2>1, RemoveType DEF TypeInv
<1>2. CASE PauseTask(id)
  BY <1>2 DEF PauseTask, TypeInv, TypeOK, ClientOK, wheelVars, listVars, mapVars,
              execVars, histVars
<1>3. CASE ResumeTask(id)
  BY <1>3 DEF ResumeTask, TypeInv, TypeOK, ClientOK, wheelVars, listVars, mapVars,
              execVars, histVars
<1> QED BY <1>1, <1>2, <1>3 DEF Control, RemoveTask, ClearAllTasks

LEMMA LifecycleType == ASSUME TypeInv, Lifecycle PROVE TypeInv'
<1> USE DEF TypeInv, TypeOK, ClientOK, listVars, nodeVars, mapVars, execVars, histVars
<1>1. CASE Start
  BY <1>1 DEF Start
<1>2. CASE StopBegin
  BY <1>2 DEF StopBegin
<1>3. CASE LoopExit
  BY <1>3 DEF LoopExit
<1>4. CASE StopEnd
  BY <1>4 DEF StopEnd
<1>5. CASE LoopAwaited
  BY <1>5 DEF LoopAwaited
<1> QED BY <1>1, <1>2, <1>3, <1>4, <1>5 DEF Lifecycle

LEMMA InitType == Init => TypeInv
<1> SUFFICES ASSUME Init PROVE TypeInv
  OBVIOUS
<1>1. 0 \in Slot /\ 0 \in 0 .. CountCap
  BY BoundAssumption DEF Slot
<1>2. NoCall \in CallState /\ NoCall.op = "idle"
  BY DEF NoCall, CallState
<1>3. client \in [Client -> CallState] /\ ClientOK
  BY <1>2 DEF Init, ClientOK
<1>4. /\ due \in [Node -> BOOLEAN] /\ paused \in [Node -> BOOLEAN]
      /\ fresh \in [Exec -> BOOLEAN]
  BY DEF Init
<1>5. /\ slotIndex \in [Node -> Slot] /\ executed \in [Node -> 0 .. CountCap]
      /\ cur \in [Exec -> Slot] /\ seen \in [Exec -> 0 .. CountCap]
      /\ ran \in [Node -> 0 .. CountCap]
  BY <1>1 DEF Init
<1>6. loop \in BOOLEAN /\ staleActed \in BOOLEAN
  BY DEF Init
<1>7. /\ phase \in {"stopped", "running", "stopping", "draining"}
      /\ currentSlot \in Slot /\ runningTasks \in Int
  BY <1>1 DEF Init
<1>8. pc \in [Exec -> PC]
  BY DEF Init, PC
<1>9. /\ taskPool \subseteq Node
      /\ slots \in [Slot -> Node \cup {NULL}]
      /\ next \in [Node -> Node \cup {NULL}] /\ prev \in [Node -> Node \cup {NULL}]
      /\ task \in [Node -> Task \cup {NULL}]
      /\ ctx \in [Node -> {"live", "cancelled", NULL}]
      /\ shard \in [TaskID -> Node \cup {NULL}]
      /\ info \in [Exec -> Task \cup {NULL}]
  BY DEF Init
<1> QED BY <1>3, <1>4, <1>5, <1>6, <1>7, <1>8, <1>9 DEF TypeInv, TypeOK

LEMMA NextType == TypeInv /\ [Next]_vars => TypeInv'
<1> SUFFICES ASSUME TypeInv, [Next]_vars PROVE TypeInv'
  OBVIOUS
<1>1. CASE UNCHANGED vars
  BY <1>1 DEF vars, wheelVars, listVars, nodeVars, mapVars, execVars, histVars,
              TypeInv, TypeOK, ClientOK
<1>2. ASSUME NEW n \in Node, TimePasses(n) PROVE TypeInv'
  BY <1>2 DEF TimePasses, TypeInv, TypeOK, ClientOK, wheelVars, listVars, mapVars,
              execVars, histVars
<1> QED BY <1>1, <1>2, LifecycleType, TickType, CallType, ControlType, WorkerType
        DEF Next

(* Every variable keeps its type in every behaviour of the wheel.          *)
THEOREM TypeCorrect == Spec => []TypeOK
<1>1. TypeInv => TypeOK
  BY DEF TypeInv
<1> QED BY InitType, NextType, <1>1, PTL DEF Spec
-----------------------------------------------------------------------------
(***************************************************************************)
(* What Stop and the semaphore promise, for every number of nodes, callers *)
(* and overlapping executions.                                             *)
(***************************************************************************)
(* The rotation goroutine lives only between Start and the first wait of   *)
(* Stop, and executions end before Stop does.                              *)
StopInv ==
  /\ loop => phase \in {"running", "stopping"}
  /\ phase = "stopped" => Active = {}

StopStrong == TypeInv /\ StopInv

(* Nothing of StopInv changes.                                             *)
LEMMA StopFrame ==
  ASSUME StopInv, UNCHANGED <<phase, loop, pc>>
  PROVE  StopInv'
BY DEF StopInv, Active

(* A caller's step starts no goroutine of the wheel.                       *)
LEMMA CallStop ==
  ASSUME StopStrong, NEW c \in Client, Call(c)
  PROVE  StopInv'
<1>1. UNCHANGED <<phase, loop, pc>>
  BY DEF Call, AddTask, Admit, Prepare, AddRejected, AddCommit, UpdateTask, UpdateRemove,
         UpdateAdd, UpdateRollback, Remove, wheelVars, execVars
<1> QED BY <1>1, StopFrame DEF StopStrong

(* An execution takes no step when it is idle.                             *)
LEMMA WorkerStop ==
  ASSUME StopStrong, NEW e \in Exec, Worker(e)
  PROVE  StopInv'
<1>1. pc[e] # "idle" /\ phase # "stopped"
  BY DEF Worker, AcquireSemaphore, SkipExecution, CheckTaskState, CopyTaskInfo, RunTask,
         CallRun, RunReturns, RunPanics, LoadExecuted, StoreExecuted, Recheck,
         HandleTaskScheduling, Finish, StopStrong, StopInv, Active
<1>2. UNCHANGED <<phase, loop>>
  BY DEF Worker, AcquireSemaphore, SkipExecution, CheckTaskState, CopyTaskInfo, RunTask,
         CallRun, RunReturns, RunPanics, LoadExecuted, StoreExecuted, Recheck,
         HandleTaskScheduling, Finish, Quiet, wheelVars
<1> QED BY <1>1, <1>2 DEF StopStrong, StopInv

LEMMA StopInit == Init => StopStrong
<1> SUFFICES ASSUME Init PROVE StopStrong
  OBVIOUS
<1>1. StopInv
  BY DEF Init, StopInv, Active
<1> QED BY <1>1, InitType DEF StopStrong

LEMMA StopNext == StopStrong /\ [Next]_vars => StopStrong'
<1> SUFFICES ASSUME StopStrong, [Next]_vars PROVE StopInv'
  BY NextType DEF StopStrong
<1>1. CASE UNCHANGED vars
  BY <1>1, StopFrame DEF vars, wheelVars, execVars, StopStrong
<1>2. CASE Lifecycle
  BY <1>2 DEF Lifecycle, Start, StopBegin, LoopExit, LoopAwaited, StopEnd, Waits, TasksDone,
              execVars, StopStrong, StopInv, Active
<1>3. CASE Tick
  BY <1>3 DEF Tick, StopStrong, StopInv, Active
<1>4. ASSUME NEW id \in TaskID, Control(id) PROVE StopInv'
  BY <1>4, StopFrame DEF Control, RemoveTask, ClearAllTasks, PauseTask, ResumeTask, Remove,
                         StopStrong, wheelVars, execVars
<1>5. ASSUME NEW n \in Node, TimePasses(n) PROVE StopInv'
  BY <1>5, StopFrame DEF TimePasses, StopStrong, wheelVars, execVars
<1> QED BY <1>1, <1>2, <1>3, <1>4, <1>5, CallStop, WorkerStop DEF Next

(* Only tick starts an execution.                                          *)
LEMMA OnlyTickStarts ==
  ASSUME TypeInv, [Next]_vars, ~Tick
  PROVE  Active' \subseteq Active
<1>0. ASSUME UNCHANGED pc PROVE Active' \subseteq Active
  BY <1>0 DEF Active
<1>1. ASSUME NEW e \in Exec, Worker(e) PROVE Active' \subseteq Active
  <2>1. pc[e] # "idle" /\ \E label \in PC : pc' = [pc EXCEPT ![e] = label]
    BY <1>1 DEF Worker, AcquireSemaphore, SkipExecution, CheckTaskState, CopyTaskInfo, RunTask,
           CallRun, RunReturns, RunPanics, LoadExecuted, StoreExecuted, Recheck,
           HandleTaskScheduling, Finish, Leave, Goto, PC
  <2>2. pc \in [Exec -> PC]
    BY DEF TypeInv, TypeOK
  <2> QED BY <2>1, <2>2 DEF Active
<1>2. ASSUME NEW c \in Client, Call(c) PROVE UNCHANGED pc
  BY <1>2 DEF Call, AddTask, Admit, Prepare, AddRejected, AddCommit, UpdateTask, UpdateRemove,
         UpdateAdd, UpdateRollback, Remove, execVars
<1>3. ASSUME NEW id \in TaskID, Control(id) PROVE UNCHANGED pc
  BY <1>3 DEF Control, RemoveTask, ClearAllTasks, PauseTask, ResumeTask, Remove, execVars
<1>4. ASSUME Lifecycle \/ UNCHANGED vars \/ \E n \in Node : TimePasses(n) PROVE UNCHANGED pc
  BY <1>4 DEF Lifecycle, Start, StopBegin, LoopExit, LoopAwaited, StopEnd, TimePasses, vars, execVars
<1> QED BY <1>0, <1>1, <1>2, <1>3, <1>4 DEF Next

(* A step of the wheel, once Stop waits for taskWg.                        *)
QuietStep ==
  /\ phase \in {"draining", "stopped"} => Active' \subseteq Active
  /\ phase' = "stopped" => Active' = {} /\ ~loop'

LEMMA StepIsQuiet == StopStrong /\ [Next]_vars => QuietStep
<1> SUFFICES ASSUME StopStrong, [Next]_vars PROVE QuietStep
  OBVIOUS
<1>1. phase \in {"draining", "stopped"} => ~Tick
  BY DEF StopStrong, StopInv, Tick
<1>2. phase \in {"draining", "stopped"} => Active' \subseteq Active
  BY <1>1, OnlyTickStarts DEF StopStrong
<1>3. StopInv'
  BY StopNext DEF StopStrong
<1> QED BY <1>2, <1>3 DEF QuietStep, StopInv

(* Once Stop waits for the executions no other one is started, and when it *)
(* has returned nothing of the wheel runs until the next Start.            *)
THEOREM StoppedIsQuiet == Spec => StopQuiesces
<1>1. StopStrong /\ [Next]_vars => [QuietStep]_vars
  BY StepIsQuiet
<1>2. Spec => [][QuietStep]_vars
  BY StopInit, StopNext, <1>1, PTL DEF Spec
<1> QED BY <1>2 DEF StopQuiesces, QuietStep
-----------------------------------------------------------------------------
(***************************************************************************)
(* The semaphore.                                                          *)
(***************************************************************************)

LEMMA HoldersFinite == IsFiniteSet(Holders)
<1>1. IsFiniteSet(1 .. Overlap)
  BY BoundAssumption, FS_Interval
<1>2. IsFiniteSet(Exec)
  BY <1>1, BoundAssumption, FS_Product DEF Exec
<1> QED BY <1>2, FS_Subset DEF Holders

SemaphoreInv == TypeInv /\ SemaphoreSound

(* The holders and the tokens stay the same.                               *)
LEMMA SemaphoreFrame ==
  ASSUME SemaphoreSound, Holders' = Holders, runningTasks' = runningTasks
  PROVE  SemaphoreSound'
BY DEF SemaphoreSound

(* An execution takes its token and gives it back once, on every path.     *)
LEMMA WorkerSemaphore ==
  ASSUME SemaphoreInv, NEW e \in Exec, Worker(e)
  PROVE  SemaphoreSound'
<1>0. IsFiniteSet(Holders) /\ Cardinality(Holders) \in Nat
  BY HoldersFinite, FS_CardinalityType
<1>1. CASE AcquireSemaphore(e)
  <2>1. e \notin Holders /\ Holders' = Holders \cup {e}
    BY <1>1 DEF AcquireSemaphore, Goto, Holders, SemaphoreInv, TypeInv, TypeOK
  <2>2. Cardinality(Holders') = Cardinality(Holders) + 1
    BY <1>0, <2>1, FS_AddElement
  <2>3. MaxConcurrent > 0 =>
          runningTasks < MaxConcurrent /\ runningTasks' = runningTasks + 1
    BY <1>1 DEF AcquireSemaphore
  <2> QED BY <1>0, <2>2, <2>3, BoundAssumption DEF SemaphoreInv, SemaphoreSound
<1>2. CASE Finish(e)
  <2>1. e \in Holders /\ Holders' = Holders \ {e}
    BY <1>2 DEF Finish, Leave, Goto, Holders, SemaphoreInv, TypeInv, TypeOK
  <2>2. Cardinality(Holders') = Cardinality(Holders) - 1
    BY <1>0, <2>1, FS_RemoveElement
  <2>3. MaxConcurrent > 0 => runningTasks' = runningTasks - 1
    BY <1>2 DEF Finish, ReleaseToken
  <2> QED BY <1>0, <2>2, <2>3, BoundAssumption DEF SemaphoreInv, SemaphoreSound
<1>3. CASE SkipExecution(e)
  <2>1. Holders' = Holders /\ runningTasks' = runningTasks
    BY <1>3 DEF SkipExecution, Leave, Goto, Holders, SemaphoreInv, TypeInv, TypeOK
  <2> QED BY <2>1, SemaphoreFrame DEF SemaphoreInv
<1>4. ASSUME NEW label, label \notin {"idle", "start"}, pc' = [pc EXCEPT ![e] = label],
             pc[e] \notin {"idle", "start"}, runningTasks' = runningTasks
      PROVE  SemaphoreSound'
  <2>1. Holders' = Holders
    BY <1>4 DEF Holders, SemaphoreInv, TypeInv, TypeOK
  <2> QED BY <1>4, <2>1, SemaphoreFrame DEF SemaphoreInv
<1>5. CASE CheckTaskState(e)
  BY <1>4, <1>5 DEF CheckTaskState, Goto
<1>6. CASE CopyTaskInfo(e)
  BY <1>4, <1>6 DEF CopyTaskInfo, Goto
<1>7. CASE RunTask(e)
  BY <1>4, <1>7 DEF RunTask, Goto
<1>8. CASE CallRun(e)
  BY <1>4, <1>8 DEF CallRun, Goto
<1>9. CASE RunReturns(e) \/ RunPanics(e)
  BY <1>4, <1>9 DEF RunReturns, RunPanics, Goto
<1>10. CASE LoadExecuted(e) \/ StoreExecuted(e)
  BY <1>4, <1>10 DEF LoadExecuted, StoreExecuted, Goto
<1>11. CASE Recheck(e)
  BY <1>4, <1>11 DEF Recheck, Goto
<1>12. CASE HandleTaskScheduling(e)
  BY <1>4, <1>12 DEF HandleTaskScheduling, Goto
<1> QED BY <1>1, <1>2, <1>3, <1>5, <1>6, <1>7, <1>8, <1>9, <1>10, <1>11, <1>12 DEF Worker

(* tick starts executions where none is in progress; they have no token.   *)
LEMMA TickSemaphore ==
  ASSUME SemaphoreInv, Tick
  PROVE  SemaphoreSound'
<1> DEFINE s == (currentSlot + 1) % SlotNum
           collected == {n \in Chain(s) : due[n]}
           started == {<<n, IdleCall(n)>> : n \in collected}
<1>1. \A n \in collected : \E k \in 1 .. Overlap : pc[<<n, k>>] = "idle"
  BY DEF Tick
<1>2. \A n \in collected : pc[<<n, IdleCall(n)>>] = "idle"
  BY <1>1 DEF IdleCall
<1>3. \A e \in started : pc[e] = "idle"
  BY <1>2
<1>4. pc' = [e \in Exec |-> IF e \in started THEN "start" ELSE pc[e]]
  BY DEF Tick
<1> HIDE DEF started
<1>5. Holders' = Holders
  BY <1>3, <1>4 DEF Holders
<1> QED BY <1>5, SemaphoreFrame DEF Tick, SemaphoreInv

LEMMA SemaphoreNext == SemaphoreInv /\ [Next]_vars => SemaphoreInv'
<1> SUFFICES ASSUME SemaphoreInv, [Next]_vars PROVE SemaphoreSound'
  BY NextType DEF SemaphoreInv
<1>0. ASSUME UNCHANGED <<pc, runningTasks>> PROVE SemaphoreSound'
  <2>1. Holders' = Holders
    BY <1>0 DEF Holders
  <2> QED BY <1>0, <2>1, SemaphoreFrame DEF SemaphoreInv
<1>1. CASE StopEnd
  <2>1. Holders' = {} /\ Cardinality({}) = 0
    BY <1>1, FS_EmptySet DEF StopEnd, Waits, TasksDone, Holders
  <2> QED BY <1>1, <2>1, BoundAssumption DEF StopEnd, SemaphoreSound
<1>2. CASE Start \/ StopBegin \/ LoopExit \/ LoopAwaited \/ UNCHANGED vars
  BY <1>0, <1>2 DEF Start, StopBegin, LoopExit, LoopAwaited, vars, execVars
<1>3. ASSUME NEW c \in Client, Call(c) PROVE SemaphoreSound'
  BY <1>0, <1>3 DEF Call, AddTask, Admit, UpdateTask, AddRejected, AddCommit, UpdateRemove,
         UpdateAdd, UpdateRollback, Prepare, Remove, execVars
<1>4. ASSUME NEW id \in TaskID, Control(id) PROVE SemaphoreSound'
  BY <1>0, <1>4 DEF Control, RemoveTask, ClearAllTasks, PauseTask, ResumeTask, Remove,
         execVars
<1>5. ASSUME NEW n \in Node, TimePasses(n) PROVE SemaphoreSound'
  BY <1>0, <1>5 DEF TimePasses, execVars
<1> QED BY <1>1, <1>2, <1>3, <1>4, <1>5, TickSemaphore, WorkerSemaphore
        DEF Next, Lifecycle

(* The semaphore holds exactly the executions between their acquisition    *)
(* and their deferred release, never more than maxConcurrentTasks.         *)
THEOREM SemaphoreStaysSound == Spec => []SemaphoreSound
<1>1. Init => SemaphoreInv
  <2> SUFFICES ASSUME Init PROVE SemaphoreSound
    BY InitType DEF SemaphoreInv
  <2>1. Holders = {} /\ Cardinality({}) = 0
    BY FS_EmptySet DEF Init, Holders
  <2> QED BY <2>1, BoundAssumption DEF Init, SemaphoreSound
<1>2. SemaphoreInv => SemaphoreSound
  BY DEF SemaphoreInv
<1> QED BY <1>1, <1>2, SemaphoreNext, PTL DEF Spec
=============================================================================
