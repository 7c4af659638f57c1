-------------------------- MODULE ReplicationProofs -------------------------
(***************************************************************************)
(* Four safety properties of Replication, for any number of slaves, any     *)
(* table size and any bounds: the full synchronisation is exclusive, the    *)
(* agent's table and its count agree although two threads change them,      *)
(* every slave is sent the writes in the order of the master, and its       *)
(* stream continues its snapshot.                                           *)
(*                                                                         *)
(* The last is the longest.  The snapshot is cut where the master forks,    *)
(* and the stream where the agent handles the SYNC it captured; between the *)
(* two the event travels through the ring buffer and global_agent_cache.    *)
(* The argument follows that event: the writes behind it are those that the *)
(* snapshot does not have.  It fails for a slave that the master refuses,   *)
(* so that the proof first shows of the SYNC of a slave that it is sent     *)
(* once, that the agent does not see it before the master, and that a slave *)
(* that the master refuses never joins.                                     *)
(***************************************************************************)
EXTENDS Replication, FiniteSetTheorems, WellFoundedInduction, TLAPS

\* The time the prover may take for a leaf; a few milliseconds are the rule.
USE SMTT(20)

-----------------------------------------------------------------------------
(* The exclusive full synchronisation.                                      *)
Busy == {s \in Slaves : session[s] \in {"child", "ready"}}

\* While the flag is down nobody is busy; while it is up exactly one is.  The
\* counting of FullSyncExclusive is replaced by the sets themselves.
SyncInv ==
  /\ is_full_sync \in BOOLEAN
  /\ session \in [Slaves -> {"closed", "reader", "child", "ready"}]
  /\ ~is_full_sync => Busy = {}
  /\ is_full_sync => \E s \in Slaves : Busy = {s}
  /\ \A s \in Slaves : pc[s] = "init" => session[s] = "closed"
  /\ DOMAIN pc = Slaves

LEMMA SyncInvInit == Init => SyncInv
BY Zenon DEF Init, SyncInv, Busy

LEMMA SyncInvNext == SyncInv /\ [Next]_vars => SyncInv'
<1> SUFFICES ASSUME SyncInv, [Next]_vars PROVE SyncInv'
  OBVIOUS
<1> USE DEF SyncInv, Busy
<1>1. CASE UNCHANGED vars
  BY <1>1 DEF vars, masterVars, slaveVars
<1>2. CASE \E w \in Writes : ClientWrite(w)
  BY <1>2 DEF ClientWrite, slaveVars
<1>3. ASSUME NEW s \in Slaves, MasterBusy(s) PROVE SyncInv'
  BY <1>3 DEF MasterBusy, masterVars, slaveVars
<1>4. ASSUME NEW s \in Slaves, MasterFork(s) PROVE SyncInv'
  <2>1. Busy' = {s}
    BY <1>4 DEF MasterFork
  <2> QED
    BY <1>4, <2>1 DEF MasterFork, slaveVars
<1>5. ASSUME NEW s \in Slaves, EndSync(s, "closed") \/ EndSync(s, "reader"),
             UNCHANGED pc, pc[s] # "init" \/ session'[s] = "closed",
             Busy \subseteq {s}
      PROVE SyncInv'
  BY <1>5, Zenon DEF EndSync
<1>6. ASSUME NEW s \in Slaves, MasterForkFails(s) PROVE SyncInv'
  <2>1. EndSync(s, "closed") /\ UNCHANGED pc /\ Busy = {} /\ session'[s] = "closed"
    BY <1>6 DEF MasterForkFails, EndSync, slaveVars
  <2> QED
    BY <1>5, <2>1
<1>7. ASSUME NEW s \in Slaves, session[s] \in {"child", "ready"}
      PROVE is_full_sync /\ Busy = {s} /\ pc[s] # "init"
  BY <1>7
<1>8. ASSUME NEW s \in Slaves, MasterNotify(s) PROVE SyncInv'
  <2>1. Busy = {s} /\ is_full_sync /\ pc[s] # "init" /\ UNCHANGED pc
    BY <1>7, <1>8, Zenon DEF MasterNotify, slaveVars
  <2>2. CASE EndSync(s, "reader")
    BY <1>5, <2>1, <2>2
  <2>3. CASE session' = [session EXCEPT ![s] = "ready"] /\ UNCHANGED is_full_sync
    <3>1. Busy' = {s}
      BY <2>1, <2>3
    <3> QED
      BY <2>1, <2>3, <3>1, Zenon
  <2> QED
    BY <1>8, <2>2, <2>3, Zenon DEF MasterNotify
<1>9. ASSUME NEW s \in Slaves,
             MasterChildFails(s) \/ MasterSendFile(s) \/ MasterNotReady(s)
      PROVE SyncInv'
  <2>1. session[s] \in {"child", "ready"} /\ UNCHANGED pc
        /\ (EndSync(s, "closed") \/ EndSync(s, "reader"))
    BY <1>9 DEF MasterChildFails, MasterSendFile, MasterNotReady, slaveVars
  <2> QED
    BY <1>5, <1>7, <2>1, Zenon
<1>10. ASSUME NEW s \in Slaves, MasterReads(s) PROVE SyncInv'
  <2>1. Busy' = Busy
    BY <1>10 DEF MasterReads
  <2> QED
    BY <1>10, <2>1 DEF MasterReads, slaveVars
<1>11. ASSUME NEW s \in Slaves, SlaveStart(s) PROVE SyncInv'
  <2>1. Busy' = Busy
    BY <1>11 DEF SlaveStart
  <2> QED
    BY <1>11, <2>1 DEF SlaveStart, Goes
<1>12. ASSUME NEW s \in Slaves, SlaveSync(s) \/ SlaveDies(s) PROVE SyncInv'
  <2>1. UNCHANGED <<is_full_sync, session>>
    BY <1>12, Zenon DEF SlaveSync, SlaveReply, SlaveLoad, SlaveCutOff, SlaveConnect,
                 SlaveFinished, SlaveExec, SlaveDies, masterVars
  <2>2. UNCHANGED pc \/ (\E next \in {"failed", "synced", "ready", "connected",
                                      "running", "dead"} : Goes(s, next))
    BY <1>12, Zenon DEF SlaveSync, SlaveReply, SlaveLoad, SlaveCutOff, SlaveConnect,
                 SlaveFinished, SlaveExec, SlaveDies
  <2> QED
    BY <2>1, <2>2 DEF Goes
<1>13. CASE HandleEvent \/ AgentThread \/ ServerAccept
            \/ \E s \in Slaves : ServerClose(s)
  <2>1. UNCHANGED <<is_full_sync, session, pc>>
    BY <1>13, Zenon DEF HandleEvent, AgentThread, AgentSync, AgentFinished, AgentWrite,
                 AgentOther, AgentFlush, Record, ServerAccept, ServerClose,
                 masterVars, slaveVars
  <2> QED
    BY <2>1
<1> QED
  BY <1>1, <1>2, <1>3, <1>4, <1>6, <1>8, <1>9, <1>10, <1>11, <1>12, <1>13, Zenon
  DEF Next, MasterSession

\* kvs_sync.c never runs two full synchronisations, and the flag is down
\* whenever none runs: for every set of slaves and every size.
THEOREM FullSyncAlwaysExclusive == Spec => []FullSyncExclusive
<1>1. SyncInv => FullSyncExclusive
  BY FS_EmptySet, FS_Singleton, Zenon DEF SyncInv, Busy, FullSyncExclusive
<1> QED
  BY <1>1, SyncInvInit, SyncInvNext, PTL DEF Spec
-----------------------------------------------------------------------------
(* The agent's table.                                                       *)
Used == {i \in 1 .. TableSize : table[i] # NONE}

Connected == {"connected", "running", "dead"}

\* No connection has two slots.  That an accepted connection is a new one
\* rests on the slave, which connects once: what is queued is queued once and
\* not yet open, and what is queued or open has connected.
TableInv ==
  /\ table \in [1 .. TableSize -> Slaves \cup {NONE}]
  /\ \A i, j \in Used : table[i] = table[j] => i = j
  /\ total = Cardinality(Used)
  /\ open \subseteq Slaves /\ InTable \subseteq open
  /\ backlog \in Seq(Slaves)
  /\ \A i, j \in 1 .. Len(backlog) : backlog[i] = backlog[j] => i = j
  /\ \A i \in 1 .. Len(backlog) : backlog[i] \notin open /\ pc[backlog[i]] \in Connected
  /\ \A s \in open : pc[s] \in Connected
  /\ DOMAIN pc = Slaves

\* A table in which no connection has two slots has as many connections as
\* used slots.
LEMMA SlotsCount ==
  ASSUME NEW T, NEW U, U = {i \in 1 .. TableSize : T[i] # NONE},
         \A i, j \in U : T[i] = T[j] => i = j
  PROVE  LET E == {T[i] : i \in 1 .. TableSize} \ {NONE}
         IN /\ IsFiniteSet(U) /\ IsFiniteSet(E)
            /\ Cardinality(U) \in Nat
            /\ Cardinality(E) = Cardinality(U)
<1> DEFINE E == {T[i] : i \in 1 .. TableSize} \ {NONE}
           f == [i \in U |-> T[i]]
<1>1. TableSize \in Nat
  BY ReplicationAssumption
<1>2. IsFiniteSet(U)
  BY <1>1, FS_Interval, FS_Subset
<1>3. f \in Bijection(U, E)
  BY DEF Bijection, Injection, Surjection, IsInjective
<1>4. ExistsBijection(U, E)
  BY <1>3 DEF ExistsBijection
<1> QED
  BY <1>2, <1>4, FS_Bijection, FS_CardinalityType

\* The search of kvs_slaves_insert finds a slot whenever total is not
\* MAX_SLAVE_COUNT, and it is the first free one.
LEMMA FreeSlot ==
  ASSUME NEW T, Cardinality({i \in 1 .. TableSize : T[i] # NONE}) # TableSize
  PROVE  \E i \in 1 .. TableSize : T[i] = NONE /\ \A j \in 1 .. i - 1 : T[j] # NONE
<1> DEFINE F == {i \in 1 .. TableSize : T[i] = NONE}
<1>1. TableSize \in Nat \ {0}
  BY ReplicationAssumption
<1>2. F # {}
  <2>1. ASSUME F = {} PROVE {i \in 1 .. TableSize : T[i] # NONE} = 1 .. TableSize
    BY <2>1
  <2>2. Cardinality(1 .. TableSize) = TableSize
    BY <1>1, FS_Interval
  <2> QED
    BY <2>1, <2>2, Zenon
<1>3. F \subseteq Nat
  BY <1>1
<1>4. PICK i \in F : \A j \in F : ~(<<j, i>> \in OpToRel(<, Nat))
  <2> HIDE DEF F
  <2> QED
    BY <1>2, <1>3, NatLessThanWellFounded, WFMin, Zenon
<1>5. \A j \in F : ~(j < i)
  BY <1>3, <1>4, Zenon DEF OpToRel
<1> QED
  BY <1>1, <1>5

LEMMA TableInvInit == Init => TableInv
<1> SUFFICES ASSUME Init PROVE TableInv
  OBVIOUS
<1>1. Used = {} /\ InTable = {}
  BY DEF Init, Used, InTable
<1> QED
  BY <1>1, FS_EmptySet DEF Init, TableInv

LEMMA InsertKeepsTable ==
  ASSUME TableInv, NEW s \in Slaves, s \notin open, kvs_slaves_insert(s)
  PROVE  /\ table' \in [1 .. TableSize -> Slaves \cup {NONE}]
         /\ \A i, j \in Used' : table'[i] = table'[j] => i = j
         /\ total' = Cardinality(Used')
         /\ InTable' \subseteq InTable \cup {s}
<1>1. CASE total = TableSize
  <2>1. table' = table /\ total' = total
    BY <1>1 DEF kvs_slaves_insert
  <2>2. Used' = Used /\ InTable' = InTable
    BY <2>1 DEF Used, InTable
  <2> QED
    BY <2>1, <2>2 DEF TableInv
<1>2. CASE total # TableSize
  <2> DEFINE First(i) == table[i] = NONE /\ \A j \in 1 .. i - 1 : table[j] # NONE
  <2>1. \E i \in 1 .. TableSize : First(i)
    BY <1>2, FreeSlot, Zenon DEF TableInv, Used
  <2>2. PICK free \in 1 .. TableSize : /\ table[free] = NONE
                                       /\ table' = [table EXCEPT ![free] = s]
                                       /\ total' = total + 1
    BY <1>2, <2>1 DEF kvs_slaves_insert
  <2>3. s # NONE /\ s \notin InTable
    BY ReplicationAssumption DEF TableInv
  <2>4. Used' = Used \cup {free} /\ free \notin Used
    BY <2>2, <2>3 DEF Used, TableInv
  <2>5. IsFiniteSet(Used)
    BY SlotsCount, Zenon DEF Used, TableInv
  <2>6. Cardinality(Used') = total + 1
    BY <2>4, <2>5, FS_AddElement, Zenon DEF TableInv
  <2>7. \A i \in Used : table[i] # s /\ table'[i] = table[i]
    BY <2>2, <2>3, <2>4 DEF Used, InTable, TableInv
  <2> QED
    BY <2>2, <2>4, <2>6, <2>7 DEF TableInv, InTable
<1> QED
  BY <1>1, <1>2

LEMMA DeleteKeepsTable ==
  ASSUME TableInv, NEW gone \in SUBSET Slaves, kvs_slaves_delete(gone)
  PROVE  /\ table' \in [1 .. TableSize -> Slaves \cup {NONE}]
         /\ \A i, j \in Used' : table'[i] = table'[j] => i = j
         /\ total' = Cardinality(Used')
         /\ InTable' = InTable \ gone
<1>1. NONE \notin gone
  BY ReplicationAssumption
<1>2. \A i \in Used' : i \in Used /\ table'[i] = table[i] /\ table[i] \notin gone
  BY <1>1 DEF kvs_slaves_delete, Used
<1>3. InTable' = InTable \ gone
  BY <1>1, Zenon DEF kvs_slaves_delete, InTable
<1>4. \A i, j \in Used' : table'[i] = table'[j] => i = j
  BY <1>2 DEF TableInv
<1>5. Cardinality(InTable) = total /\ IsFiniteSet(InTable) /\ total \in Nat
  BY SlotsCount, Zenon DEF TableInv, Used, InTable
<1>6. Cardinality(InTable') = Cardinality(Used')
  BY <1>4, SlotsCount, Zenon DEF Used, InTable
<1>7. Cardinality(InTable') = total - Cardinality(gone \cap InTable)
  <2>1. gone \cap InTable = InTable \cap gone
    OBVIOUS
  <2>2. Cardinality(InTable \ gone) = Cardinality(InTable) - Cardinality(InTable \cap gone)
    BY <1>5, FS_Difference, Zenon
  <2> QED
    BY <1>3, <1>5, <2>1, <2>2
<1> QED
  BY <1>3, <1>4, <1>6, <1>7, Zenon DEF kvs_slaves_delete, TableInv

LEMMA TableInvNext == TableInv /\ [Next]_vars => TableInv'
<1> SUFFICES ASSUME TableInv, [Next]_vars PROVE TableInv'
  OBVIOUS
<1>1. ASSUME UNCHANGED tableVars, DOMAIN pc' = Slaves,
             \A s \in Slaves : pc[s] \in Connected => pc'[s] \in Connected
      PROVE  TableInv'
  <2>1. Used' = Used /\ InTable' = InTable
    BY <1>1 DEF tableVars, Used, InTable
  <2>2. \A i \in 1 .. Len(backlog) : backlog[i] \in Slaves
    BY DEF TableInv
  <2> QED
    BY <1>1, <2>1, <2>2 DEF tableVars, TableInv
<1>2. ASSUME NEW s \in Slaves, NEW next, Goes(s, next),
             pc[s] \notin Connected \/ next \in Connected
      PROVE  /\ DOMAIN pc' = Slaves
             /\ \A t \in Slaves : pc[t] \in Connected => pc'[t] \in Connected
  BY <1>2, Zenon DEF Goes, TableInv
<1>3. CASE UNCHANGED vars
  BY <1>1, <1>3 DEF vars, slaveVars, TableInv
<1>4. CASE (\E w \in Writes : ClientWrite(w)) \/ HandleEvent
           \/ (\E s \in Slaves : MasterSession(s))
  <2>1. UNCHANGED tableVars /\ UNCHANGED pc
    BY <1>4, Zenon DEF ClientWrite, HandleEvent, MasterSession, MasterBusy, MasterFork,
                MasterForkFails, MasterNotify, MasterChildFails, MasterSendFile,
                MasterNotReady, MasterReads, slaveVars
  <2>2. DOMAIN pc = Slaves
    BY DEF TableInv
  <2> QED
    BY <1>1, <2>1, <2>2, Zenon
<1>5. ASSUME NEW s \in Slaves,
             \/ SlaveStart(s) \/ SlaveReply(s) \/ SlaveLoad(s) \/ SlaveCutOff(s)
             \/ SlaveFinished(s) \/ SlaveDies(s)
      PROVE  TableInv'
  <2>1. UNCHANGED tableVars
    BY <1>5, Zenon DEF SlaveStart, SlaveReply, SlaveLoad, SlaveCutOff, SlaveFinished,
                SlaveDies
  <2>2. \E next \in {"sync", "failed", "synced", "ready", "running", "dead"} :
           /\ Goes(s, next)
           /\ pc[s] \notin Connected \/ next \in Connected
    BY <1>5, Zenon DEF SlaveStart, SlaveReply, SlaveLoad, SlaveCutOff, SlaveFinished,
                SlaveDies, Connected
  <2> QED
    BY <1>1, <1>2, <2>1, <2>2
<1>6. ASSUME NEW s \in Slaves, SlaveExec(s) PROVE TableInv'
  BY <1>1, <1>6, Zenon DEF SlaveExec, TableInv
<1>7. ASSUME NEW s \in Slaves, SlaveConnect(s) PROVE TableInv'
  <2>1. CASE UNCHANGED backlog /\ Goes(s, "failed")
    <3>1. UNCHANGED tableVars /\ pc[s] \notin Connected
      BY <1>7, <2>1, Zenon DEF SlaveConnect, tableVars, Connected
    <3> QED
      BY <1>1, <1>2, <2>1, <3>1, Zenon
  <2>2. CASE backlog' = Append(backlog, s) /\ Goes(s, "connected")
    <3>1. /\ UNCHANGED <<table, total, open>> /\ pc[s] \notin Connected
          /\ Used' = Used /\ InTable' = InTable
      BY <1>7, Zenon DEF SlaveConnect, Connected, Used, InTable
    <3>2. /\ DOMAIN pc' = Slaves /\ pc'[s] \in Connected
          /\ \A t \in Slaves : t # s => pc'[t] = pc[t]
      BY <2>2 DEF Goes, TableInv, Connected
    <3>3. s \notin open /\ \A i \in 1 .. Len(backlog) : backlog[i] # s
      BY <3>1, Zenon DEF TableInv
    <3>4. /\ backlog' \in Seq(Slaves) /\ Len(backlog') = Len(backlog) + 1
          /\ backlog'[Len(backlog) + 1] = s
          /\ \A i \in 1 .. Len(backlog) : /\ backlog'[i] = backlog[i]
                                          /\ backlog[i] \in Slaves
      BY <2>2 DEF TableInv
    <3>5. \A i \in 1 .. Len(backlog') : i \in 1 .. Len(backlog) \/ i = Len(backlog) + 1
      BY <3>4 DEF TableInv
    <3>6. \A i, j \in 1 .. Len(backlog') : backlog'[i] = backlog'[j] => i = j
      BY <3>3, <3>4, <3>5, Zenon DEF TableInv
    <3>7. \A i \in 1 .. Len(backlog') : backlog'[i] \notin open
                                        /\ pc'[backlog'[i]] \in Connected
      BY <3>2, <3>3, <3>4, <3>5 DEF TableInv
    <3> QED
      BY <3>1, <3>2, <3>3, <3>4, <3>6, <3>7 DEF TableInv
  <2> QED
    BY <1>7, <2>1, <2>2, Zenon DEF SlaveConnect
<1>8. ASSUME UNCHANGED <<backlog, open, pc>>, NEW gone \in SUBSET InTable,
             kvs_slaves_delete(gone)
      PROVE  TableInv'
  <2>1. gone \in SUBSET Slaves
    BY <1>8, Zenon DEF TableInv
  <2> QED
    BY <1>8, <2>1, DeleteKeepsTable DEF TableInv
<1>9. ASSUME NEW n, kvs_agent_send(n), UNCHANGED <<backlog, open, pc>> PROVE TableInv'
  BY <1>8, <1>9 DEF kvs_agent_send
<1>10. CASE AgentThread
  <2>1. UNCHANGED <<backlog, open, pc>>
    BY <1>10, Zenon DEF AgentThread, AgentSync, AgentFinished, AgentWrite, AgentOther,
                 AgentFlush, Record
  <2>2. UNCHANGED <<table, total>> \/ \E n : kvs_agent_send(n)
    BY <1>10 DEF AgentThread, AgentSync, AgentFinished, AgentWrite, AgentOther,
                 AgentFlush
  <2>3. CASE UNCHANGED <<table, total>>
    BY <1>1, <2>1, <2>3, Zenon DEF tableVars, TableInv
  <2> QED
    BY <1>9, <2>1, <2>2, <2>3, Zenon
<1>11. CASE ServerAccept
  <2> DEFINE s == Head(backlog)
  <2>1. /\ s \in Slaves /\ s \notin open /\ s = backlog[1] /\ pc[s] \in Connected
        /\ Len(backlog) \in Nat \ {0}
    BY <1>11 DEF ServerAccept, TableInv
  <2>2. /\ kvs_slaves_insert(s) /\ backlog' = Tail(backlog)
        /\ open' = open \cup {s} /\ UNCHANGED pc
    BY <1>11, Zenon DEF ServerAccept, slaveVars
  <2>3. /\ backlog' \in Seq(Slaves) /\ Len(backlog') = Len(backlog) - 1
        /\ \A i \in 1 .. Len(backlog') : /\ backlog'[i] = backlog[i + 1]
                                         /\ i + 1 \in 1 .. Len(backlog)
    BY <2>1, <2>2 DEF TableInv
  <2>4. \A i \in 1 .. Len(backlog') : backlog'[i] \notin open'
                                      /\ pc'[backlog'[i]] \in Connected
    BY <2>1, <2>2, <2>3 DEF TableInv
  <2>5. \A i, j \in 1 .. Len(backlog') : backlog'[i] = backlog'[j] => i = j
    <3> SUFFICES ASSUME NEW i \in 1 .. Len(backlog'), NEW j \in 1 .. Len(backlog'),
                        backlog'[i] = backlog'[j]
                 PROVE  i = j
      BY Zenon
    <3>1. \A a, b \in 1 .. Len(backlog) : backlog[a] = backlog[b] => a = b
      BY DEF TableInv
    <3>2. /\ i + 1 \in 1 .. Len(backlog) /\ j + 1 \in 1 .. Len(backlog)
          /\ backlog[i + 1] = backlog[j + 1]
      BY <2>3, Zenon
    <3>3. i + 1 = j + 1
      BY <3>1, <3>2, Zenon
    <3> QED
      BY <3>3
  <2> HIDE DEF s
  <2> QED
    BY <2>1, <2>2, <2>3, <2>4, <2>5, InsertKeepsTable, Zenon DEF TableInv
<1>12. ASSUME NEW s \in Slaves, ServerClose(s) PROVE TableInv'
  <2>1. /\ kvs_slaves_delete({s}) /\ open' = open \ {s}
        /\ UNCHANGED backlog /\ UNCHANGED pc
    BY <1>12 DEF ServerClose, slaveVars
  <2>2. {s} \in SUBSET Slaves
    BY Zenon
  <2> QED
    BY <2>1, <2>2, DeleteKeepsTable DEF TableInv
<1> QED
  BY <1>3, <1>4, <1>5, <1>6, <1>7, <1>10, <1>11, <1>12, Zenon DEF Next, SlaveSync

\* Whatever the order in which the agent thread and the server thread insert
\* and delete, total is the number of used slots and of connections in the
\* table, and each of them is open.
THEOREM TableAlwaysConsistent == Spec => []TableConsistent
<1>1. TableInv => TableConsistent
  BY SlotsCount, Zenon DEF TableInv, TableConsistent, Used, InTable
<1> QED
  BY <1>1, TableInvInit, TableInvNext, PTL DEF Spec

-----------------------------------------------------------------------------
(* The order of the stream.                                                 *)
AnyEvent == [cmd : {"WRITE", "SYNC", "READY", "FINISHED", "ERROR"}, n : Nat,
             by : Slaves \cup {NONE}]

\* The numbers of the writes among the events of q rise.
Rising(q) ==
  \A i, j \in 1 .. Len(q) :
    i < j /\ q[i].cmd = "WRITE" /\ q[j].cmd = "WRITE" => q[i].n < q[j].n

Ascending(q) == \A i, j \in 1 .. Len(q) : i < j => q[i] < q[j]

Below(A, B) == \A a \in A, b \in B : a < b

LEMMA NumbersNat == \A q \in Seq(AnyEvent) : \A x \in Numbers(q) : x \in Nat
<1> SUFFICES ASSUME NEW q \in Seq(AnyEvent), NEW x \in Numbers(q) PROVE x \in Nat
  OBVIOUS
<1>1. PICK i \in 1 .. Len(q) : x = q[i].n
  BY Zenon DEF Numbers
<1>2. q[i] \in AnyEvent
  OBVIOUS
<1> QED
  BY <1>1, <1>2 DEF AnyEvent

LEMMA ElementsNat == \A q \in Seq(Nat) : \A x \in Elements(q) : x \in Nat
BY DEF Elements

\* The least number of a stage without a gap is the one that leaves it.
LEMMA FirstOfRange ==
  ASSUME NEW a \in Nat, NEW b \in Nat, NEW T, NEW n,
         Below({n}, T), T \cup {n} = a + 1 .. b
  PROVE  n = a + 1 /\ n <= b /\ T = n + 1 .. b
<1>1. n \in a + 1 .. b /\ a + 1 \in T \cup {n}
  OBVIOUS
<1>2. n = a + 1
  BY <1>1 DEF Below
<1>3. \A x \in T : x \in n + 1 .. b
  BY <1>1 DEF Below
<1>4. \A x \in n + 1 .. b : x \in T
  BY <1>1
<1>5. T = n + 1 .. b
  BY <1>3, <1>4, Zenon
<1> QED
  BY <1>1, <1>2, <1>5

LEMMA Longer ==
  ASSUME NEW q \in Seq(AnyEvent), NEW e \in AnyEvent
  PROVE  /\ Len(Append(q, e)) = Len(q) + 1 /\ Append(q, e)[Len(q) + 1] = e
         /\ \A i \in 1 .. Len(q) : Append(q, e)[i] = q[i]
<1> DEFINE Q == AnyEvent
<1> HIDE DEF Q
<1>1. q \in Seq(Q) /\ e \in Q
  BY Zenon DEF Q
<1> QED
  BY <1>1

LEMMA LongerNumbers ==
  ASSUME NEW q \in Seq(Nat), NEW n \in Nat
  PROVE  /\ Len(q) \in Nat /\ Len(Append(q, n)) = Len(q) + 1 /\ Append(q, n) \in Seq(Nat)
         /\ \A i \in 1 .. Len(q) : Append(q, n)[i] = q[i]
         /\ Append(q, n)[Len(q) + 1] = n
OBVIOUS

LEMMA LogLength ==
  ASSUME log \in Seq(Writes)
  PROVE  Len(log) \in Nat
OBVIOUS

LEMMA LogGrows ==
  ASSUME log \in Seq(Writes), NEW w, log' = Append(log, w)
  PROVE  Len(log) \in Nat /\ Len(log') = Len(log) + 1
OBVIOUS

\* What a command that is no write leaves in the ring.
LEMMA CommandEvent ==
  ASSUME NEW msg \in {"SYNC", "READY", "ERROR", "FINISHED"}, NEW s \in Slaves
  PROVE  [cmd |-> msg, n |-> 0, by |-> s] \in AnyEvent /\ msg # "WRITE"
BY DEF AnyEvent

\* The numbers after m + k, up to one more.
LEMMA OneMore ==
  ASSUME NEW m \in Nat, NEW k \in Nat, NEW L \in Nat, m + k <= L
  PROVE  /\ m + k <= L + 1
         /\ (m + k + 1 .. L) \cup {L + 1} = m + k + 1 .. L + 1
OBVIOUS

LEMMA NoneAfter ==
  ASSUME NEW L \in Nat
  PROVE  L + 1 .. L = {}
OBVIOUS

LEMMA AppendEvent ==
  ASSUME NEW q \in Seq(AnyEvent), NEW e \in AnyEvent, Rising(q),
         e.cmd = "WRITE" => Below(Numbers(q), {e.n})
  PROVE  /\ Append(q, e) \in Seq(AnyEvent) /\ Rising(Append(q, e))
         /\ Numbers(Append(q, e)) =
              Numbers(q) \cup (IF e.cmd = "WRITE" THEN {e.n} ELSE {})
<1> DEFINE r == Append(q, e)
<1>1. /\ Len(q) \in Nat /\ r \in Seq(AnyEvent) /\ Len(r) = Len(q) + 1
      /\ r[Len(q) + 1] = e /\ \A i \in 1 .. Len(q) : r[i] = q[i]
  OBVIOUS
<1>2. \A i \in 1 .. Len(r) : i \in 1 .. Len(q) \/ i = Len(q) + 1
  BY <1>1
<1>3. Numbers(r) = Numbers(q) \cup (IF e.cmd = "WRITE" THEN {e.n} ELSE {})
  BY <1>1, <1>2 DEF Numbers
<1>4. Rising(r)
  <2> SUFFICES ASSUME NEW i \in 1 .. Len(r), NEW j \in 1 .. Len(r), i < j,
                      r[i].cmd = "WRITE", r[j].cmd = "WRITE"
               PROVE  r[i].n < r[j].n
    BY Zenon DEF Rising
  <2>1. i \in 1 .. Len(q) /\ r[i] = q[i]
    BY <1>1
  <2>2. CASE j \in 1 .. Len(q)
    BY <1>1, <2>1, <2>2, Zenon DEF Rising
  <2>3. CASE j = Len(q) + 1
    BY <1>1, <2>1, <2>3 DEF Below, Numbers
  <2> QED
    BY <1>2, <2>2, <2>3
<1> QED
  BY <1>1, <1>3, <1>4, Zenon

LEMMA TailEvent ==
  ASSUME NEW q \in Seq(AnyEvent), q # <<>>, Rising(q)
  PROVE  /\ Head(q) \in AnyEvent /\ Tail(q) \in Seq(AnyEvent) /\ Rising(Tail(q))
         /\ Head(q).cmd # "WRITE" => Numbers(Tail(q)) = Numbers(q)
         /\ Head(q).cmd = "WRITE" =>
              /\ Head(q).n \in Numbers(q) /\ Below({Head(q).n}, Numbers(Tail(q)))
              /\ Numbers(q) = Numbers(Tail(q)) \cup {Head(q).n}
<1> DEFINE t == Tail(q)
<1>1. /\ Len(q) \in Nat \ {0} /\ t \in Seq(AnyEvent) /\ Len(t) = Len(q) - 1
      /\ Head(q) = q[1] /\ q[1] \in AnyEvent
      /\ \A i \in 1 .. Len(t) : t[i] = q[i + 1] /\ i + 1 \in 1 .. Len(q)
  OBVIOUS
<1>2. \A i \in 1 .. Len(q) : i = 1 \/ (i - 1 \in 1 .. Len(t) /\ q[i] = t[i - 1])
  BY <1>1
<1>3. Rising(t)
  BY <1>1 DEF Rising
<1>4. Numbers(t) \subseteq Numbers(q)
  BY <1>1 DEF Numbers
<1>5. ASSUME NEW x \in Numbers(q)
      PROVE  x \in Numbers(t) \/ (q[1].cmd = "WRITE" /\ x = q[1].n)
  <2>1. PICK i \in 1 .. Len(q) : q[i].cmd = "WRITE" /\ x = q[i].n
    BY <1>5 DEF Numbers
  <2>2. CASE i = 1
    BY <2>1, <2>2
  <2>3. CASE i - 1 \in 1 .. Len(t) /\ q[i] = t[i - 1]
    BY <2>1, <2>3, Zenon DEF Numbers
  <2> QED
    BY <1>2, <2>2, <2>3, Zenon
<1>6. ASSUME q[1].cmd = "WRITE" PROVE q[1].n \in Numbers(q) /\ Below({q[1].n}, Numbers(t))
  <2>1. q[1].n \in Numbers(q)
    BY <1>1, <1>6 DEF Numbers
  <2>2. ASSUME NEW x \in Numbers(t) PROVE q[1].n < x
    <3>1. PICK i \in 1 .. Len(t) : t[i].cmd = "WRITE" /\ x = t[i].n
      BY <2>2 DEF Numbers
    <3>2. i + 1 \in 1 .. Len(q) /\ 1 < i + 1 /\ q[i + 1] = t[i] /\ 1 \in 1 .. Len(q)
      BY <1>1
    <3> QED
      BY <1>6, <3>1, <3>2, Zenon DEF Rising
  <2> QED
    BY <2>1, <2>2, Zenon DEF Below
<1> QED
  BY <1>1, <1>3, <1>4, <1>5, <1>6, Zenon

LEMMA AppendNumber ==
  ASSUME NEW q \in Seq(Nat), NEW n \in Nat, Ascending(q), Below(Elements(q), {n})
  PROVE  /\ Append(q, n) \in Seq(Nat) /\ Ascending(Append(q, n))
         /\ Elements(Append(q, n)) = Elements(q) \cup {n}
<1> DEFINE r == Append(q, n)
<1>1. /\ Len(q) \in Nat /\ r \in Seq(Nat) /\ Len(r) = Len(q) + 1
      /\ r[Len(q) + 1] = n /\ \A i \in 1 .. Len(q) : r[i] = q[i]
  OBVIOUS
<1>2. \A i \in 1 .. Len(r) : i \in 1 .. Len(q) \/ i = Len(q) + 1
  BY <1>1
<1>3. Elements(r) = Elements(q) \cup {n}
  BY <1>1, <1>2 DEF Elements
<1>4. Ascending(r)
  BY <1>1, <1>2 DEF Ascending, Below, Elements
<1> QED
  BY <1>1, <1>3, <1>4, Zenon

LEMMA TailNumber ==
  ASSUME NEW q \in Seq(Nat), q # <<>>, Ascending(q)
  PROVE  /\ Head(q) \in Nat /\ Tail(q) \in Seq(Nat) /\ Ascending(Tail(q))
         /\ Head(q) \in Elements(q) /\ Below({Head(q)}, Elements(Tail(q)))
         /\ Elements(q) = Elements(Tail(q)) \cup {Head(q)}
<1> DEFINE t == Tail(q)
<1>1. /\ Len(q) \in Nat \ {0} /\ t \in Seq(Nat) /\ Len(t) = Len(q) - 1
      /\ Head(q) = q[1] /\ q[1] \in Nat
      /\ \A i \in 1 .. Len(t) : t[i] = q[i + 1] /\ i + 1 \in 1 .. Len(q)
  OBVIOUS
<1>2. \A i \in 1 .. Len(q) : i = 1 \/ (i - 1 \in 1 .. Len(t) /\ q[i] = t[i - 1])
  BY <1>1
<1>3. Ascending(t)
  BY <1>1 DEF Ascending
<1>4. Elements(q) = Elements(t) \cup {q[1]}
  BY <1>1, <1>2 DEF Elements
<1>5. Below({q[1]}, Elements(t))
  BY <1>1 DEF Below, Elements, Ascending
<1> QED
  BY <1>1, <1>3, <1>4, <1>5, Zenon

LastSent(s) == sent[s][Len(sent[s])]

\* The slaves that the agent sends to.
Reached == {s \in InTable : pc[s] # "dead"}

\* While no event was dropped the writes lie in the stages without a gap: up
\* to k they were sent, up to m they are held back, up to g they wait in
\* global_agent_cache and the rest waits in the ring buffer.  An agent that
\* stopped reads neither of the last two any more.
Dense ==
  \E k, m, g \in Nat :
    /\ k <= m /\ Elements(fullsync_cache) = k + 1 .. m
    /\ \A s \in Reached : sent[s] # <<>> => LastSent(s) = k
    /\ ~existing => /\ m <= g /\ g <= Len(log)
                    /\ Numbers(global_cache) = m + 1 .. g
                    /\ Numbers(ring) = g + 1 .. Len(log)

\* Each stage is in order, lies before the next one and after what any slave
\* was sent; and only a slave that was accepted was sent anything.
OrderInv ==
  /\ log \in Seq(Writes) /\ lost \in BOOLEAN /\ existing \in BOOLEAN
  /\ flushing \in BOOLEAN
  /\ ring \in Seq(AnyEvent) /\ global_cache \in Seq(AnyEvent)
  /\ fullsync_cache \in Seq(Nat) /\ sent \in [Slaves -> Seq(Nat)]
  /\ Rising(ring) /\ Rising(global_cache) /\ Ascending(fullsync_cache)
  /\ Below(Numbers(ring), {Len(log) + 1})
  /\ Below(Numbers(global_cache), Numbers(ring) \cup {Len(log) + 1})
  /\ Below(Elements(fullsync_cache),
           Numbers(global_cache) \cup Numbers(ring) \cup {Len(log) + 1})
  /\ \A s \in Slaves : sent[s] # <<>> =>
       /\ Below({LastSent(s)}, Elements(fullsync_cache) \cup Numbers(global_cache)
                               \cup Numbers(ring) \cup {Len(log) + 1})
       /\ pc[s] \in Connected /\ s \notin Elements(backlog)
  /\ flushing => fullsync_cache # <<>> /\ state # "FULL_SYNC"
  /\ state # "FULL_SYNC" /\ ~flushing => fullsync_cache = <<>>
  /\ StreamInOrder
  /\ ~lost => Dense

LEMMA EmptySequences ==
  ASSUME NEW q, q = <<>>
  PROVE  /\ q \in Seq(AnyEvent) /\ q \in Seq(Nat) /\ Numbers(q) = {} /\ Elements(q) = {}
         /\ Rising(q) /\ Ascending(q)
BY DEF Numbers, Elements, Rising, Ascending

LEMMA OrderInvInit == Init => OrderInv
<1> SUFFICES ASSUME Init PROVE OrderInv
  OBVIOUS
<1>1. /\ Numbers(ring) = {} /\ Numbers(global_cache) = {} /\ Elements(fullsync_cache) = {}
      /\ ring \in Seq(AnyEvent) /\ global_cache \in Seq(AnyEvent) /\ fullsync_cache \in Seq(Nat)
      /\ Rising(ring) /\ Rising(global_cache) /\ Ascending(fullsync_cache)
  BY EmptySequences, Zenon DEF Init
<1>2. InTable = {} /\ Len(log) = 0 /\ log \in Seq(Writes)
  BY DEF Init, InTable
<1>3. Dense
  <2>1. 0 \in Nat /\ 0 <= 0 /\ 0 + 1 .. 0 = {}
    OBVIOUS
  <2>2. Reached = {}
    BY <1>2, Zenon DEF Reached
  <2> QED
    BY <1>1, <1>2, <2>1, <2>2, Zenon DEF Dense
<1>4. \A s \in Slaves : sent[s] = <<>>
  BY DEF Init
<1>5. StreamInOrder
  BY <1>4 DEF StreamInOrder
<1> QED
  BY <1>1, <1>2, <1>3, <1>4, <1>5, Zenon DEF Init, OrderInv, Below

\* kvs_agent_send of a write that follows what the reached slaves were sent.
LEMMA SendKeepsOrder ==
  ASSUME OrderInv, TableInv, NEW n \in Nat, kvs_agent_send(n), UNCHANGED <<lost, pc>>,
         \A s \in Reached : sent[s] # <<>> =>
           LastSent(s) < n /\ (~lost => LastSent(s) + 1 = n)
  PROVE  /\ sent' \in [Slaves -> Seq(Nat)] /\ StreamInOrder'
         /\ Reached' \subseteq Reached
         /\ \A s \in Slaves : sent'[s] # sent[s] => s \in Reached
         /\ \A s \in Reached : sent'[s] # <<>> /\ LastSent(s)' = n
<1>1. Reached \subseteq Slaves
  BY Zenon DEF Reached, TableInv
<1>2. /\ \A s \in Reached : sent'[s] = Append(sent[s], n)
      /\ \A s \in Slaves \ Reached : sent'[s] = sent[s]
      /\ DOMAIN sent' = Slaves /\ sent' = [s \in Slaves |-> sent'[s]]
  BY <1>1, Zenon DEF kvs_agent_send, Reached
<1>3. \A s \in Slaves : sent[s] \in Seq(Nat)
  BY Zenon DEF OrderInv
<1>4. \A s \in Reached : /\ Append(sent[s], n) \in Seq(Nat)
                         /\ Len(Append(sent[s], n)) = Len(sent[s]) + 1
                         /\ Append(sent[s], n)[Len(sent[s]) + 1] = n
                         /\ \A i \in 1 .. Len(sent[s]) : Append(sent[s], n)[i] = sent[s][i]
  BY <1>1, <1>3
<1>5. sent' \in [Slaves -> Seq(Nat)]
  <2>1. ASSUME NEW s \in Slaves PROVE sent'[s] \in Seq(Nat)
    <3>1. CASE s \in Reached
      BY <1>2, <1>4, <3>1, Zenon
    <3>2. CASE s \notin Reached
      BY <1>2, <1>3, <3>2, Zenon
    <3> QED
      BY <3>1, <3>2
  <2> QED
    BY <1>2, <2>1, Zenon
<1>6. \A s \in Reached : sent'[s] # <<>> /\ LastSent(s)' = n
  <2> TAKE s \in Reached
  <2>1. Len(sent[s]) \in Nat /\ Len(sent'[s]) = Len(sent[s]) + 1
    BY <1>1, <1>2, <1>3, <1>4
  <2> QED
    BY <1>2, <1>4, <2>1 DEF LastSent
<1>7. StreamInOrder'
  <2> SUFFICES ASSUME NEW s \in Slaves, NEW i \in 1 .. Len(sent'[s]) - 1
               PROVE  IF lost THEN sent'[s][i] < sent'[s][i + 1]
                              ELSE sent'[s][i] + 1 = sent'[s][i + 1]
    BY Zenon DEF StreamInOrder
  <2>1. CASE s \notin Reached
    <3>1. sent'[s] = sent[s] /\ StreamInOrder
      BY <1>2, <2>1, Zenon DEF OrderInv
    <3> QED
      BY <3>1, Zenon DEF StreamInOrder
  <2>2. CASE s \in Reached
    <3>1. /\ Len(sent[s]) \in Nat /\ Len(sent'[s]) = Len(sent[s]) + 1
          /\ sent'[s][Len(sent[s]) + 1] = n
          /\ \A j \in 1 .. Len(sent[s]) : sent'[s][j] = sent[s][j]
      BY <1>2, <1>3, <1>4, <2>2
    <3>2. CASE i = Len(sent[s])
      <4>1. sent[s] # <<>> /\ sent'[s][i] = LastSent(s)
        BY <3>1, <3>2 DEF LastSent
      <4> QED
        BY <2>2, <3>1, <3>2, <4>1, Zenon
    <3>3. CASE i # Len(sent[s])
      <4>1. i \in 1 .. Len(sent[s]) - 1 /\ i + 1 \in 1 .. Len(sent[s])
        BY <3>1, <3>3
      <4>2. sent'[s][i] = sent[s][i] /\ sent'[s][i + 1] = sent[s][i + 1]
        BY <3>1, <4>1
      <4> QED
        BY <4>1, <4>2, Zenon DEF OrderInv, StreamInOrder
    <3> QED
      BY <3>2, <3>3, Zenon
  <2> QED
    BY <2>1, <2>2, Zenon
<1>8. Reached' \subseteq Reached
  <2>1. PICK gone \in SUBSET (InTable \ Reached) : kvs_slaves_delete(gone)
    BY Zenon DEF kvs_agent_send, Reached
  <2>2. gone \in SUBSET Slaves
    BY Zenon DEF TableInv
  <2>3. InTable' = InTable \ gone
    BY <2>1, <2>2, DeleteKeepsTable, Zenon
  <2> QED
    BY <2>3 DEF Reached
<1> QED
  BY <1>2, <1>5, <1>6, <1>7, <1>8, Zenon

\* What was sent stays in order when nothing is sent, whether or not an event
\* is dropped.
LEMMA SameStreams ==
  ASSUME OrderInv, UNCHANGED sent, lost' \in BOOLEAN, lost => lost'
  PROVE  StreamInOrder'
<1>1. StreamInOrder /\ lost \in BOOLEAN /\ sent \in [Slaves -> Seq(Nat)]
  BY Zenon DEF OrderInv
<1> SUFFICES ASSUME NEW s \in Slaves, NEW i \in 1 .. Len(sent[s]) - 1
             PROVE  IF lost' THEN sent[s][i] < sent[s][i + 1]
                             ELSE sent[s][i] + 1 = sent[s][i + 1]
  BY DEF StreamInOrder
<1>2. sent[s][i] \in Nat /\ sent[s][i + 1] \in Nat
  <2>1. sent[s] \in Seq(Nat)
    BY <1>1
  <2>2. i \in 1 .. Len(sent[s]) /\ i + 1 \in 1 .. Len(sent[s])
    BY <2>1
  <2> QED
    BY <2>1, <2>2
<1>3. IF lost THEN sent[s][i] < sent[s][i + 1] ELSE sent[s][i] + 1 = sent[s][i + 1]
  BY <1>1 DEF StreamInOrder
<1> QED
  BY <1>1, <1>2, <1>3

\* A step that leaves the stages and what was sent alone, and by which no
\* slave that was sent anything is reached anew.
LEMMA QuietKeepsOrder ==
  ASSUME OrderInv, UNCHANGED <<log, captureVars, global_cache, existing, state,
                               fullsync_cache, flushing, sent>>,
         \A s \in Reached' : s \in Reached \/ sent[s] = <<>>,
         \A s \in Slaves : sent[s] # <<>> => pc'[s] \in Connected
                                             /\ s \notin Elements(backlog')
  PROVE  OrderInv'
<1>1. StreamInOrder'
  <2>1. lost' = lost /\ lost \in BOOLEAN
    BY Zenon DEF OrderInv, captureVars
  <2> QED
    BY <2>1, SameStreams
<1>2. ~lost => Dense'
  <2> SUFFICES ASSUME ~lost PROVE Dense'
    BY Zenon
  <2>1. PICK k, m, g \in Nat :
          /\ k <= m /\ Elements(fullsync_cache) = k + 1 .. m
          /\ \A s \in Reached : sent[s] # <<>> => LastSent(s) = k
          /\ ~existing => /\ m <= g /\ g <= Len(log)
                          /\ Numbers(global_cache) = m + 1 .. g
                          /\ Numbers(ring) = g + 1 .. Len(log)
    BY Zenon DEF OrderInv, Dense
  <2>2. \A s \in Reached' : sent'[s] # <<>> => LastSent(s)' = k
    BY <2>1 DEF LastSent
  <2> QED
    BY <2>1, <2>2, Zenon DEF Dense, captureVars
<1> QED
  BY <1>1, <1>2, Zenon DEF OrderInv, captureVars, LastSent

\* The event of a recv that is not a write.
LEMMA CaptureKeepsOrder ==
  ASSUME OrderInv, NEW msg \in {"SYNC", "READY", "FINISHED", "ERROR"}, NEW s \in Slaves,
         Capture(msg, 0, s), UNCHANGED <<log, agentVars, tableVars, pc, sent>>
  PROVE  OrderInv'
<1> DEFINE e == [cmd |-> msg, n |-> 0, by |-> s]
<1>1. e \in AnyEvent
  BY DEF AnyEvent
<1>2. /\ ring' \in Seq(AnyEvent) /\ Rising(ring') /\ Numbers(ring') = Numbers(ring)
      /\ lost' \in BOOLEAN /\ (~lost' => ~lost)
  <2>1. CASE ring' = Append(ring, e) /\ UNCHANGED lost
    <3>1. Numbers(ring) \cup {} = Numbers(ring)
      BY Zenon
    <3> QED
      BY <1>1, <2>1, <3>1, AppendEvent, Zenon DEF OrderInv
  <2>2. CASE ring' = ring /\ lost' = TRUE
    BY <2>2, Zenon DEF OrderInv
  <2> QED
    BY <2>1, <2>2, Zenon DEF Capture
<1>3. Reached' = Reached
  BY Zenon DEF tableVars, Reached, InTable
<1>4. StreamInOrder'
  <2>1. lost \in BOOLEAN
    BY Zenon DEF OrderInv
  <2> QED
    BY <1>2, <2>1, SameStreams, Zenon
<1>5. ~lost' => Dense'
  <2>1. ~lost' => Dense
    BY <1>2 DEF OrderInv
  <2> QED
    BY <1>2, <1>3, <2>1, Zenon DEF Dense, LastSent, agentVars
<1> QED
  BY <1>2, <1>4, <1>5, Zenon DEF OrderInv, agentVars, tableVars, LastSent

\* The event of a client's write: its number is above all others.
LEMMA WriteKeepsOrder ==
  ASSUME OrderInv, NEW w \in Writes, ClientWrite(w)
  PROVE  OrderInv'
<1> DEFINE L == Len(log)
           e == [cmd |-> "WRITE", n |-> L + 1, by |-> NONE]
<1>1. /\ L \in Nat /\ log' \in Seq(Writes) /\ Len(log') = L + 1
      /\ UNCHANGED <<agentVars, tableVars, slaveVars, sent>>
  BY DEF ClientWrite, OrderInv
<1>2. e \in AnyEvent /\ e.cmd = "WRITE" /\ e.n = L + 1
  <2>1. L + 1 \in Nat /\ NONE \in Slaves \cup {NONE}
    BY <1>1
  <2> QED
    BY <2>1, Zenon DEF AnyEvent
<1>3. Reached' = Reached /\ sent' = sent
  BY <1>1, Zenon DEF tableVars, slaveVars, Reached, InTable
<1>4. /\ \A x \in Elements(fullsync_cache) \cup Numbers(global_cache) \cup Numbers(ring) :
           x \in Nat /\ x < L + 1 /\ x < L + 2
      /\ \A s \in Slaves : sent[s] # <<>> => LastSent(s) < L + 1 /\ LastSent(s) < L + 2
  <2>1. \A x \in Elements(fullsync_cache) \cup Numbers(global_cache) \cup Numbers(ring) :
           x \in Nat /\ x < L + 1
    <3>1. /\ \A x \in Elements(fullsync_cache) : x \in Nat
          /\ \A x \in Numbers(global_cache) : x \in Nat
          /\ \A x \in Numbers(ring) : x \in Nat
      BY NumbersNat, ElementsNat, Zenon DEF OrderInv
    <3>2. /\ \A x \in Elements(fullsync_cache) : x < L + 1
          /\ \A x \in Numbers(global_cache) : x < L + 1
          /\ \A x \in Numbers(ring) : x < L + 1
      BY Zenon DEF OrderInv, Below
    <3> QED
      BY <3>1, <3>2, Zenon
  <2>2. \A s \in Slaves : sent[s] # <<>> => LastSent(s) < L + 1 /\ LastSent(s) \in Nat
    <3> SUFFICES ASSUME NEW s \in Slaves, sent[s] # <<>>
                 PROVE  LastSent(s) < L + 1 /\ LastSent(s) \in Nat
      BY Zenon
    <3>1. sent[s] \in Seq(Nat) /\ LastSent(s) < L + 1
      BY Zenon DEF OrderInv, Below
    <3> QED
      BY <3>1 DEF LastSent
  <2> QED
    BY <1>1, <2>1, <2>2
<1>5. CASE ring' = Append(ring, e) /\ UNCHANGED lost
  <2>1. /\ ring' \in Seq(AnyEvent) /\ Rising(ring')
        /\ Numbers(ring') = Numbers(ring) \cup {L + 1}
    <3> HIDE DEF e
    <3>1. Below(Numbers(ring), {e.n})
      BY <1>2, <1>4, Zenon DEF Below
    <3> QED
      BY <1>2, <1>5, <3>1, AppendEvent, Zenon DEF OrderInv
  <2>2. ~lost' => Dense'
    <3> SUFFICES ASSUME ~lost PROVE Dense'
      BY <1>5, Zenon
    <3>1. PICK k, m, g \in Nat :
            /\ k <= m /\ Elements(fullsync_cache) = k + 1 .. m
            /\ \A s \in Reached : sent[s] # <<>> => LastSent(s) = k
            /\ ~existing => /\ m <= g /\ g <= L
                            /\ Numbers(global_cache) = m + 1 .. g
                            /\ Numbers(ring) = g + 1 .. L
      BY Zenon DEF OrderInv, Dense
    <3>2. ~existing => g <= Len(log') /\ Numbers(ring') = g + 1 .. Len(log')
      BY <1>1, <2>1, <3>1
    <3>3. \A s \in Reached' : sent'[s] # <<>> => LastSent(s)' = k
      BY <1>1, <1>3, <3>1, Zenon DEF LastSent
    <3> QED
      BY <1>1, <3>1, <3>2, <3>3, Zenon DEF Dense, agentVars
  <2>3. StreamInOrder'
    <3>1. lost \in BOOLEAN
      BY Zenon DEF OrderInv
    <3> QED
      BY <1>3, <1>5, <3>1, SameStreams, Zenon
  <2>4. /\ Below(Numbers(ring'), {Len(log') + 1})
        /\ Below(Numbers(global_cache), Numbers(ring') \cup {Len(log') + 1})
        /\ Below(Elements(fullsync_cache),
                 Numbers(global_cache) \cup Numbers(ring') \cup {Len(log') + 1})
        /\ \A s \in Slaves : sent[s] # <<>> =>
             Below({LastSent(s)}, Elements(fullsync_cache) \cup Numbers(global_cache)
                                  \cup Numbers(ring') \cup {Len(log') + 1})
    BY <1>1, <1>4, <2>1 DEF OrderInv, Below
  <2> QED
    BY <1>1, <1>5, <2>1, <2>2, <2>3, <2>4, Zenon
    DEF OrderInv, agentVars, tableVars, slaveVars, LastSent
<1>6. CASE ring' = ring /\ lost' = TRUE
  <2>1. StreamInOrder'
    BY <1>3, <1>6, SameStreams, Zenon
  <2>2. /\ Below(Numbers(ring), {Len(log') + 1})
        /\ Below(Numbers(global_cache), Numbers(ring) \cup {Len(log') + 1})
        /\ Below(Elements(fullsync_cache),
                 Numbers(global_cache) \cup Numbers(ring) \cup {Len(log') + 1})
        /\ \A s \in Slaves : sent[s] # <<>> =>
             Below({LastSent(s)}, Elements(fullsync_cache) \cup Numbers(global_cache)
                                  \cup Numbers(ring) \cup {Len(log') + 1})
    BY <1>1, <1>4 DEF OrderInv, Below
  <2> QED
    BY <1>1, <1>6, <2>1, <2>2, Zenon DEF OrderInv, agentVars, tableVars, slaveVars, LastSent
<1> QED
  BY <1>5, <1>6, Zenon DEF ClientWrite, Capture

\* handle_event: an event goes on, or the agent stops.
LEMMA EventKeepsOrder ==
  ASSUME OrderInv, HandleEvent
  PROVE  OrderInv'
<1> DEFINE e == Head(ring)
<1>1. /\ ~existing /\ ring # <<>> /\ ring' = Tail(ring) /\ existing' \in BOOLEAN
      /\ UNCHANGED <<log, lost, state, fullsync_cache, flushing, tableVars, slaveVars, sent>>
  BY Zenon DEF HandleEvent, masterVars, OrderInv
<1>2. /\ e \in AnyEvent /\ ring' \in Seq(AnyEvent) /\ Rising(ring')
      /\ e.cmd # "WRITE" => Numbers(ring') = Numbers(ring)
      /\ e.cmd = "WRITE" => /\ e.n \in Numbers(ring) /\ Below({e.n}, Numbers(ring'))
                            /\ Numbers(ring) = Numbers(ring') \cup {e.n}
  BY <1>1, TailEvent, Zenon DEF OrderInv
<1>3. Reached' = Reached
  BY <1>1 DEF tableVars, slaveVars, Reached, InTable
<1>4. StreamInOrder'
  <2>1. lost \in BOOLEAN
    BY Zenon DEF OrderInv
  <2> QED
    BY <1>1, <2>1, SameStreams
<1>5. CASE global_cache' = Append(global_cache, e) /\ UNCHANGED existing
  <2>1. /\ global_cache' \in Seq(AnyEvent) /\ Rising(global_cache')
        /\ Numbers(global_cache') = Numbers(global_cache)
                                      \cup (IF e.cmd = "WRITE" THEN {e.n} ELSE {})
    <3>1. e.cmd = "WRITE" => Below(Numbers(global_cache), {e.n})
      BY <1>2, Zenon DEF OrderInv, Below
    <3> HIDE DEF e
    <3> QED
      BY <1>2, <1>5, <3>1, AppendEvent, Zenon DEF OrderInv
  <2>2. Numbers(global_cache') \cup Numbers(ring') = Numbers(global_cache) \cup Numbers(ring)
    BY <1>2, <2>1, Zenon
  <2>3. Below(Numbers(global_cache'), Numbers(ring') \cup {Len(log) + 1})
    BY <1>2, <2>1 DEF OrderInv, Below
  <2>4. /\ Below(Numbers(ring'), {Len(log) + 1})
        /\ Below(Elements(fullsync_cache),
                 Numbers(global_cache') \cup Numbers(ring') \cup {Len(log) + 1})
        /\ \A s \in Slaves : sent[s] # <<>> =>
             Below({LastSent(s)}, Elements(fullsync_cache) \cup Numbers(global_cache')
                                  \cup Numbers(ring') \cup {Len(log) + 1})
    BY <1>2, <2>2, Zenon DEF OrderInv, Below
  <2>5. ~lost => Dense'
    <3> SUFFICES ASSUME ~lost PROVE Dense'
      BY Zenon
    <3>1. PICK k, m, g \in Nat :
            /\ k <= m /\ Elements(fullsync_cache) = k + 1 .. m
            /\ \A s \in Reached : sent[s] # <<>> => LastSent(s) = k
            /\ m <= g /\ g <= Len(log)
            /\ Numbers(global_cache) = m + 1 .. g
            /\ Numbers(ring) = g + 1 .. Len(log)
      BY <1>1, Zenon DEF OrderInv, Dense
    <3>2. \A s \in Reached' : sent'[s] # <<>> => LastSent(s)' = k
      BY <1>1, <1>3, <3>1, Zenon DEF LastSent
    <3>3. Len(log) \in Nat /\ e.n \in Nat
      BY <1>2 DEF OrderInv, AnyEvent
    <3>4. CASE e.cmd # "WRITE"
      BY <1>1, <1>2, <2>1, <3>1, <3>2, <3>4, Zenon DEF Dense
    <3>5. CASE e.cmd = "WRITE"
      <4>1. e.n = g + 1 /\ g + 1 <= Len(log) /\ Numbers(ring') = (g + 1) + 1 .. Len(log)
        <5> HIDE DEF e
        <5>1. Below({e.n}, Numbers(ring')) /\ Numbers(ring') \cup {e.n} = g + 1 .. Len(log)
          BY <1>2, <3>1, <3>5, Zenon
        <5>2. e.n = g + 1 /\ e.n <= Len(log) /\ Numbers(ring') = e.n + 1 .. Len(log)
          BY <3>3, <5>1, FirstOfRange, Zenon
        <5> QED
          BY <5>2
      <4>2. Numbers(global_cache') = m + 1 .. (g + 1)
        BY <2>1, <3>1, <3>5, <4>1
      <4>4. m <= g + 1 /\ g + 1 \in Nat
        BY <3>1
      <4> QED
        BY <1>1, <3>1, <3>2, <4>1, <4>2, <4>4, Zenon DEF Dense
    <3> QED
      BY <3>4, <3>5, Zenon
  <2> QED
    BY <1>1, <1>2, <1>4, <2>1, <2>3, <2>4, <2>5, Zenon
    DEF OrderInv, tableVars, slaveVars, LastSent
<1>6. CASE existing' = TRUE /\ UNCHANGED global_cache
  <2>1. Numbers(ring') \subseteq Numbers(ring)
    BY <1>2, Zenon
  <2>2. /\ Below(Numbers(ring'), {Len(log) + 1})
        /\ Below(Numbers(global_cache), Numbers(ring') \cup {Len(log) + 1})
        /\ Below(Elements(fullsync_cache),
                 Numbers(global_cache) \cup Numbers(ring') \cup {Len(log) + 1})
        /\ \A s \in Slaves : sent[s] # <<>> =>
             Below({LastSent(s)}, Elements(fullsync_cache) \cup Numbers(global_cache)
                                  \cup Numbers(ring') \cup {Len(log) + 1})
    BY <2>1 DEF OrderInv, Below
  <2>3. ~lost => Dense'
    <3>1. ~lost => Dense
      BY DEF OrderInv
    <3> QED
      BY <1>1, <1>3, <1>6, <3>1, Zenon DEF Dense, LastSent
  <2> QED
    BY <1>1, <1>2, <1>4, <1>6, <2>2, <2>3, Zenon DEF OrderInv, tableVars, slaveVars, LastSent
<1> QED
  BY <1>5, <1>6, Zenon DEF HandleEvent

\* A record that is not a write leaves the numbers alone.
LEMMA RecordKeepsOrder ==
  ASSUME OrderInv, TableInv, NEW cmds, Record(cmds), "WRITE" \notin cmds,
         UNCHANGED <<existing, fullsync_cache, table, total, sent>>,
         flushing' \in BOOLEAN,
         flushing' => fullsync_cache # <<>> /\ state' # "FULL_SYNC",
         state' # "FULL_SYNC" /\ ~flushing' => fullsync_cache = <<>>
  PROVE  OrderInv'
<1>1. /\ global_cache # <<>> /\ global_cache' = Tail(global_cache)
      /\ Head(global_cache).cmd # "WRITE"
      /\ UNCHANGED <<log, ring, lost, backlog, open, pc>>
  BY DEF Record, masterVars, captureVars
<1>2. /\ global_cache' \in Seq(AnyEvent) /\ Rising(global_cache')
      /\ Numbers(global_cache') = Numbers(global_cache)
  BY <1>1, TailEvent, Zenon DEF OrderInv
<1>3. Reached' = Reached
  BY <1>1, Zenon DEF Reached, InTable
<1>4. StreamInOrder'
  <2>1. lost \in BOOLEAN
    BY Zenon DEF OrderInv
  <2> QED
    BY <1>1, <2>1, SameStreams
<1>5. ~lost => Dense'
  <2>1. ~lost => Dense
    BY DEF OrderInv
  <2> QED
    BY <1>1, <1>2, <1>3, <2>1, Zenon DEF Dense, LastSent
<1> QED
  BY <1>1, <1>2, <1>4, <1>5, Zenon DEF OrderInv, LastSent

\* A write is held back, refused by a full cache, or sent when nothing is
\* held back.
LEMMA AgentWriteKeepsOrder ==
  ASSUME OrderInv, TableInv, AgentWrite
  PROVE  OrderInv'
<1> DEFINE n == Head(global_cache).n
<1>1. /\ global_cache # <<>> /\ global_cache' = Tail(global_cache)
      /\ Head(global_cache).cmd = "WRITE" /\ ~existing /\ ~flushing
      /\ UNCHANGED <<log, ring, lost, backlog, open, pc, state, flushing>>
  BY DEF AgentWrite, Record, masterVars, captureVars
<1>2. /\ n \in Nat /\ global_cache' \in Seq(AnyEvent) /\ Rising(global_cache')
      /\ n \in Numbers(global_cache) /\ Below({n}, Numbers(global_cache'))
      /\ Numbers(global_cache) = Numbers(global_cache') \cup {n}
  <2>1. Head(global_cache) \in AnyEvent => n \in Nat
    BY DEF AnyEvent
  <2> QED
    BY <1>1, <2>1, TailEvent, Zenon DEF OrderInv
<1>3. Below({n}, Numbers(global_cache') \cup Numbers(ring) \cup {Len(log) + 1})
  BY <1>2, Zenon DEF OrderInv, Below
<1>4. ASSUME ~lost
      PROVE  \E k, g \in Nat :
               /\ k + 1 <= n /\ Elements(fullsync_cache) = k + 1 .. n - 1
               /\ \A s \in Reached : sent[s] # <<>> => LastSent(s) = k
               /\ n <= g /\ g <= Len(log)
               /\ Numbers(global_cache') = n + 1 .. g
               /\ Numbers(ring) = g + 1 .. Len(log)
  <2>1. PICK k, m, g \in Nat :
          /\ k <= m /\ Elements(fullsync_cache) = k + 1 .. m
          /\ \A s \in Reached : sent[s] # <<>> => LastSent(s) = k
          /\ m <= g /\ g <= Len(log)
          /\ Numbers(global_cache) = m + 1 .. g
          /\ Numbers(ring) = g + 1 .. Len(log)
    BY <1>1, <1>4 DEF OrderInv, Dense
  <2> HIDE DEF n
  <2>2. n = m + 1 /\ n <= g /\ Numbers(global_cache') = n + 1 .. g
    <3>1. Below({n}, Numbers(global_cache')) /\ Numbers(global_cache') \cup {n} = m + 1 .. g
      BY <1>2, <2>1, Zenon
    <3> QED
      BY <3>1, FirstOfRange, Zenon
  <2>3. n - 1 = m
    BY <2>2
  <2>4. k + 1 <= n /\ Elements(fullsync_cache) = k + 1 .. n - 1
    BY <2>1, <2>2, <2>3
  <2> QED
    BY <2>1, <2>2, <2>4, Zenon
<1> HIDE DEF n
<1>5. CASE state = "FULL_SYNC" /\ fullsync_cache' = Append(fullsync_cache, n)
           /\ UNCHANGED <<existing, table, total, sent>>
  <2>1. Below(Elements(fullsync_cache), {n})
    BY <1>2, Zenon DEF OrderInv, Below
  <2>2. /\ fullsync_cache' \in Seq(Nat) /\ Ascending(fullsync_cache')
        /\ Elements(fullsync_cache') = Elements(fullsync_cache) \cup {n}
    BY <1>2, <1>5, <2>1, AppendNumber, Zenon DEF OrderInv
  <2>3. Reached' = Reached /\ StreamInOrder'
    BY <1>1, <1>5 DEF Reached, InTable, OrderInv, StreamInOrder
  <2>4. ~lost => Dense'
    <3> SUFFICES ASSUME ~lost PROVE Dense'
      OBVIOUS
    <3>1. PICK k, g \in Nat :
            /\ k + 1 <= n /\ Elements(fullsync_cache) = k + 1 .. n - 1
            /\ \A s \in Reached : sent[s] # <<>> => LastSent(s) = k
            /\ n <= g /\ g <= Len(log)
            /\ Numbers(global_cache') = n + 1 .. g
            /\ Numbers(ring) = g + 1 .. Len(log)
      BY <1>4, Zenon
    <3>2. k <= n /\ Elements(fullsync_cache') = k + 1 .. n
      BY <1>2, <2>2, <3>1
    <3>3. \A s \in Reached' : sent'[s] # <<>> => LastSent(s)' = k
      BY <1>5, <2>3, <3>1, Zenon DEF LastSent
    <3> QED
      BY <1>1, <1>2, <3>1, <3>2, <3>3, Zenon DEF Dense
  <2>5. /\ Below(Numbers(global_cache'), Numbers(ring) \cup {Len(log) + 1})
        /\ Below(Elements(fullsync_cache'),
                 Numbers(global_cache') \cup Numbers(ring) \cup {Len(log) + 1})
        /\ \A s \in Slaves : sent[s] # <<>> =>
             Below({LastSent(s)}, Elements(fullsync_cache') \cup Numbers(global_cache')
                                  \cup Numbers(ring) \cup {Len(log) + 1})
    BY <1>2, <1>3, <2>2, Zenon DEF OrderInv, Below
  <2> QED
    BY <1>1, <1>2, <1>5, <2>2, <2>3, <2>4, <2>5, Zenon DEF OrderInv, LastSent
<1>6. CASE existing' = TRUE /\ UNCHANGED <<fullsync_cache, table, total, sent>>
  <2>1. Reached' = Reached /\ StreamInOrder'
    BY <1>1, <1>6 DEF Reached, InTable, OrderInv, StreamInOrder
  <2>2. ~lost => Dense'
    <3>1. ~lost => Dense
      BY Zenon DEF OrderInv
    <3> QED
      BY <1>6, <2>1, <3>1, Zenon DEF Dense, LastSent
  <2>3. /\ Below(Numbers(global_cache'), Numbers(ring) \cup {Len(log) + 1})
        /\ Below(Elements(fullsync_cache),
                 Numbers(global_cache') \cup Numbers(ring) \cup {Len(log) + 1})
        /\ \A s \in Slaves : sent[s] # <<>> =>
             Below({LastSent(s)}, Elements(fullsync_cache) \cup Numbers(global_cache')
                                  \cup Numbers(ring) \cup {Len(log) + 1})
    BY <1>2 DEF OrderInv, Below
  <2> QED
    BY <1>1, <1>2, <1>6, <2>1, <2>2, <2>3, Zenon DEF OrderInv, LastSent
<1>7. CASE state # "FULL_SYNC" /\ kvs_agent_send(n)
           /\ UNCHANGED <<fullsync_cache, existing>>
  <2>1. fullsync_cache = <<>> /\ Elements(fullsync_cache) = {}
    BY <1>1, <1>7, EmptySequences, Zenon DEF OrderInv
  <2>2. \A s \in Reached : sent[s] # <<>> =>
           LastSent(s) < n /\ (~lost => LastSent(s) + 1 = n)
    <3>1. \A s \in Reached : s \in Slaves
      BY Zenon DEF Reached, TableInv
    <3>2. ASSUME ~lost PROVE \A s \in Reached : sent[s] # <<>> => LastSent(s) + 1 = n
      <4>1. PICK k \in Nat : /\ k + 1 <= n /\ Elements(fullsync_cache) = k + 1 .. n - 1
                             /\ \A s \in Reached : sent[s] # <<>> => LastSent(s) = k
        BY <1>4, <3>2, Zenon
      <4>2. k + 1 = n
        <5>1. k + 1 < n => k + 1 \in k + 1 .. n - 1
          BY <1>2
        <5>2. ~(k + 1 < n)
          BY <2>1, <4>1, <5>1, Zenon
        <5> QED
          BY <1>2, <4>1, <5>2
      <4> QED
        BY <4>1, <4>2, Zenon
    <3> QED
      BY <1>2, <3>1, <3>2, Zenon DEF OrderInv, Below
  <2>3. /\ sent' \in [Slaves -> Seq(Nat)] /\ StreamInOrder'
        /\ Reached' \subseteq Reached
        /\ \A s \in Slaves : sent'[s] # sent[s] => s \in Reached
        /\ \A s \in Reached : sent'[s] # <<>> /\ LastSent(s)' = n
    BY <1>1, <1>2, <1>7, <2>2, SendKeepsOrder, Zenon
  <2>4. ~lost => Dense'
    <3> SUFFICES ASSUME ~lost PROVE Dense'
      OBVIOUS
    <3>1. PICK g \in Nat : /\ n <= g /\ g <= Len(log)
                           /\ Numbers(global_cache') = n + 1 .. g
                           /\ Numbers(ring) = g + 1 .. Len(log)
      BY <1>4, Zenon
    <3>2. n <= n /\ n + 1 .. n = {}
      BY <1>2
    <3> QED
      BY <1>1, <1>2, <1>7, <2>1, <2>3, <3>1, <3>2, Zenon DEF Dense
  <2>5. ASSUME NEW s \in Slaves, sent'[s] # <<>>
        PROVE  /\ Below({LastSent(s)'}, Elements(fullsync_cache) \cup Numbers(global_cache')
                                        \cup Numbers(ring) \cup {Len(log) + 1})
               /\ pc[s] \in Connected /\ s \notin Elements(backlog)
    <3>1. CASE s \in Reached
      <4>1. LastSent(s)' = n
        BY <2>3, <3>1, Zenon
      <4>2. s \in open
        BY <3>1, Zenon DEF Reached, TableInv
      <4>3. pc[s] \in Connected /\ s \notin Elements(backlog)
        BY <4>2 DEF TableInv, Elements
      <4> QED
        BY <1>3, <2>1, <4>1, <4>3, Zenon
    <3>2. CASE s \notin Reached
      <4>1. sent'[s] = sent[s] /\ LastSent(s)' = LastSent(s)
        BY <2>3, <3>2, Zenon DEF LastSent
      <4> QED
        BY <1>2, <2>5, <4>1, Zenon DEF OrderInv, Below
    <3> QED
      BY <3>1, <3>2, Zenon
  <2>6. /\ Below(Numbers(global_cache'), Numbers(ring) \cup {Len(log) + 1})
        /\ Below(Elements(fullsync_cache),
                 Numbers(global_cache') \cup Numbers(ring) \cup {Len(log) + 1})
    BY <1>2, Zenon DEF OrderInv, Below
  <2> QED
    BY <1>1, <1>2, <1>7, <2>1, <2>3, <2>4, <2>5, <2>6, Zenon DEF OrderInv
<1> QED
  BY <1>5, <1>6, <1>7, Zenon DEF AgentWrite, n

\* The oldest write that was held back is sent.
LEMMA FlushKeepsOrder ==
  ASSUME OrderInv, TableInv, AgentFlush
  PROVE  OrderInv'
<1> DEFINE n == Head(fullsync_cache)
<1>1. /\ flushing /\ fullsync_cache # <<>> /\ state # "FULL_SYNC"
      /\ kvs_agent_send(n) /\ fullsync_cache' = Tail(fullsync_cache)
      /\ flushing' = (Len(fullsync_cache) > 1)
      /\ UNCHANGED <<log, ring, lost, global_cache, existing, state, backlog, open, pc>>
  BY Zenon DEF AgentFlush, OrderInv, masterVars, captureVars
<1>2. /\ n \in Nat /\ fullsync_cache' \in Seq(Nat) /\ Ascending(fullsync_cache')
      /\ n \in Elements(fullsync_cache) /\ Below({n}, Elements(fullsync_cache'))
      /\ Elements(fullsync_cache) = Elements(fullsync_cache') \cup {n}
  BY <1>1, TailNumber, Zenon DEF OrderInv
<1>3. flushing' \in BOOLEAN /\ (flushing' <=> fullsync_cache' # <<>>)
  <2>1. Len(fullsync_cache) \in Nat \ {0} /\ Len(fullsync_cache') = Len(fullsync_cache) - 1
    BY <1>1 DEF OrderInv
  <2>2. fullsync_cache' # <<>> <=> Len(fullsync_cache') # 0
    BY <1>2
  <2>3. Len(fullsync_cache) > 1 <=> fullsync_cache' # <<>>
    BY <2>1, <2>2
  <2>4. (Len(fullsync_cache) > 1) \in BOOLEAN
    BY <2>1
  <2>5. flushing' = (Len(fullsync_cache) > 1)
    BY <1>1
  <2> QED
    BY <2>3, <2>4, <2>5, Zenon
<1> HIDE DEF n
<1>4. Below({n}, Elements(fullsync_cache') \cup Numbers(global_cache) \cup Numbers(ring)
                 \cup {Len(log) + 1})
  BY <1>2, Zenon DEF OrderInv, Below
<1>5. ASSUME ~lost
      PROVE  \E m, g \in Nat :
               /\ n <= m /\ Elements(fullsync_cache') = n + 1 .. m
               /\ \A s \in Reached : sent[s] # <<>> => LastSent(s) + 1 = n
               /\ ~existing => /\ m <= g /\ g <= Len(log)
                               /\ Numbers(global_cache) = m + 1 .. g
                               /\ Numbers(ring) = g + 1 .. Len(log)
  <2>1. PICK k, m, g \in Nat :
          /\ k <= m /\ Elements(fullsync_cache) = k + 1 .. m
          /\ \A s \in Reached : sent[s] # <<>> => LastSent(s) = k
          /\ ~existing => /\ m <= g /\ g <= Len(log)
                          /\ Numbers(global_cache) = m + 1 .. g
                          /\ Numbers(ring) = g + 1 .. Len(log)
    BY <1>5 DEF OrderInv, Dense
  <2>2. n = k + 1 /\ n <= m /\ Elements(fullsync_cache') = n + 1 .. m
    <3>1. Below({n}, Elements(fullsync_cache')) /\ Elements(fullsync_cache') \cup {n} = k + 1 .. m
      BY <1>2, <2>1, Zenon
    <3> QED
      BY <3>1, FirstOfRange, Zenon
  <2> QED
    BY <2>1, <2>2, Zenon
<1>6. \A s \in Reached : sent[s] # <<>> =>
         LastSent(s) < n /\ (~lost => LastSent(s) + 1 = n)
  <2>1. \A s \in Reached : s \in Slaves
    BY Zenon DEF Reached, TableInv
  <2> QED
    BY <1>2, <1>5, <2>1, Zenon DEF OrderInv, Below
<1>7. /\ sent' \in [Slaves -> Seq(Nat)] /\ StreamInOrder'
      /\ Reached' \subseteq Reached
      /\ \A s \in Slaves : sent'[s] # sent[s] => s \in Reached
      /\ \A s \in Reached : sent'[s] # <<>> /\ LastSent(s)' = n
  BY <1>1, <1>2, <1>6, SendKeepsOrder, Zenon
<1>8. ~lost => Dense'
  <2> SUFFICES ASSUME ~lost PROVE Dense'
    OBVIOUS
  <2>1. PICK m, g \in Nat :
          /\ n <= m /\ Elements(fullsync_cache') = n + 1 .. m
          /\ ~existing => /\ m <= g /\ g <= Len(log)
                          /\ Numbers(global_cache) = m + 1 .. g
                          /\ Numbers(ring) = g + 1 .. Len(log)
    BY <1>5, Zenon
  <2> QED
    BY <1>1, <1>2, <1>7, <2>1, Zenon DEF Dense
<1>9. ASSUME NEW s \in Slaves, sent'[s] # <<>>
      PROVE  /\ Below({LastSent(s)'}, Elements(fullsync_cache') \cup Numbers(global_cache)
                                      \cup Numbers(ring) \cup {Len(log) + 1})
             /\ pc[s] \in Connected /\ s \notin Elements(backlog)
  <2>1. CASE s \in Reached
    <3>1. LastSent(s)' = n
      BY <1>7, <2>1, Zenon
    <3>2. s \in open
      BY <2>1, Zenon DEF Reached, TableInv
    <3>3. pc[s] \in Connected /\ s \notin Elements(backlog)
      BY <3>2 DEF TableInv, Elements
    <3> QED
      BY <1>4, <3>1, <3>3, Zenon
  <2>2. CASE s \notin Reached
    <3>1. sent'[s] = sent[s] /\ LastSent(s)' = LastSent(s)
      BY <1>7, <2>2 DEF LastSent
    <3> QED
      BY <1>2, <1>9, <3>1, Zenon DEF OrderInv, Below
  <2> QED
    BY <2>1, <2>2, Zenon
<1>10. Below(Elements(fullsync_cache'),
             Numbers(global_cache) \cup Numbers(ring) \cup {Len(log) + 1})
  BY <1>2, Zenon DEF OrderInv, Below
<1> QED
  BY <1>1, <1>2, <1>3, <1>7, <1>8, <1>9, <1>10, Zenon DEF OrderInv

LEMMA OrderInvNext == OrderInv /\ TableInv /\ TableInv' /\ [Next]_vars => OrderInv'
<1> SUFFICES ASSUME OrderInv, TableInv, TableInv', [Next]_vars PROVE OrderInv'
  BY Zenon
<1>1. ASSUME NEW s \in Slaves, NEW msg \in {"SYNC", "READY", "FINISHED", "ERROR"},
             Received(s, msg), UNCHANGED <<log, agentVars, tableVars, pc, sent>>
      PROVE  OrderInv'
  BY <1>1, CaptureKeepsOrder, Zenon DEF Received
<1>2. ASSUME UNCHANGED <<log, captureVars, agentVars, tableVars, sent>>,
             \A s \in Slaves : (pc[s] = "dead" => pc'[s] = "dead")
                               /\ (pc[s] \in Connected => pc'[s] \in Connected)
      PROVE  OrderInv'
  <2>1. \A s \in Reached' : s \in Reached
    BY <1>2 DEF Reached, InTable, tableVars, TableInv
  <2>2. \A s \in Slaves : sent[s] # <<>> => pc'[s] \in Connected
                                            /\ s \notin Elements(backlog')
    BY <1>2, Zenon DEF OrderInv, tableVars
  <2> QED
    BY <1>2, <2>1, <2>2, QuietKeepsOrder, Zenon DEF agentVars
<1>3. CASE UNCHANGED vars
  BY <1>2, <1>3, Zenon DEF vars, masterVars, slaveVars
<1>4. CASE \E w \in Writes : ClientWrite(w)
  BY <1>4, WriteKeepsOrder, Zenon
<1>5. ASSUME NEW s \in Slaves, MasterSession(s) PROVE OrderInv'
  <2>1. UNCHANGED <<log, agentVars, tableVars, pc, sent>>
    BY <1>5, Zenon DEF MasterSession, MasterBusy, MasterFork, MasterForkFails, MasterNotify,
                MasterChildFails, MasterSendFile, MasterNotReady, MasterReads,
                EndSync, masterVars, slaveVars
  <2>2. \/ \E msg \in {"SYNC", "READY", "FINISHED", "ERROR"} : Received(s, msg)
        \/ UNCHANGED captureVars
    BY <1>5, Zenon DEF MasterSession, MasterBusy, MasterFork, MasterForkFails, MasterNotify,
                MasterChildFails, MasterSendFile, MasterNotReady, MasterReads
  <2> QED
    BY <1>1, <1>2, <2>1, <2>2, Zenon
<1>6. ASSUME NEW s \in Slaves,
             \/ SlaveStart(s) \/ SlaveReply(s) \/ SlaveLoad(s) \/ SlaveCutOff(s)
             \/ SlaveFinished(s) \/ SlaveDies(s) \/ SlaveExec(s)
      PROVE  OrderInv'
  <2>1. UNCHANGED <<log, captureVars, agentVars, tableVars, sent>>
    BY <1>6, Zenon DEF SlaveStart, SlaveReply, SlaveLoad, SlaveCutOff, SlaveFinished,
                SlaveDies, SlaveExec, masterVars
  <2>2. \/ UNCHANGED pc
        \/ \E next \in {"sync", "failed", "synced", "ready", "running", "dead"} :
             /\ Goes(s, next) /\ pc[s] # "dead"
             /\ pc[s] \notin Connected \/ next \in Connected
    BY <1>6, Zenon DEF SlaveStart, SlaveReply, SlaveLoad, SlaveCutOff, SlaveFinished,
                SlaveDies, SlaveExec, Connected
  <2>3. \A t \in Slaves : (pc[t] = "dead" => pc'[t] = "dead")
                          /\ (pc[t] \in Connected => pc'[t] \in Connected)
    BY <2>2, Zenon DEF Goes, TableInv
  <2> QED
    BY <1>2, <2>1, <2>3, Zenon
<1>7. ASSUME NEW s \in Slaves, SlaveConnect(s) PROVE OrderInv'
  <2>1. UNCHANGED <<log, captureVars, agentVars, table, open, sent>> /\ pc[s] \notin Connected
    BY <1>7 DEF SlaveConnect, masterVars, Connected
  <2>2. sent[s] = <<>>
    BY <2>1, Zenon DEF OrderInv
  <2>3. \A t \in Slaves : t # s => pc'[t] = pc[t]
    BY <1>7, Zenon DEF SlaveConnect, Goes, TableInv
  <2>4. \A t \in Slaves : t \in Elements(backlog') => t \in Elements(backlog) \/ t = s
    <3>1. CASE backlog' = backlog
      BY <3>1, Zenon
    <3>2. CASE backlog' = Append(backlog, s)
      BY <3>2 DEF Elements, TableInv
    <3> QED
      BY <1>7, <3>1, <3>2, Zenon DEF SlaveConnect
  <2>5. \A t \in Reached' : t \in Reached \/ sent[t] = <<>>
    BY <2>1, <2>2, <2>3 DEF Reached, InTable, TableInv
  <2>6. \A t \in Slaves : sent[t] # <<>> => pc'[t] \in Connected
                                            /\ t \notin Elements(backlog')
    BY <2>2, <2>3, <2>4, Zenon DEF OrderInv
  <2> QED
    BY <2>1, <2>5, <2>6, QuietKeepsOrder, Zenon DEF agentVars
<1>8. CASE HandleEvent
  BY <1>8, EventKeepsOrder
<1>9. CASE AgentSync
  <2>1. /\ Record({"SYNC"}) /\ "WRITE" \notin {"SYNC"}
        /\ UNCHANGED <<existing, fullsync_cache, flushing, table, total, sent>>
        /\ state' = "FULL_SYNC" /\ ~flushing
    BY <1>9, Zenon DEF AgentSync, Record
  <2> QED
    BY <2>1, RecordKeepsOrder, Zenon DEF OrderInv
<1>10. CASE AgentFinished
  <2>1. /\ Record({"FINISHED", "ERROR"}) /\ "WRITE" \notin {"FINISHED", "ERROR"}
        /\ UNCHANGED <<existing, fullsync_cache, table, total, sent>> /\ ~flushing
        /\ \/ state' = "INCR_SYNC" /\ flushing' = (fullsync_cache # <<>>)
           \/ state # "FULL_SYNC" /\ UNCHANGED <<state, flushing>>
    BY <1>10, Zenon DEF AgentFinished, Record
  <2>2. CASE state' = "INCR_SYNC" /\ flushing' = (fullsync_cache # <<>>)
    <3>1. flushing' \in BOOLEAN /\ (flushing' <=> fullsync_cache # <<>>)
      BY <2>2, Zenon
    <3> QED
      BY <2>1, <2>2, <3>1, RecordKeepsOrder, Zenon
  <2>3. CASE state # "FULL_SYNC" /\ UNCHANGED <<state, flushing>>
    BY <2>1, <2>3, RecordKeepsOrder, Zenon DEF OrderInv
  <2> QED
    BY <2>1, <2>2, <2>3, Zenon
<1>11. CASE AgentOther
  <2>1. /\ Record({"READY"}) /\ "WRITE" \notin {"READY"}
        /\ UNCHANGED <<existing, fullsync_cache, state, flushing, table, total, sent>>
    BY <1>11 DEF AgentOther
  <2> QED
    BY <2>1, RecordKeepsOrder, Zenon DEF OrderInv
<1>12. CASE AgentWrite \/ AgentFlush
  BY <1>12, AgentWriteKeepsOrder, FlushKeepsOrder, Zenon
<1>13. CASE ServerAccept
  <2> DEFINE s == Head(backlog)
  <2>1. /\ s \in Slaves /\ s \notin open /\ s \in Elements(backlog)
        /\ Elements(Tail(backlog)) \subseteq Elements(backlog)
        /\ kvs_slaves_insert(s) /\ backlog' = Tail(backlog)
        /\ UNCHANGED <<log, captureVars, agentVars, pc, sent>>
    <3>0. backlog # <<>> /\ backlog \in Seq(Slaves)
      BY <1>13, Zenon DEF ServerAccept, TableInv
    <3>1. backlog # <<>> /\ Len(backlog) \in Nat \ {0} /\ s = backlog[1]
      BY <3>0
    <3>2. s \in Slaves /\ s \in Elements(backlog) /\ s \notin open
      <4>1. 1 \in 1 .. Len(backlog) /\ s \in Slaves
        BY <3>0, <3>1
      <4>2. s \in Elements(backlog)
        BY <3>1, <4>1, Zenon DEF Elements
      <4>3. s \notin open
        BY <3>1, <4>1, Zenon DEF TableInv
      <4> QED
        BY <4>1, <4>2, <4>3, Zenon
    <3>3. Elements(Tail(backlog)) \subseteq Elements(backlog)
      BY <3>0, <3>1 DEF Elements
    <3> QED
      BY <1>13, <3>2, <3>3, Zenon DEF ServerAccept, masterVars, slaveVars
  <2>2. sent[s] = <<>>
    BY <2>1, Zenon DEF OrderInv
  <2> HIDE DEF s
  <2>3. InTable' \subseteq InTable \cup {s}
    BY <2>1, InsertKeepsTable, Zenon
  <2>4. \A t \in Reached' : t \in Reached \/ sent[t] = <<>>
    BY <2>1, <2>2, <2>3, Zenon DEF Reached
  <2>5. \A t \in Slaves : sent[t] # <<>> => pc'[t] \in Connected
                                            /\ t \notin Elements(backlog')
    BY <2>1, Zenon DEF OrderInv
  <2> QED
    BY <2>1, <2>4, <2>5, QuietKeepsOrder, Zenon DEF agentVars
<1>14. ASSUME NEW s \in Slaves, ServerClose(s) PROVE OrderInv'
  <2>1. /\ kvs_slaves_delete({s}) /\ {s} \in SUBSET Slaves
        /\ UNCHANGED <<log, captureVars, agentVars, pc, sent, backlog>>
    BY <1>14, Zenon DEF ServerClose, masterVars, slaveVars
  <2>2. InTable' = InTable \ {s}
    BY <2>1, DeleteKeepsTable, Zenon
  <2>3. \A t \in Reached' : t \in Reached
    BY <2>1, <2>2 DEF Reached
  <2>4. \A t \in Slaves : sent[t] # <<>> => pc'[t] \in Connected
                                            /\ t \notin Elements(backlog')
    BY <2>1, Zenon DEF OrderInv
  <2> QED
    BY <2>1, <2>3, <2>4, QuietKeepsOrder, Zenon DEF agentVars
<1> QED
  BY <1>3, <1>4, <1>5, <1>6, <1>7, <1>8, <1>9, <1>10, <1>11, <1>12, <1>13, <1>14, Zenon
  DEF Next, SlaveSync, AgentThread

\* Every slave is sent the writes in the order in which the master received
\* them and none twice, and none is skipped while no event was dropped: for
\* any number of slaves and writes and any size of the buffers.
THEOREM StreamAlwaysInOrder == Spec => []StreamInOrder
<1>1. OrderInv => StreamInOrder
  BY Zenon DEF OrderInv
<1> QED
  BY <1>1, OrderInvInit, OrderInvNext, TableInvInit, TableInvNext, PTL DEF Spec

-----------------------------------------------------------------------------
(* The SYNC of a slave.                                                     *)
EventInv == ring \in Seq(AnyEvent) /\ global_cache \in Seq(AnyEvent)

SyncOf(e, s) == e.cmd = "SYNC" /\ e.by = s

NonSync == {"READY", "ERROR", "FINISHED"}

Replies == {"BUSY", "ERROR", "OK", "OK 0", "FILE"}

\* The agent has no trace of a SYNC of s.
Unseen(s) ==
  /\ join[s] = "none"
  /\ \A i \in 1 .. Len(ring) : ~SyncOf(ring[i], s)
  /\ \A i \in 1 .. Len(global_cache) : ~SyncOf(global_cache[i], s)

\* The slave was not started; it waits for the master to read its SYNC; or
\* the SYNC was read, and it will not send another.
NotStarted(s) ==
  pc[s] = "init" /\ toMaster[s] = <<>> /\ toSlave[s] = <<>> /\ Unseen(s)

Unread(s) ==
  /\ pc[s] \in {"sync", "dead"} /\ toMaster[s] = <<"SYNC">> /\ toSlave[s] = <<>>
  /\ session[s] = "reader" /\ Unseen(s)

WasRead(s) == pc[s] # "init" /\ toMaster[s] \in Seq(NonSync)

\* A slave asks once, and the agent cannot see the SYNC before the master.
AskInv ==
  /\ DOMAIN toMaster = Slaves /\ toSlave \in [Slaves -> Seq(Replies)]
  /\ DOMAIN join = Slaves
  /\ \A s \in Slaves : NotStarted(s) \/ Unread(s) \/ WasRead(s)

\* A slave that was refused, or that gave up, never connects to the agent.
Doomed(s) ==
  \/ pc[s] \in {"failed", "dead"}
  \/ pc[s] = "sync" /\ toSlave[s] # <<>> /\ Head(toSlave[s]) \in {"BUSY", "ERROR"}

LEMMA AskInvInit == Init => AskInv
<1> SUFFICES ASSUME Init PROVE AskInv
  OBVIOUS
<1>1. ring = <<>> /\ global_cache = <<>> /\ Len(ring) = 0 /\ Len(global_cache) = 0
  BY Zenon DEF Init
<1>2. \A s \in Slaves : NotStarted(s)
  BY <1>1 DEF Init, NotStarted, Unseen
<1>3. toSlave \in [Slaves -> Seq(Replies)]
  BY DEF Init
<1> QED
  BY <1>2, <1>3, Zenon DEF AskInv, Init

\* No step but the master's read of the SYNC of s shows it to the agent.
LEMMA UnseenStays ==
  ASSUME EventInv, NEW s \in Slaves, Unseen(s), join'[s] = join[s],
         \/ UNCHANGED <<ring, global_cache>>
         \/ \E cmd, n, by : Capture(cmd, n, by) /\ UNCHANGED global_cache
                            /\ ~(cmd = "SYNC" /\ by = s)
         \/ /\ ring # <<>> /\ ring' = Tail(ring)
            /\ global_cache' \in {global_cache, Append(global_cache, Head(ring))}
         \/ UNCHANGED ring /\ global_cache # <<>> /\ global_cache' = Tail(global_cache)
  PROVE  Unseen(s)'
<1>1. /\ Len(ring) \in Nat /\ Len(global_cache) \in Nat
      /\ ring \in Seq(AnyEvent) /\ global_cache \in Seq(AnyEvent)
  BY DEF EventInv
<1>2. CASE UNCHANGED <<ring, global_cache>>
  BY <1>2, Zenon DEF Unseen
<1>3. ASSUME NEW cmd, NEW n, NEW by, Capture(cmd, n, by), UNCHANGED global_cache,
             ~(cmd = "SYNC" /\ by = s)
      PROVE  Unseen(s)'
  <2> DEFINE e == [cmd |-> cmd, n |-> n, by |-> by]
  <2>1. ~SyncOf(e, s)
    BY <1>3, Zenon DEF SyncOf
  <2> HIDE DEF e
  <2>2. \A i \in 1 .. Len(ring') : ~SyncOf(ring'[i], s)
    <3>1. CASE ring' = Append(ring, e)
      BY <1>1, <2>1, <3>1 DEF Unseen
    <3>2. CASE ring' = ring
      BY <3>2, Zenon DEF Unseen
    <3> QED
      BY <1>3, <3>1, <3>2, Zenon DEF Capture, e
  <2> QED
    BY <1>3, <2>2, Zenon DEF Unseen
<1>4. CASE /\ ring # <<>> /\ ring' = Tail(ring)
           /\ global_cache' \in {global_cache, Append(global_cache, Head(ring))}
  <2>1. \A i \in 1 .. Len(ring') : ring'[i] = ring[i + 1] /\ i + 1 \in 1 .. Len(ring)
    BY <1>1, <1>4
  <2>2. Head(ring) = ring[1] /\ 1 \in 1 .. Len(ring)
    BY <1>1, <1>4
  <2>3. \A i \in 1 .. Len(global_cache') : ~SyncOf(global_cache'[i], s)
    <3>1. CASE global_cache' = global_cache
      BY <3>1, Zenon DEF Unseen
    <3>2. CASE global_cache' = Append(global_cache, ring[1])
      BY <1>1, <2>2, <3>2 DEF Unseen
    <3> QED
      BY <1>4, <2>2, <3>1, <3>2, Zenon
  <2> QED
    BY <2>1, <2>3, Zenon DEF Unseen
<1>5. CASE UNCHANGED ring /\ global_cache # <<>> /\ global_cache' = Tail(global_cache)
  <2>1. \A i \in 1 .. Len(global_cache') : /\ global_cache'[i] = global_cache[i + 1]
                                           /\ i + 1 \in 1 .. Len(global_cache)
    BY <1>1, <1>5
  <2> QED
    BY <1>5, <2>1, Zenon DEF Unseen
<1> QED
  BY <1>2, <1>3, <1>4, <1>5, Zenon

\* A SYNC that is read is the one of Unread.
LEMMA SyncIsUnread ==
  ASSUME AskInv, NEW s \in Slaves, toMaster[s] # <<>>, Head(toMaster[s]) = "SYNC"
  PROVE  Unread(s) /\ Tail(toMaster[s]) = <<>>
<1>1. toMaster[s] \notin Seq(NonSync)
  BY DEF NonSync
<1>2. Unread(s)
  BY <1>1 DEF AskInv, NotStarted, WasRead
<1> QED
  BY <1>2 DEF Unread

\* Any other sign of life shows that the SYNC was read.
LEMMA LaterIsRead ==
  ASSUME AskInv, NEW s \in Slaves, pc[s] # "init",
         \/ toMaster[s] # <<>> /\ Head(toMaster[s]) # "SYNC"
         \/ toMaster[s] = <<>> \/ toSlave[s] # <<>> \/ session[s] # "reader"
         \/ pc[s] \notin {"sync", "dead"}
  PROVE  WasRead(s)
<1>1. <<"SYNC">> # <<>> /\ Head(<<"SYNC">>) = "SYNC"
  OBVIOUS
<1> QED
  BY <1>1, Zenon DEF AskInv, NotStarted, Unread

\* What a step of the master's coroutine for s may do.
MasterStep(s) ==
  /\ UNCHANGED <<agentVars, tableVars, slaveVars, sent, join, log>>
  /\ \E next : session' \in {session, [session EXCEPT ![s] = next]}
  /\ \E msg \in Replies :
       toSlave' \in {toSlave, [toSlave EXCEPT ![s] = Append(@, msg)]}
  /\ \/ \E msg \in {"SYNC", "READY", "ERROR", "FINISHED"} : Received(s, msg)
     \/ /\ UNCHANGED <<toMaster, captureVars>>
        /\ pc[s] # "init" /\ (session[s] # "reader" \/ toMaster[s] = <<>>)

LEMMA MasterSteps ==
  ASSUME SyncInv, NEW s \in Slaves, MasterSession(s)
  PROVE  MasterStep(s)
<1>1. /\ UNCHANGED <<agentVars, tableVars, slaveVars, sent, join, log>>
      /\ \E next : session' \in {session, [session EXCEPT ![s] = next]}
  BY Zenon DEF MasterSession, MasterBusy, MasterFork, MasterForkFails, MasterNotify,
     MasterChildFails, MasterSendFile, MasterNotReady, MasterReads, EndSync, masterVars
<1>2. UNCHANGED toSlave \/ \E msg \in {"BUSY", "ERROR", "OK", "OK 0", "FILE"} : Tell(s, msg)
  BY Zenon DEF MasterSession, MasterBusy, MasterFork, MasterForkFails, MasterNotify,
     MasterChildFails, MasterSendFile, MasterNotReady, MasterReads
<1>3. \/ \E msg \in {"SYNC", "READY", "ERROR", "FINISHED"} : Received(s, msg)
      \/ /\ UNCHANGED <<toMaster, captureVars>>
         /\ session[s] \in {"child", "ready"} \/ PeerGone(s)
  BY Zenon DEF MasterSession, MasterBusy, MasterFork, MasterForkFails, MasterNotify,
     MasterChildFails, MasterSendFile, MasterNotReady, MasterReads
<1>4. session[s] \in {"child", "ready"} => session[s] # "reader" /\ pc[s] # "init"
  BY Zenon DEF SyncInv
<1>5. PeerGone(s) => toMaster[s] = <<>> /\ pc[s] # "init"
  BY DEF PeerGone
<1>6. \E msg \in Replies : toSlave' \in {toSlave, [toSlave EXCEPT ![s] = Append(@, msg)]}
  BY <1>2, Zenon DEF Tell, Replies
<1> QED
  BY <1>1, <1>3, <1>4, <1>5, <1>6, Zenon DEF MasterStep

LEMMA SameAsk ==
  ASSUME NEW s \in Slaves, NotStarted(s) \/ Unread(s) \/ WasRead(s),
         pc'[s] = pc[s], toMaster'[s] = toMaster[s], toSlave'[s] = toSlave[s],
         session'[s] = session[s], Unseen(s) => Unseen(s)'
  PROVE  NotStarted(s)' \/ Unread(s)' \/ WasRead(s)'
BY Zenon DEF NotStarted, Unread, WasRead

LEMMA MasterKeepsAsk ==
  ASSUME AskInv, EventInv, SyncInv, NEW s \in Slaves, MasterSession(s)
  PROVE  AskInv'
<1>1. MasterStep(s)
  BY MasterSteps
<1>2. /\ UNCHANGED <<pc, join, global_cache>>
      /\ \A t \in Slaves \ {s} : session'[t] = session[t]
  BY <1>1, Zenon DEF MasterStep, slaveVars, agentVars, SyncInv
<1>3. toSlave' \in [Slaves -> Seq(Replies)] /\ \A t \in Slaves \ {s} : toSlave'[t] = toSlave[t]
  <2>1. PICK msg \in Replies : toSlave' \in {toSlave, [toSlave EXCEPT ![s] = Append(@, msg)]}
    BY <1>1, Zenon DEF MasterStep
  <2>2. toSlave \in [Slaves -> Seq(Replies)] /\ Append(toSlave[s], msg) \in Seq(Replies)
    BY DEF AskInv
  <2> QED
    BY <2>1, <2>2, Zenon
<1>4. DOMAIN toMaster' = Slaves /\ \A t \in Slaves \ {s} : toMaster'[t] = toMaster[t]
  BY <1>1, Zenon DEF MasterStep, Received, AskInv
<1>5. ASSUME NEW t \in Slaves \ {s} PROVE NotStarted(t)' \/ Unread(t)' \/ WasRead(t)'
  <2>1. \/ UNCHANGED <<ring, global_cache>>
        \/ \E cmd, n, by : Capture(cmd, n, by) /\ UNCHANGED global_cache
                           /\ ~(cmd = "SYNC" /\ by = t)
    BY <1>1, <1>2, Zenon DEF MasterStep, Received, captureVars
  <2>2. Unseen(t) => Unseen(t)'
    BY <1>2, <2>1, UnseenStays, Zenon
  <2> QED
    BY <1>2, <1>3, <1>4, <2>2, SameAsk, Zenon DEF AskInv
<1>6. WasRead(s)'
  <2>1. ASSUME NEW msg \in {"SYNC", "READY", "ERROR", "FINISHED"}, Received(s, msg)
        PROVE  WasRead(s)'
    <3>1. toMaster[s] # <<>> /\ Head(toMaster[s]) = msg /\ toMaster'[s] = Tail(toMaster[s])
      BY <2>1, Zenon DEF Received, AskInv
    <3>2. CASE msg = "SYNC"
      <4>1. pc[s] # "init" /\ toMaster'[s] = <<>>
        BY <3>1, <3>2, SyncIsUnread, Zenon DEF Unread
      <4> QED
        BY <1>2, <4>1 DEF WasRead
    <3>3. CASE msg # "SYNC"
      <4>1. pc[s] # "init"
        BY <3>1, Zenon DEF AskInv, NotStarted, Unread, WasRead
      <4>2. WasRead(s)
        BY <3>1, <3>3, <4>1, LaterIsRead, Zenon
      <4> QED
        BY <1>2, <3>1, <4>2 DEF WasRead
    <3> QED
      BY <3>2, <3>3, Zenon
  <2>2. CASE UNCHANGED toMaster /\ pc[s] # "init"
             /\ (session[s] # "reader" \/ toMaster[s] = <<>>)
    BY <1>2, <2>2, LaterIsRead, Zenon DEF WasRead
  <2> QED
    BY <1>1, <2>1, <2>2, Zenon DEF MasterStep
<1> QED
  BY <1>2, <1>3, <1>4, <1>5, <1>6, Zenon DEF AskInv

\* What a step of slave s may do once its SYNC was read.
SlaveStep(s) ==
  /\ WasRead(s)
  /\ UNCHANGED <<session, captureVars, agentVars, sent, join, log, snapAt>>
  /\ UNCHANGED pc \/ \E next : next # "init" /\ pc' = [pc EXCEPT ![s] = next]
  /\ \/ UNCHANGED toSlave
     \/ toSlave[s] # <<>> /\ toSlave' = [toSlave EXCEPT ![s] = Tail(@)]
  /\ \E msg \in NonSync : toMaster' \in {toMaster, [toMaster EXCEPT ![s] = Append(@, msg)]}

LEMMA SlaveSteps ==
  ASSUME AskInv, NEW s \in Slaves, SlaveSync(s)
  PROVE  SlaveStep(s)
<1>1. /\ UNCHANGED <<session, captureVars, agentVars, sent, join, log, snapAt>>
      /\ \/ UNCHANGED toSlave
         \/ toSlave[s] # <<>> /\ toSlave' = [toSlave EXCEPT ![s] = Tail(@)]
  BY Zenon DEF SlaveSync, SlaveReply, SlaveLoad, SlaveCutOff, SlaveConnect, SlaveFinished,
     SlaveExec, masterVars
<1>2. UNCHANGED pc \/ \E next \in {"failed", "synced", "ready", "connected", "running"} :
                        Goes(s, next)
  BY Zenon DEF SlaveSync, SlaveReply, SlaveLoad, SlaveCutOff, SlaveConnect, SlaveFinished,
     SlaveExec
<1>3. UNCHANGED toMaster \/ \E msg \in {"READY", "ERROR", "FINISHED"} : Send(s, msg)
  BY Zenon DEF SlaveSync, SlaveReply, SlaveLoad, SlaveCutOff, SlaveConnect, SlaveFinished,
     SlaveExec
<1>4. /\ pc[s] \in {"sync", "ready", "synced", "connected", "running"}
      /\ toSlave[s] # <<>> \/ session[s] = "closed" \/ pc[s] # "sync"
  BY Zenon DEF SlaveSync, SlaveReply, SlaveLoad, SlaveCutOff, SlaveConnect, SlaveFinished,
     SlaveExec
<1>5. WasRead(s)
  <2>1. /\ pc[s] # "init"
        /\ toSlave[s] # <<>> \/ session[s] # "reader" \/ pc[s] \notin {"sync", "dead"}
    BY <1>4, Zenon
  <2> QED
    BY <2>1, LaterIsRead, Zenon
<1>6. UNCHANGED pc \/ \E next : next # "init" /\ pc' = [pc EXCEPT ![s] = next]
  BY <1>2 DEF Goes
<1>7. \E msg \in NonSync : toMaster' \in {toMaster, [toMaster EXCEPT ![s] = Append(@, msg)]}
  BY <1>3, Zenon DEF Send, NonSync
<1> QED
  BY <1>1, <1>5, <1>6, <1>7, Zenon DEF SlaveStep

LEMMA SlaveKeepsAsk ==
  ASSUME AskInv, EventInv, TableInv, NEW s \in Slaves, SlaveStep(s)
  PROVE  AskInv'
<1>1. /\ UNCHANGED <<join, ring, global_cache, session>>
      /\ \A t \in Slaves \ {s} : pc'[t] = pc[t] /\ toMaster'[t] = toMaster[t]
                                 /\ toSlave'[t] = toSlave[t]
      /\ DOMAIN toMaster' = Slaves
  BY DEF SlaveStep, captureVars, agentVars, AskInv, TableInv
<1>2. toSlave' \in [Slaves -> Seq(Replies)]
  <2>1. toSlave \in [Slaves -> Seq(Replies)]
        /\ (toSlave[s] # <<>> => Tail(toSlave[s]) \in Seq(Replies))
    BY DEF AskInv
  <2> QED
    BY <2>1, Zenon DEF SlaveStep
<1>3. WasRead(s)'
  <2>1. pc[s] # "init" /\ toMaster[s] \in Seq(NonSync)
    BY Zenon DEF SlaveStep, WasRead
  <2>2. pc'[s] # "init"
    BY <2>1 DEF SlaveStep, TableInv
  <2>3. PICK msg \in NonSync : toMaster' \in {toMaster, [toMaster EXCEPT ![s] = Append(@, msg)]}
    BY Zenon DEF SlaveStep
  <2>4. toMaster'[s] \in {toMaster[s], Append(toMaster[s], msg)}
    BY <2>3, Zenon DEF AskInv
  <2>5. Append(toMaster[s], msg) \in Seq(NonSync)
    BY <2>1
  <2> QED
    BY <2>1, <2>2, <2>4, <2>5, Zenon DEF WasRead
<1>4. ASSUME NEW t \in Slaves \ {s} PROVE NotStarted(t)' \/ Unread(t)' \/ WasRead(t)'
  <2>1. Unseen(t) => Unseen(t)'
    BY <1>1, Zenon DEF Unseen
  <2> QED
    BY <1>1, <2>1, SameAsk, Zenon DEF AskInv
<1> QED
  BY <1>1, <1>2, <1>3, <1>4, Zenon DEF AskInv

LEMMA AgentKeepsAsk ==
  ASSUME AskInv, EventInv, UNCHANGED <<pc, toMaster, toSlave, session>>, DOMAIN join' = Slaves,
         \A s \in Slaves : Unseen(s) => Unseen(s)'
  PROVE  AskInv'
BY SameAsk, Zenon DEF AskInv

LEMMA AskInvNext ==
  AskInv /\ EventInv /\ SyncInv /\ TableInv /\ [Next]_vars => AskInv'
<1> SUFFICES ASSUME AskInv, EventInv, SyncInv, TableInv, [Next]_vars PROVE AskInv'
  BY Zenon
<1>1. DOMAIN join = Slaves
  BY Zenon DEF AskInv
<1>2. ASSUME UNCHANGED <<pc, toMaster, toSlave, session, join, ring, global_cache>>
      PROVE  AskInv'
  <2>1. \A s \in Slaves : Unseen(s) => Unseen(s)'
    BY <1>2, Zenon DEF Unseen
  <2> QED
    BY <1>1, <1>2, <2>1, AgentKeepsAsk, Zenon
<1>3. CASE UNCHANGED vars
  BY <1>2, <1>3, Zenon DEF vars, masterVars, captureVars, agentVars, slaveVars
<1>4. ASSUME NEW w \in Writes, ClientWrite(w) PROVE AskInv'
  <2>1. /\ UNCHANGED <<pc, toMaster, toSlave, session, join, global_cache>>
        /\ Capture("WRITE", Len(log) + 1, NONE)
    BY <1>4 DEF ClientWrite, agentVars, slaveVars
  <2>2. \A s \in Slaves : Unseen(s) => Unseen(s)'
    <3> SUFFICES ASSUME NEW s \in Slaves, Unseen(s) PROVE Unseen(s)'
      BY Zenon
    <3>1. ~("WRITE" = "SYNC" /\ NONE = s) /\ join'[s] = join[s]
      BY <2>1, Zenon
    <3> QED
      BY <2>1, <3>1, UnseenStays, Zenon
  <2> QED
    BY <1>1, <2>1, <2>2, AgentKeepsAsk, Zenon
<1>5. ASSUME NEW s \in Slaves, MasterSession(s) PROVE AskInv'
  BY <1>5, MasterKeepsAsk, Zenon
<1>6. ASSUME NEW s \in Slaves, SlaveSync(s) PROVE AskInv'
  BY <1>6, SlaveSteps, SlaveKeepsAsk, Zenon
<1>7. ASSUME NEW s \in Slaves, SlaveStart(s) PROVE AskInv'
  <2>1. /\ pc[s] = "init" /\ pc' = [pc EXCEPT ![s] = "sync"]
        /\ toMaster' = [toMaster EXCEPT ![s] = Append(@, "SYNC")]
        /\ session' = [session EXCEPT ![s] = "reader"]
        /\ UNCHANGED <<toSlave, ring, global_cache, join>>
    BY <1>7, Zenon DEF SlaveStart, Goes, Send, captureVars, agentVars
  <2>2. \A t \in Slaves : Unseen(t) => Unseen(t)'
    BY <2>1 DEF Unseen
  <2>3. NotStarted(s)
    BY <2>1, Zenon DEF AskInv, Unread, WasRead
  <2>4. Unread(s)'
    <3>1. pc'[s] = "sync" /\ toMaster'[s] = Append(toMaster[s], "SYNC") /\ session'[s] = "reader"
      BY <2>1, Zenon DEF AskInv, SyncInv
    <3>2. Append(<<>>, "SYNC") = <<"SYNC">>
      OBVIOUS
    <3> QED
      BY <2>1, <2>2, <2>3, <3>1, <3>2, Zenon DEF Unread, NotStarted
  <2>5. ASSUME NEW t \in Slaves \ {s} PROVE NotStarted(t)' \/ Unread(t)' \/ WasRead(t)'
    <3>1. pc'[t] = pc[t] /\ toMaster'[t] = toMaster[t] /\ session'[t] = session[t]
      BY <2>1, Zenon DEF AskInv, SyncInv
    <3> QED
      BY <2>1, <2>2, <3>1, SameAsk, Zenon DEF AskInv
  <2> QED
    BY <2>1, <2>4, <2>5, Zenon DEF AskInv
<1>8. ASSUME NEW s \in Slaves, SlaveDies(s) PROVE AskInv'
  <2>1. /\ pc[s] # "init" /\ pc' = [pc EXCEPT ![s] = "dead"]
        /\ UNCHANGED <<toMaster, toSlave, session, ring, global_cache, join>>
    BY <1>8, Zenon DEF SlaveDies, Goes, masterVars, captureVars, agentVars
  <2>2. \A t \in Slaves : Unseen(t) => Unseen(t)'
    BY <2>1, Zenon DEF Unseen
  <2>3. pc'[s] = "dead" /\ \A t \in Slaves \ {s} : pc'[t] = pc[t]
    BY <2>1, Zenon DEF SyncInv
  <2>4. Unread(s)' \/ WasRead(s)'
    <3>1. Unread(s) \/ WasRead(s)
      BY <2>1, Zenon DEF AskInv, NotStarted
    <3> QED
      BY <2>1, <2>2, <2>3, <3>1, Zenon DEF Unread, WasRead
  <2>5. ASSUME NEW t \in Slaves \ {s} PROVE NotStarted(t)' \/ Unread(t)' \/ WasRead(t)'
    BY <2>1, <2>2, <2>3, SameAsk, Zenon DEF AskInv
  <2> QED
    BY <2>1, <2>4, <2>5, Zenon DEF AskInv
<1>9. CASE HandleEvent
  <2>1. /\ UNCHANGED <<pc, toMaster, toSlave, session, join>>
        /\ ring # <<>> /\ ring' = Tail(ring)
        /\ global_cache' \in {global_cache, Append(global_cache, Head(ring))}
    BY <1>9, Zenon DEF HandleEvent, masterVars, slaveVars
  <2>2. \A s \in Slaves : Unseen(s) => Unseen(s)'
    BY <2>1, UnseenStays, Zenon
  <2> QED
    BY <1>1, <2>1, <2>2, AgentKeepsAsk, Zenon
<1>10. CASE AgentSync \/ AgentFinished \/ AgentWrite \/ AgentOther
  <2>1. /\ UNCHANGED <<pc, toMaster, toSlave, session, ring>>
        /\ global_cache # <<>> /\ global_cache' = Tail(global_cache)
    BY <1>10, Zenon DEF AgentSync, AgentFinished, AgentWrite, AgentOther, Record, masterVars,
       captureVars
  <2>2. /\ DOMAIN join' = Slaves
        /\ \A s \in Slaves : join[s] = "none" =>
             join'[s] = join[s] \/ SyncOf(Head(global_cache), s)
    <3>1. CASE UNCHANGED join
      BY <1>1, <3>1, Zenon
    <3>2. CASE join' = [s \in Slaves |-> IF join[s] # "waits" THEN join[s]
                                           ELSE IF s \in InTable THEN "exact" ELSE "missed"]
      BY <3>2, Zenon
    <3>3. CASE AgentSync
      <4>1. PICK how : join' = [join EXCEPT ![Head(global_cache).by] = how]
        BY <3>3, Zenon DEF AgentSync
      <4>2. Head(global_cache).cmd = "SYNC"
        BY <3>3, Zenon DEF AgentSync, Record
      <4> QED
        BY <1>1, <4>1, <4>2, Zenon DEF SyncOf
    <3> QED
      BY <1>10, <3>1, <3>2, <3>3, Zenon DEF AgentFinished, AgentWrite, AgentOther
  <2>3. Head(global_cache) = global_cache[1] /\ 1 \in 1 .. Len(global_cache)
    BY <2>1 DEF EventInv
  <2>4. ASSUME NEW s \in Slaves, Unseen(s) PROVE Unseen(s)'
    <3>1. join'[s] = join[s]
      BY <2>2, <2>3, <2>4, Zenon DEF Unseen
    <3> QED
      BY <2>1, <2>4, <3>1, UnseenStays, Zenon
  <2> QED
    BY <2>1, <2>2, <2>4, AgentKeepsAsk, Zenon
<1>11. CASE AgentFlush \/ ServerAccept \/ \E s \in Slaves : ServerClose(s)
  <2>1. UNCHANGED <<pc, toMaster, toSlave, session, join, ring, global_cache>>
    BY <1>11, Zenon DEF AgentFlush, ServerAccept, ServerClose, masterVars, captureVars,
       agentVars, slaveVars
  <2> QED
    BY <1>2, <2>1, Zenon
<1> QED
  BY <1>3, <1>4, <1>5, <1>6, <1>7, <1>8, <1>9, <1>10, <1>11, Zenon DEF Next, AgentThread

\* Nothing that happens to a refused slave makes it join after all.
LEMMA DoomedStays ==
  ASSUME AskInv, SyncInv, [Next]_vars, NEW t \in Slaves, Doomed(t)
  PROVE  Doomed(t)'
<1>1. pc[t] \in {"failed", "dead", "sync"} /\ toSlave[t] \in Seq(Replies) /\ DOMAIN pc = Slaves
  BY DEF Doomed, AskInv, SyncInv
<1>2. ASSUME pc'[t] = pc[t], toSlave'[t] = toSlave[t] PROVE Doomed(t)'
  BY <1>2, Zenon DEF Doomed
<1>3. ASSUME NEW s \in Slaves, NEW next, Goes(s, next)
      PROVE  pc'[t] = IF s = t THEN next ELSE pc[t]
  BY <1>1, <1>3, Zenon DEF Goes
<1>4. ASSUME NEW s \in Slaves, MasterSession(s) PROVE Doomed(t)'
  <2>1. MasterStep(s) /\ pc' = pc
    BY <1>4, MasterSteps, Zenon DEF MasterStep, slaveVars
  <2>2. PICK msg \in Replies : toSlave' \in {toSlave, [toSlave EXCEPT ![s] = Append(@, msg)]}
    BY <2>1, Zenon DEF MasterStep
  <2>3. toSlave'[t] \in {toSlave[t], Append(toSlave[t], msg)}
    BY <2>2, Zenon DEF AskInv
  <2>4. toSlave[t] # <<>> => toSlave'[t] # <<>> /\ Head(toSlave'[t]) = Head(toSlave[t])
    BY <1>1, <2>3
  <2> QED
    BY <2>1, <2>4, Zenon DEF Doomed
<1>5. ASSUME NEW s \in Slaves, SlaveStart(s) PROVE Doomed(t)'
  <2>1. pc[s] = "init" /\ Goes(s, "sync") /\ UNCHANGED toSlave
    BY <1>5, Zenon DEF SlaveStart
  <2> QED
    BY <1>1, <1>2, <1>3, <2>1, Zenon
<1>6. ASSUME NEW s \in Slaves, SlaveSync(s) PROVE Doomed(t)'
  <2>1. CASE s # t
    <3>1. SlaveStep(s)
      BY <1>6, SlaveSteps, Zenon
    <3>2. pc'[t] = pc[t] /\ toSlave'[t] = toSlave[t]
      BY <1>1, <2>1, <3>1, Zenon DEF SlaveStep, AskInv
    <3> QED
      BY <1>2, <3>2, Zenon
  <2>2. CASE s = t
    <3>1. \/ SlaveReply(t) \/ SlaveCutOff(t)
          \/ pc[t] \in {"ready", "synced", "connected", "running"}
      BY <1>6, <2>2, Zenon DEF SlaveSync, SlaveLoad, SlaveConnect, SlaveFinished, SlaveExec
    <3>2. SlaveReply(t) => /\ pc[t] = "sync" /\ toSlave[t] # <<>>
                           /\ \/ Goes(t, "failed") \/ Head(toSlave[t]) \in {"OK 0", "OK"}
      BY Zenon DEF SlaveReply
    <3>3. SlaveCutOff(t) => Goes(t, "failed")
      BY Zenon DEF SlaveCutOff
    <3>4. Goes(t, "failed")
      <4>1. /\ pc[t] \notin {"ready", "synced", "connected", "running"}
            /\ pc[t] = "sync" => Head(toSlave[t]) \notin {"OK 0", "OK"}
        BY Zenon DEF Doomed
      <4> QED
        BY <3>1, <3>2, <3>3, <4>1, Zenon
    <3> QED
      BY <1>3, <3>4, Zenon DEF Doomed
  <2> QED
    BY <2>1, <2>2, Zenon
<1>7. ASSUME NEW s \in Slaves, SlaveDies(s) PROVE Doomed(t)'
  <2>1. Goes(s, "dead") /\ UNCHANGED toSlave
    BY <1>7, Zenon DEF SlaveDies
  <2>2. CASE s = t
    BY <1>3, <2>1, <2>2, Zenon DEF Doomed
  <2>3. CASE s # t
    BY <1>2, <1>3, <2>1, <2>3, Zenon
  <2> QED
    BY <2>2, <2>3, Zenon
<1>8. CASE UNCHANGED <<pc, toSlave>>
  BY <1>2, <1>8, Zenon
<1>9. ASSUME \/ UNCHANGED vars \/ \E w \in Writes : ClientWrite(w)
             \/ HandleEvent \/ AgentThread \/ ServerAccept \/ \E s \in Slaves : ServerClose(s)
      PROVE  UNCHANGED <<pc, toSlave>>
  BY <1>9, Zenon DEF vars, ClientWrite, HandleEvent, AgentThread, AgentSync, AgentFinished, AgentWrite,
     AgentOther, AgentFlush, Record, ServerAccept, ServerClose, slaveVars
<1> QED
  BY <1>4, <1>5, <1>6, <1>7, <1>8, <1>9, Zenon DEF Next

\* The master cuts a snapshot only where it reads the SYNC, and refuses the
\* slave when it does not.
LEMMA MasterCuts ==
  ASSUME AskInv, NEW s \in Slaves, MasterSession(s)
  PROVE  \/ /\ Received(s, "SYNC") /\ Unseen(s)
            /\ \/ Doomed(s)' /\ UNCHANGED snapAt
               \/ snapAt' = [snapAt EXCEPT ![s] = Len(log)]
         \/ /\ UNCHANGED snapAt
            /\ \/ \E msg \in {"READY", "ERROR", "FINISHED"} : Received(s, msg)
               \/ UNCHANGED captureVars
<1>1. Received(s, "SYNC") => Unread(s)
  BY SyncIsUnread, Zenon DEF Received
<1>2. CASE MasterBusy(s) \/ MasterForkFails(s)
  <2>1. /\ Received(s, "SYNC") /\ UNCHANGED <<snapAt, pc>>
        /\ \E msg \in {"BUSY", "ERROR"} : Tell(s, msg)
    BY <1>2, Zenon DEF MasterBusy, MasterForkFails, EndSync, masterVars, slaveVars
  <2>2. /\ pc[s] \in {"sync", "dead"} /\ toSlave[s] = <<>> /\ Unseen(s)
    BY <1>1, <2>1, Zenon DEF Unread
  <2>3. PICK msg \in {"BUSY", "ERROR"} : toSlave' = [toSlave EXCEPT ![s] = Append(@, msg)]
    BY <2>1, Zenon DEF Tell
  <2>4. toSlave'[s] = Append(<<>>, msg)
    BY <2>2, <2>3, Zenon DEF AskInv
  <2>5. toSlave'[s] # <<>> /\ Head(toSlave'[s]) = msg
    BY <2>4
  <2>6. Doomed(s)'
    BY <2>1, <2>2, <2>3, <2>5, Zenon DEF Doomed
  <2> QED
    BY <2>1, <2>2, <2>6, Zenon
<1>3. CASE MasterFork(s)
  BY <1>1, <1>3, Zenon DEF MasterFork, Unread
<1>4. CASE MasterNotify(s) \/ MasterChildFails(s) \/ MasterSendFile(s) \/ MasterNotReady(s)
           \/ MasterReads(s)
  BY <1>4, Zenon DEF MasterNotify, MasterChildFails, MasterSendFile, MasterNotReady,
     MasterReads, EndSync
<1> QED
  BY <1>2, <1>3, <1>4, Zenon DEF MasterSession

-----------------------------------------------------------------------------
(* Where the snapshot and the stream are cut.                               *)
\* The writes behind place i of q.
Following(q, i) == {q[j].n : j \in {k \in i + 1 .. Len(q) : q[k].cmd = "WRITE"}}

\* The writes that the snapshot of s does not have.
Missing(s) == snapAt[s] + 1 .. Len(log)

Sure(s) == ~Doomed(s) /\ ~lost /\ ~existing

\* Behind the SYNC of s come exactly the writes that its snapshot does not
\* have.
CutAt(s) ==
  /\ \A i \in 1 .. Len(ring) : SyncOf(ring[i], s) => Following(ring, i) = Missing(s)
  /\ \A i \in 1 .. Len(global_cache) : SyncOf(global_cache[i], s) =>
       Following(global_cache, i) \cup Numbers(ring) = Missing(s)

CutInv == \A s \in Slaves : Sure(s) => CutAt(s)

\* No snapshot is of a log that is not yet written.
SnapInLog == snapAt \in [Slaves -> Nat] /\ \A s \in Slaves : snapAt[s] <= Len(log)

LEMMA CutInit == Init => CutInv
<1> SUFFICES ASSUME Init PROVE CutInv
  OBVIOUS
<1>1. Len(ring) = 0 /\ Len(global_cache) = 0
  BY Zenon DEF Init
<1> QED
  BY <1>1 DEF CutInv, CutAt

-----------------------------------------------------------------------------
(* Sequences of events.                                                     *)

LEMMA FollowingAppend ==
  ASSUME NEW q \in Seq(AnyEvent), NEW e \in AnyEvent
  PROVE  /\ \A i \in 1 .. Len(q) :
              Following(Append(q, e), i) =
                Following(q, i) \cup (IF e.cmd = "WRITE" THEN {e.n} ELSE {})
         /\ Following(Append(q, e), Len(q) + 1) = {}
<1> DEFINE r == Append(q, e)
<1>1. /\ Len(q) \in Nat /\ Len(r) = Len(q) + 1
      /\ r[Len(q) + 1] = e /\ \A i \in 1 .. Len(q) : r[i] = q[i]
  OBVIOUS
<1>2. ASSUME NEW i \in 1 .. Len(q)
      PROVE  \A k \in i + 1 .. Len(r) : k \in i + 1 .. Len(q) \/ k = Len(q) + 1
  BY <1>1
<1>3. ASSUME NEW i \in 1 .. Len(q)
      PROVE  Following(r, i) = Following(q, i) \cup (IF e.cmd = "WRITE" THEN {e.n} ELSE {})
  <2>1. /\ \A k \in i + 1 .. Len(q) : k \in i + 1 .. Len(r) /\ r[k] = q[k]
        /\ Len(q) + 1 \in i + 1 .. Len(r)
    BY <1>1
  <2> QED
    BY <1>1, <1>2, <2>1, Zenon DEF Following
<1>4. Following(r, Len(q) + 1) = {}
  BY <1>1 DEF Following
<1> QED
  BY <1>3, <1>4, Zenon

LEMMA FollowingSame ==
  ASSUME NEW q \in Seq(AnyEvent), NEW e \in AnyEvent, e.cmd # "WRITE"
  PROVE  /\ \A i \in 1 .. Len(q) : Following(Append(q, e), i) = Following(q, i)
         /\ Following(Append(q, e), Len(q) + 1) = {}
<1>1. \A i : Following(q, i) \cup {} = Following(q, i)
  BY Zenon
<1> QED
  BY <1>1, FollowingAppend, Zenon

LEMMA FollowingTail ==
  ASSUME NEW q \in Seq(AnyEvent), q # <<>>
  PROVE  /\ \A i \in 1 .. Len(Tail(q)) : /\ i + 1 \in 1 .. Len(q) /\ Tail(q)[i] = q[i + 1]
                                         /\ Following(Tail(q), i) = Following(q, i + 1)
         /\ Following(q, 1) = Numbers(Tail(q))
<1> DEFINE t == Tail(q)
<1>1. /\ Len(q) \in Nat \ {0} /\ Len(t) = Len(q) - 1
      /\ \A i \in 1 .. Len(t) : t[i] = q[i + 1] /\ i + 1 \in 1 .. Len(q)
  OBVIOUS
<1>2. ASSUME NEW i \in 0 .. Len(t) PROVE Following(t, i) = Following(q, i + 1)
  <2>1. \A k \in i + 1 .. Len(t) : k + 1 \in (i + 1) + 1 .. Len(q) /\ t[k] = q[k + 1]
    BY <1>1
  <2>2. \A k \in (i + 1) + 1 .. Len(q) : k - 1 \in i + 1 .. Len(t) /\ q[k] = t[k - 1]
    BY <1>1
  <2> QED
    BY <2>1, <2>2 DEF Following
<1>3. \A i \in 1 .. Len(t) : i \in 0 .. Len(t)
  BY <1>1
<1>4. Following(q, 1) = Numbers(t)
  <2>1. 0 \in 0 .. Len(t) /\ 0 + 1 = 1
    BY <1>1
  <2>2. Following(t, 0) = Numbers(t)
    BY DEF Following, Numbers
  <2> QED
    BY <1>2, <2>1, <2>2, Zenon
<1> HIDE DEF t
<1> QED
  BY <1>1, <1>2, <1>3, <1>4, Zenon DEF t
-----------------------------------------------------------------------------
(* The cut.                                                                 *)

\* A step that neither moves the events nor cuts a new snapshot.
LEMMA QuietKeepsCut ==
  ASSUME CutInv, UNCHANGED <<ring, global_cache, log, snapAt>>,
         \A s \in Slaves : Sure(s)' => Sure(s)
  PROVE  CutInv'
BY Zenon DEF CutInv, CutAt, Missing

\* The master reads a command that is no write.
LEMMA CaptureKeepsCut ==
  ASSUME CutInv, OrderInv, UNCHANGED <<global_cache, log>>,
         NEW msg \in {"SYNC", "READY", "ERROR", "FINISHED"}, NEW s \in Slaves,
         Capture(msg, 0, s),
         \A t \in Slaves : Sure(t)' => Sure(t),
         \A t \in Slaves \ {s} : snapAt'[t] = snapAt[t],
         msg # "SYNC" => snapAt'[s] = snapAt[s],
         msg = "SYNC" => Unseen(s) /\ (Doomed(s)' \/ snapAt'[s] = Len(log))
  PROVE  CutInv'
<1> DEFINE e == [cmd |-> msg, n |-> 0, by |-> s]
<1>1. /\ e \in AnyEvent /\ e.cmd = msg /\ e.by = s /\ msg # "WRITE"
      /\ ring \in Seq(AnyEvent) /\ Len(ring) \in Nat /\ Len(log) \in Nat
  <2>1. log \in Seq(Writes) /\ ring \in Seq(AnyEvent)
    BY Zenon DEF OrderInv
  <2>2. Len(ring) \in Nat /\ Len(log) \in Nat
    BY <2>1
  <2>3. e.cmd = msg /\ e.by = s
    BY Zenon
  <2> QED
    BY <2>1, <2>2, <2>3, CommandEvent, Zenon
<1> HIDE DEF e
<1> SUFFICES ASSUME NEW t \in Slaves, Sure(t)'
             PROVE  CutAt(t)'
  BY Zenon DEF CutInv
<1>2. Sure(t) /\ ring' = Append(ring, e) /\ ~Doomed(t)'
  BY Zenon DEF Sure, Capture, e
<1>3. /\ Len(ring') = Len(ring) + 1 /\ ring'[Len(ring) + 1] = e
      /\ \A i \in 1 .. Len(ring) : ring'[i] = ring[i]
  <2>1. /\ Len(Append(ring, e)) = Len(ring) + 1 /\ Append(ring, e)[Len(ring) + 1] = e
        /\ \A i \in 1 .. Len(ring) : Append(ring, e)[i] = ring[i]
    BY <1>1, Longer, Zenon
  <2> QED
    BY <1>2, <2>1, Zenon
<1>4. /\ \A i \in 1 .. Len(ring) : Following(ring', i) = Following(ring, i)
      /\ Following(ring', Len(ring) + 1) = {}
  BY <1>1, <1>2, FollowingSame, Zenon
<1>5. Numbers(ring') = Numbers(ring)
  <2>1. Numbers(ring) \cup {} = Numbers(ring)
    BY Zenon
  <2> QED
    BY <1>1, <1>2, <2>1, AppendEvent, Zenon DEF OrderInv
<1>6. CASE t = s /\ msg = "SYNC"
  <2>1. Unseen(t) /\ Missing(t)' = Len(log) + 1 .. Len(log)
    BY <1>2, <1>6, Zenon DEF Missing
  <2>2. Missing(t)' = {}
    BY <1>1, <2>1, NoneAfter, Zenon
  <2>3. \A i \in 1 .. Len(ring') : i \in 1 .. Len(ring) \/ i = Len(ring) + 1
    BY <1>1, <1>3
  <2> QED
    BY <1>3, <1>4, <2>1, <2>2, <2>3, Zenon DEF Unseen, CutAt
<1>7. CASE ~(t = s /\ msg = "SYNC")
  <2>1. Missing(t)' = Missing(t) /\ ~SyncOf(e, t)
    BY <1>1, <1>7, Zenon DEF Missing, SyncOf
  <2>2. \A i \in 1 .. Len(ring') : i \in 1 .. Len(ring) \/ i = Len(ring) + 1
    BY <1>1, <1>3
  <2> QED
    BY <1>2, <1>3, <1>4, <1>5, <2>1, <2>2, Zenon DEF CutInv, CutAt
<1> QED
  BY <1>6, <1>7, Zenon

\* A write goes behind every SYNC, and no snapshot has it.
LEMMA WriteKeepsCut ==
  ASSUME CutInv, SnapInLog, OrderInv, NEW w \in Writes, ClientWrite(w),
         \A t \in Slaves : Sure(t)' => Sure(t)
  PROVE  CutInv'
<1> DEFINE L == Len(log)
           e == [cmd |-> "WRITE", n |-> L + 1, by |-> NONE]
<1>1. /\ L \in Nat /\ Len(log') = L + 1 /\ UNCHANGED <<snapAt, global_cache>>
      /\ Capture("WRITE", L + 1, NONE)
  <2>1. log \in Seq(Writes) /\ log' = Append(log, w)
    BY Zenon DEF ClientWrite, OrderInv
  <2>2. L \in Nat /\ Len(log') = L + 1
    BY <2>1, LogGrows, Zenon
  <2>3. UNCHANGED <<snapAt, global_cache>> /\ Capture("WRITE", L + 1, NONE)
    BY Zenon DEF ClientWrite, agentVars
  <2> QED
    BY <2>2, <2>3, Zenon
<1>2. /\ e \in AnyEvent /\ e.cmd = "WRITE" /\ e.n = L + 1
      /\ ring \in Seq(AnyEvent) /\ Len(ring) \in Nat
  BY <1>1 DEF AnyEvent, OrderInv
<1> SUFFICES ASSUME NEW t \in Slaves, Sure(t)'
             PROVE  CutAt(t)'
  BY DEF CutInv
<1>3. Sure(t) /\ ring' = Append(ring, e)
  BY <1>1, Zenon DEF Sure, Capture
<1> HIDE DEF e
<1>4. /\ Len(ring') = Len(ring) + 1 /\ ring'[Len(ring) + 1] = e /\ ~SyncOf(e, t)
      /\ \A i \in 1 .. Len(ring) : ring'[i] = ring[i]
  BY <1>2, <1>3 DEF SyncOf
<1>5. \A i \in 1 .. Len(ring) : Following(ring', i) = Following(ring, i) \cup {L + 1}
  BY <1>2, <1>3, FollowingAppend
<1>6. Numbers(ring') = Numbers(ring) \cup {L + 1}
  <2>1. Below(Numbers(ring), {e.n})
    BY <1>2, Zenon DEF OrderInv
  <2> QED
    BY <1>2, <1>3, <2>1, AppendEvent, Zenon DEF OrderInv
<1>7. Missing(t)' = Missing(t) \cup {L + 1}
  BY <1>1 DEF Missing, SnapInLog
<1>8. \A i \in 1 .. Len(ring') : SyncOf(ring'[i], t) => i \in 1 .. Len(ring)
  BY <1>2, <1>4
<1> HIDE DEF L
<1>9. /\ \A i \in 1 .. Len(ring) : SyncOf(ring[i], t) => Following(ring, i) = Missing(t)
      /\ \A i \in 1 .. Len(global_cache) : SyncOf(global_cache[i], t) =>
           Following(global_cache, i) \cup Numbers(ring) = Missing(t)
  BY <1>3, Zenon DEF CutInv, CutAt
<1>10. \A i \in 1 .. Len(global_cache) : SyncOf(global_cache[i], t) =>
         Following(global_cache, i) \cup Numbers(ring') = Missing(t)'
  BY <1>6, <1>7, <1>9, Zenon
<1> QED
  BY <1>1, <1>4, <1>5, <1>7, <1>8, <1>9, <1>10, Zenon DEF CutAt

\* The agent takes an event from the ring buffer.
LEMMA EventKeepsCut ==
  ASSUME CutInv, OrderInv, HandleEvent,
         \A t \in Slaves : Sure(t)' => Sure(t)
  PROVE  CutInv'
<1> DEFINE e == Head(ring)
<1>1. ring # <<>> /\ ring' = Tail(ring) /\ UNCHANGED <<log, snapAt>>
  BY DEF HandleEvent, masterVars
<1>2. /\ ring \in Seq(AnyEvent) /\ global_cache \in Seq(AnyEvent) /\ e \in AnyEvent
      /\ e = ring[1] /\ 1 \in 1 .. Len(ring) /\ Len(global_cache) \in Nat
      /\ Numbers(ring) = Numbers(ring') \cup (IF e.cmd = "WRITE" THEN {e.n} ELSE {})
  <2>1. ring \in Seq(AnyEvent) /\ global_cache \in Seq(AnyEvent) /\ Rising(ring)
    BY Zenon DEF OrderInv
  <2>2. e \in AnyEvent /\ e = ring[1] /\ 1 \in 1 .. Len(ring) /\ Len(global_cache) \in Nat
    BY <1>1, <2>1
  <2>3. Numbers(ring') \cup {} = Numbers(ring')
    BY Zenon
  <2> QED
    BY <1>1, <2>1, <2>2, <2>3, TailEvent, Zenon
<1> HIDE DEF e
<1> SUFFICES ASSUME NEW t \in Slaves, Sure(t)'
             PROVE  CutAt(t)'
  BY DEF CutInv
<1>3. global_cache' = Append(global_cache, e)
  BY Zenon DEF HandleEvent, Sure, e
<1>4. /\ \A i \in 1 .. Len(ring) : SyncOf(ring[i], t) => Following(ring, i) = Missing(t)
      /\ \A i \in 1 .. Len(global_cache) : SyncOf(global_cache[i], t) =>
           Following(global_cache, i) \cup Numbers(ring) = Missing(t)
      /\ Missing(t)' = Missing(t)
  BY <1>1, Zenon DEF CutInv, CutAt, Missing
<1>5. /\ \A i \in 1 .. Len(ring') : /\ i + 1 \in 1 .. Len(ring) /\ ring'[i] = ring[i + 1]
                                    /\ Following(ring', i) = Following(ring, i + 1)
      /\ Following(ring, 1) = Numbers(ring')
  BY <1>1, <1>2, FollowingTail, Zenon
<1>6. \A i \in 1 .. Len(ring') : SyncOf(ring'[i], t) => Following(ring', i) = Missing(t)
  BY <1>4, <1>5, Zenon
<1>7. ASSUME NEW i \in 1 .. Len(global_cache), SyncOf(global_cache'[i], t)
      PROVE  Following(global_cache', i) \cup Numbers(ring') = Missing(t)
  <2>1. global_cache'[i] = global_cache[i]
    BY <1>2, <1>3
  <2>2. Following(global_cache, i) \cup Numbers(ring) = Missing(t)
    BY <1>4, <1>7, <2>1, Zenon
  <2>3. Following(global_cache', i) =
          Following(global_cache, i) \cup (IF e.cmd = "WRITE" THEN {e.n} ELSE {})
    BY <1>2, <1>3, FollowingAppend
  <2> QED
    BY <1>2, <2>2, <2>3, Zenon
<1>8. SyncOf(e, t) => Following(global_cache', Len(global_cache) + 1) \cup Numbers(ring') = Missing(t)
  <2>1. Following(global_cache', Len(global_cache) + 1) = {}
    BY <1>2, <1>3, FollowingAppend, Zenon
  <2>2. SyncOf(e, t) => Numbers(ring') = Missing(t)
    BY <1>2, <1>4, <1>5, Zenon
  <2> QED
    BY <2>1, <2>2, Zenon
<1>9. /\ global_cache'[Len(global_cache) + 1] = e
      /\ \A i \in 1 .. Len(global_cache') : i \in 1 .. Len(global_cache) \/ i = Len(global_cache) + 1
  BY <1>2, <1>3
<1> QED
  BY <1>4, <1>6, <1>7, <1>8, <1>9, Zenon DEF CutAt

\* The agent takes a record from its cache.
LEMMA RecordKeepsCut ==
  ASSUME CutInv, OrderInv, global_cache # <<>>, global_cache' = Tail(global_cache),
         UNCHANGED <<ring, log, snapAt>>, \A t \in Slaves : Sure(t)' => Sure(t)
  PROVE  CutInv'
<1>1. \A i \in 1 .. Len(global_cache') :
        /\ i + 1 \in 1 .. Len(global_cache) /\ global_cache'[i] = global_cache[i + 1]
        /\ Following(global_cache', i) = Following(global_cache, i + 1)
  BY FollowingTail, Zenon DEF OrderInv
<1> SUFFICES ASSUME NEW t \in Slaves, Sure(t)'
             PROVE  CutAt(t)'
  BY DEF CutInv
<1>2. /\ \A i \in 1 .. Len(ring) : SyncOf(ring[i], t) => Following(ring, i) = Missing(t)
      /\ \A i \in 1 .. Len(global_cache) : SyncOf(global_cache[i], t) =>
           Following(global_cache, i) \cup Numbers(ring) = Missing(t)
      /\ Missing(t)' = Missing(t)
  BY Zenon DEF CutInv, CutAt, Missing
<1>3. ASSUME NEW i \in 1 .. Len(global_cache'), SyncOf(global_cache'[i], t)
      PROVE  Following(global_cache', i) \cup Numbers(ring) = Missing(t)
  <2>1. i + 1 \in 1 .. Len(global_cache) /\ SyncOf(global_cache[i + 1], t)
    BY <1>1, <1>3, Zenon
  <2> QED
    BY <1>1, <1>2, <2>1, Zenon
<1> QED
  BY <1>2, <1>3, Zenon DEF CutAt

\* Once an event is dropped or the agent stopped it stays so, and a dead slave
\* stays dead.
LEMMA LossStays ==
  ASSUME AskInv, SyncInv, OrderInv, [Next]_vars
  PROVE  /\ lost => lost'
         /\ existing => existing'
         /\ \A t \in Slaves : pc[t] = "dead" => pc'[t] = "dead"
<1> DEFINE Moves(s) == \E next : /\ pc[s] # "dead" \/ next = "dead"
                                 /\ pc' = [pc EXCEPT ![s] = next]
<1>1. /\ UNCHANGED lost \/ lost' = TRUE
      /\ UNCHANGED existing \/ existing' = TRUE
      /\ UNCHANGED pc \/ \E s \in Slaves : Moves(s)
  <2>1. CASE UNCHANGED vars
    BY <2>1, Zenon DEF vars, captureVars, agentVars, slaveVars
  <2>2. CASE \E w \in Writes : ClientWrite(w)
    BY <2>2, Zenon DEF ClientWrite, Capture, agentVars, slaveVars
  <2>3. ASSUME NEW s \in Slaves, MasterSession(s)
        PROVE  UNCHANGED <<existing, pc>> /\ (UNCHANGED lost \/ lost' = TRUE)
    <3>1. MasterStep(s)
      BY <2>3, MasterSteps, Zenon
    <3> QED
      BY <3>1, Zenon DEF MasterStep, Received, Capture, captureVars, agentVars, slaveVars
  <2>4. ASSUME NEW s \in Slaves, SlaveStart(s) \/ SlaveSync(s) \/ SlaveDies(s)
        PROVE  UNCHANGED <<lost, existing>> /\ (UNCHANGED pc \/ Moves(s))
    <3>1. UNCHANGED <<lost, existing>>
      BY <2>4, Zenon DEF SlaveStart, SlaveSync, SlaveReply, SlaveLoad, SlaveCutOff, SlaveConnect,
         SlaveFinished, SlaveExec, SlaveDies, captureVars, agentVars
    <3>2. \/ UNCHANGED pc \/ Goes(s, "dead")
          \/ /\ pc[s] \in {"init", "sync", "ready", "synced", "connected"}
             /\ \E next \in {"sync", "failed", "synced", "ready", "connected", "running"} :
                  Goes(s, next)
      BY <2>4, Zenon DEF SlaveStart, SlaveSync, SlaveReply, SlaveLoad, SlaveCutOff, SlaveConnect,
         SlaveFinished, SlaveExec, SlaveDies
    <3>3. pc[s] \in {"init", "sync", "ready", "synced", "connected"} => pc[s] # "dead"
      OBVIOUS
    <3> QED
      BY <3>1, <3>2, <3>3, Zenon DEF Goes
  <2>5. CASE HandleEvent \/ AgentThread
    BY <2>5, Zenon DEF HandleEvent, AgentThread, AgentSync, AgentFinished, AgentWrite, AgentOther,
       AgentFlush, Record, captureVars, slaveVars
  <2>6. CASE ServerAccept \/ \E s \in Slaves : ServerClose(s)
    BY <2>6, Zenon DEF ServerAccept, ServerClose, captureVars, agentVars, slaveVars
  <2> HIDE DEF Moves
  <2> QED
    BY <2>1, <2>2, <2>3, <2>4, <2>5, <2>6, Zenon DEF Next
<1> QED
  BY <1>1 DEF OrderInv, SyncInv

LEMMA CutInvNext ==
  ASSUME AskInv, SyncInv, OrderInv, TableInv, CutInv, SnapInLog, [Next]_vars
  PROVE  CutInv'
<1>1. \A t \in Slaves : Sure(t)' => Sure(t)
  BY DoomedStays, LossStays, Zenon DEF Sure
<1>2. CASE UNCHANGED <<ring, global_cache, log, snapAt>>
  BY <1>1, <1>2, QuietKeepsCut, Zenon
<1>3. CASE UNCHANGED vars \/ AgentFlush \/ ServerAccept \/ \E s \in Slaves : ServerClose(s)
  <2>1. UNCHANGED <<ring, global_cache, log, snapAt>>
    BY <1>3, Zenon DEF vars, AgentFlush, ServerAccept, ServerClose, masterVars, captureVars,
       agentVars
  <2> QED
    BY <1>2, <2>1, Zenon
<1>4. CASE \E w \in Writes : ClientWrite(w)
  BY <1>1, <1>4, WriteKeepsCut, Zenon
<1>5. ASSUME NEW s \in Slaves, MasterSession(s) PROVE CutInv'
  <2>1. UNCHANGED <<global_cache, log>>
    BY <1>5, MasterSteps, Zenon DEF MasterStep, agentVars
  <2>2. CASE /\ Received(s, "SYNC") /\ Unseen(s)
             /\ \/ Doomed(s)' /\ UNCHANGED snapAt
                \/ snapAt' = [snapAt EXCEPT ![s] = Len(log)]
    <3>1. /\ \A t \in Slaves \ {s} : snapAt'[t] = snapAt[t]
          /\ Doomed(s)' \/ snapAt'[s] = Len(log)
      BY <2>2, Zenon DEF SnapInLog
    <3>2. Capture("SYNC", 0, s)
      BY <2>2, Zenon DEF Received
    <3> QED
      BY <1>1, <2>1, <2>2, <3>1, <3>2, CaptureKeepsCut, Zenon
  <2>3. ASSUME UNCHANGED snapAt, NEW msg \in {"READY", "ERROR", "FINISHED"}, Received(s, msg)
        PROVE  CutInv'
    <3>1. Capture(msg, 0, s) /\ msg # "SYNC" /\ msg \in {"SYNC", "READY", "ERROR", "FINISHED"}
      BY <2>3, Zenon DEF Received
    <3> QED
      BY <1>1, <2>1, <2>3, <3>1, CaptureKeepsCut, Zenon
  <2>4. CASE UNCHANGED snapAt /\ UNCHANGED captureVars
    BY <1>2, <2>1, <2>4, Zenon DEF captureVars
  <2> QED
    BY <1>5, <2>2, <2>3, <2>4, MasterCuts, Zenon
<1>6. ASSUME NEW s \in Slaves, SlaveStart(s) \/ SlaveSync(s) \/ SlaveDies(s) PROVE CutInv'
  <2>1. UNCHANGED <<ring, global_cache, log, snapAt>>
    BY <1>6, Zenon DEF SlaveStart, SlaveSync, SlaveReply, SlaveLoad, SlaveCutOff, SlaveConnect,
       SlaveFinished, SlaveExec, SlaveDies, masterVars, captureVars, agentVars
  <2> QED
    BY <1>2, <2>1, Zenon
<1>7. CASE HandleEvent
  BY <1>1, <1>7, EventKeepsCut, Zenon
<1>8. CASE AgentSync \/ AgentFinished \/ AgentWrite \/ AgentOther
  <2>1. /\ global_cache # <<>> /\ global_cache' = Tail(global_cache)
        /\ UNCHANGED <<ring, log, snapAt>>
    BY <1>8, Zenon DEF AgentSync, AgentFinished, AgentWrite, AgentOther, Record, masterVars,
       captureVars
  <2> QED
    BY <1>1, <2>1, RecordKeepsCut, Zenon
<1> QED
  BY <1>3, <1>4, <1>5, <1>6, <1>7, <1>8, Zenon DEF Next, AgentThread

-----------------------------------------------------------------------------
(* The stream continues the snapshot.                                       *)

\* What s was sent continues its snapshot, and what is unsent continues that.
Meets(s) ==
  /\ sent[s] = [i \in 1 .. Len(sent[s]) |-> snapAt[s] + i]
  /\ snapAt[s] + Len(sent[s]) <= Len(log)
  /\ Unsent = snapAt[s] + Len(sent[s]) + 1 .. Len(log)

\* From its SYNC on, also while it only waits for FINISHED; and what is sent
\* to a living slave is sent because it is in the table.
JoinAt(s) ==
  /\ snapAt[s] <= Len(log)
  /\ Sure(s) /\ join[s] \in {"waits", "exact"} => Meets(s)
  /\ join[s] = "waits" => state = "FULL_SYNC"
  /\ join[s] = "waits" /\ ~Doomed(s) => sent[s] = <<>>
  /\ join[s] = "exact" /\ pc[s] # "dead" => s \in InTable
  /\ sent[s] # <<>> /\ pc[s] # "dead" => s \in InTable

JoinInv == snapAt \in [Slaves -> Nat] /\ \A s \in Slaves : JoinAt(s)

LEMMA JoinInit == Init => JoinInv
  BY DEF Init, JoinInv, JoinAt

-----------------------------------------------------------------------------
(* The stream.                                                              *)

\* An accepted slave displaces no other.
LEMMA InsertKeepsOthers ==
  ASSUME TableInv, NEW s \in Slaves, kvs_slaves_insert(s)
  PROVE  InTable \subseteq InTable'
<1>1. CASE total = TableSize
  BY <1>1, Zenon DEF kvs_slaves_insert, InTable
<1>2. CASE total # TableSize
  <2> DEFINE First(i) == table[i] = NONE /\ \A j \in 1 .. i - 1 : table[j] # NONE
  <2>1. \E i \in 1 .. TableSize : First(i)
    BY <1>2, FreeSlot, Zenon DEF TableInv, Used
  <2>2. PICK free \in 1 .. TableSize : table[free] = NONE /\ table' = [table EXCEPT ![free] = s]
    BY <1>2, <2>1, Zenon DEF kvs_slaves_insert
  <2> QED
    BY <2>2 DEF TableInv, InTable
<1> QED
  BY <1>1, <1>2, Zenon

\* No slave leaves the table alive, and none that is lost to it comes back.
Keeps(t) ==
  /\ Doomed(t) => Doomed(t)'
  /\ Sure(t)' => Sure(t)
  /\ pc'[t] # "dead" => pc[t] # "dead" /\ (t \in InTable => t \in InTable')

\* A step that sends nothing and after which the agent has the same to send,
\* or serves nobody any more.  A new snapshot is cut for a slave that the agent
\* does not know.
LEMMA QuietKeepsJoin ==
  ASSUME JoinInv, UNCHANGED <<log, sent, join, state>>, snapAt' \in [Slaves -> Nat],
         \A t \in Slaves : /\ Keeps(t)
                           /\ Sure(t)' => Unsent' = Unsent
                           /\ \/ snapAt'[t] = snapAt[t]
                              \/ snapAt'[t] <= Len(log) /\ join[t] = "none"
  PROVE  JoinInv'
<1> SUFFICES ASSUME NEW t \in Slaves
             PROVE  JoinAt(t)'
  BY DEF JoinInv
<1>1. /\ snapAt[t] <= Len(log)
      /\ Sure(t) /\ join[t] \in {"waits", "exact"} => Meets(t)
      /\ join[t] = "waits" => state = "FULL_SYNC"
      /\ join[t] = "waits" /\ ~Doomed(t) => sent[t] = <<>>
      /\ join[t] = "exact" /\ pc[t] # "dead" => t \in InTable
      /\ sent[t] # <<>> /\ pc[t] # "dead" => t \in InTable
  BY Zenon DEF JoinInv, JoinAt
<1>2. /\ Doomed(t) => Doomed(t)'
      /\ Sure(t)' => Sure(t) /\ Unsent' = Unsent
      /\ pc'[t] # "dead" => pc[t] # "dead" /\ (t \in InTable => t \in InTable')
  BY Zenon DEF Keeps
<1>3. snapAt'[t] <= Len(log) /\ (join[t] \in {"waits", "exact"} => snapAt'[t] = snapAt[t])
  BY <1>1, Zenon
<1>4. Sure(t)' /\ join[t] \in {"waits", "exact"} => Meets(t)'
  BY <1>1, <1>2, <1>3, Zenon DEF Meets
<1> QED
  BY <1>1, <1>2, <1>3, <1>4, Zenon DEF JoinAt

\* A client's write is one more to send, to a slave that any snapshot is older
\* than.
LEMMA WriteKeepsJoin ==
  ASSUME JoinInv, OrderInv, NEW w \in Writes, ClientWrite(w), \A t \in Slaves : Keeps(t)
  PROVE  JoinInv'
<1> DEFINE L == Len(log)
           e == [cmd |-> "WRITE", n |-> L + 1, by |-> NONE]
<1>1. /\ L \in Nat /\ Len(log') = L + 1 /\ Capture("WRITE", L + 1, NONE)
      /\ UNCHANGED <<snapAt, global_cache, fullsync_cache, sent, join, state, pc>>
  <2>1. log \in Seq(Writes) /\ log' = Append(log, w)
    BY Zenon DEF ClientWrite, OrderInv
  <2>2. L \in Nat /\ Len(log') = L + 1
    BY <2>1, LogGrows, Zenon
  <2>3. /\ UNCHANGED <<snapAt, global_cache, fullsync_cache, sent, join, state, pc>>
        /\ Capture("WRITE", L + 1, NONE)
    BY Zenon DEF ClientWrite, agentVars, slaveVars
  <2> QED
    BY <2>2, <2>3, Zenon
<1>2. e \in AnyEvent /\ e.cmd = "WRITE" /\ e.n = L + 1
  BY <1>1 DEF AnyEvent
<1> HIDE DEF e
<1>3. ASSUME NEW t \in Slaves, Sure(t)' PROVE Unsent' = Unsent \cup {L + 1}
  <2>1. ring' = Append(ring, e)
    BY <1>1, <1>3, Zenon DEF Sure, Capture, e
  <2>2. Below(Numbers(ring), {e.n})
    BY <1>2, Zenon DEF OrderInv
  <2>3. Numbers(ring') = Numbers(ring) \cup {L + 1}
    BY <1>2, <2>1, <2>2, AppendEvent, Zenon DEF OrderInv
  <2> QED
    BY <1>1, <2>3, Zenon DEF Unsent
<1> SUFFICES ASSUME NEW t \in Slaves
             PROVE  JoinAt(t)'
  BY <1>1, Zenon DEF JoinInv
<1>4. /\ snapAt[t] \in Nat /\ snapAt[t] <= L
      /\ Sure(t)' /\ join[t] \in {"waits", "exact"} => Meets(t)
      /\ join[t] = "waits" => state = "FULL_SYNC"
      /\ join[t] = "waits" /\ ~Doomed(t)' => sent[t] = <<>>
      /\ join[t] = "exact" /\ pc'[t] # "dead" => t \in InTable'
      /\ sent[t] # <<>> /\ pc'[t] # "dead" => t \in InTable'
  BY Zenon DEF JoinInv, JoinAt, Keeps
<1>5. ASSUME Sure(t)', Meets(t) PROVE Meets(t)'
  <2>1. Len(sent[t]) \in Nat
    <3>1. sent[t] \in Seq(Nat)
      BY Zenon DEF OrderInv
    <3> QED
      BY <3>1
  <2>2. Unsent' = (snapAt[t] + Len(sent[t]) + 1 .. L) \cup {L + 1}
    BY <1>3, <1>5, Zenon DEF Meets
  <2>3. /\ snapAt[t] + Len(sent[t]) <= L + 1
        /\ Unsent' = snapAt[t] + Len(sent[t]) + 1 .. L + 1
    <3>1. snapAt[t] + Len(sent[t]) <= L
      BY <1>5, Zenon DEF Meets
    <3>2. /\ snapAt[t] + Len(sent[t]) <= L + 1
          /\ (snapAt[t] + Len(sent[t]) + 1 .. L) \cup {L + 1} = snapAt[t] + Len(sent[t]) + 1 .. L + 1
      <4>1. snapAt[t] \in Nat /\ L \in Nat
        BY <1>1, <1>4, Zenon
      <4> HIDE DEF L
      <4> QED
        BY <2>1, <3>1, <4>1, OneMore
    <3> QED
      BY <2>2, <3>2, Zenon
  <2> QED
    BY <1>1, <1>5, <2>3, Zenon DEF Meets
<1>6. snapAt[t] <= Len(log')
  BY <1>1, <1>4
<1> QED
  BY <1>1, <1>4, <1>5, <1>6, Zenon DEF JoinAt

\* The agent handles a SYNC: the slave that waits from now on is to be sent
\* what lies behind it, and was sent nothing.
LEMMA SyncKeepsJoin ==
  ASSUME JoinInv, CutInv, OrderInv, TableInv, AskInv, AgentSync, \A t \in Slaves : Keeps(t)
  PROVE  JoinInv'
<1> DEFINE by == Head(global_cache).by
<1>0. join' = [join EXCEPT ![by] = IF state = "FULL_SYNC" \/ by \in open
                                      THEN "overlap" ELSE "waits"]
  BY Zenon DEF AgentSync
<1>1. /\ state' = "FULL_SYNC" /\ ~flushing
      /\ UNCHANGED <<log, snapAt, ring, fullsync_cache, table, sent, pc, toSlave, lost, existing>>
  BY Zenon DEF AgentSync, Record, masterVars, captureVars
<1>2. /\ global_cache # <<>> /\ global_cache' = Tail(global_cache)
      /\ Head(global_cache).cmd = "SYNC" /\ DOMAIN join = Slaves
  BY Zenon DEF AgentSync, Record, AskInv
<1>3. Numbers(global_cache') = Numbers(global_cache) /\ Unsent' = Unsent
  <2>1. Numbers(global_cache') = Numbers(global_cache)
    BY <1>2, TailEvent, Zenon DEF OrderInv
  <2> QED
    BY <1>1, <2>1, Zenon DEF Unsent
<1> SUFFICES ASSUME NEW t \in Slaves PROVE JoinAt(t)'
  BY <1>1 DEF JoinInv
<1>4. /\ snapAt[t] <= Len(log)
      /\ Sure(t)' /\ join[t] \in {"waits", "exact"} => Meets(t)
      /\ join[t] = "waits" /\ ~Doomed(t)' => sent[t] = <<>>
      /\ join[t] = "exact" /\ pc'[t] # "dead" => t \in InTable'
      /\ sent[t] # <<>> /\ pc'[t] # "dead" => t \in InTable'
  BY Zenon DEF JoinInv, JoinAt, Keeps
<1>5. Meets(t) => Meets(t)'
  BY <1>1, <1>3, Zenon DEF Meets
<1>6. CASE join'[t] = join[t]
  BY <1>1, <1>4, <1>5, <1>6, Zenon DEF JoinAt
<1>7. CASE join'[t] # join[t]
  <2>1. /\ by = t /\ join'[t] = IF state = "FULL_SYNC" \/ t \in open THEN "overlap" ELSE "waits"
    BY <1>0, <1>2, <1>7, Zenon
  <2>2. CASE state = "FULL_SYNC" \/ t \in open
    <3>1. join'[t] \notin {"waits", "exact"}
      BY <2>1, <2>2, Zenon
    <3> QED
      BY <1>1, <1>4, <3>1, Zenon DEF JoinAt
  <2>3. CASE state # "FULL_SYNC" /\ t \notin open
    <3>1. join'[t] = "waits"
      BY <2>1, <2>3, Zenon
    <3>2. ~Doomed(t)' => sent[t] = <<>>
      <4>1. pc'[t] # "dead" => t \notin InTable
        BY <2>3, Zenon DEF TableInv
      <4>2. ~Doomed(t)' => pc'[t] # "dead" /\ pc[t] # "dead"
        BY <1>1, Zenon DEF Doomed
      <4> QED
        BY <4>1, <4>2, Zenon DEF JoinInv, JoinAt
    <3>3. ASSUME Sure(t)' PROVE Meets(t)'
      <4>1. Sure(t) /\ sent[t] = <<>>
        BY <3>2, <3>3, Zenon DEF Keeps, Sure
      <4>2. SyncOf(global_cache[1], t) /\ 1 \in 1 .. Len(global_cache)
        BY <1>2, <2>1 DEF SyncOf, OrderInv
      <4>3. Following(global_cache, 1) \cup Numbers(ring) = Missing(t)
        BY <4>1, <4>2, Zenon DEF CutInv, CutAt
      <4>4. Following(global_cache, 1) = Numbers(global_cache')
        BY <1>2, FollowingTail, Zenon DEF OrderInv
      <4>5. Elements(fullsync_cache') = {}
        BY <1>1, <2>3, EmptySequences, Zenon DEF OrderInv
      <4>6. Unsent' = snapAt[t] + 1 .. Len(log)
        BY <1>1, <4>3, <4>4, <4>5, Zenon DEF Unsent, Missing
      <4>7. Len(sent[t]) = 0 /\ sent[t] = [i \in 1 .. Len(sent[t]) |-> snapAt[t] + i]
        BY <4>1
      <4>8. snapAt[t] + 0 = snapAt[t]
        BY DEF JoinInv
      <4> QED
        BY <1>1, <1>4, <4>6, <4>7, <4>8, Zenon DEF Meets
    <3> QED
      BY <1>1, <1>4, <3>1, <3>2, <3>3, Zenon DEF JoinAt
  <2> QED
    BY <2>2, <2>3, Zenon
<1> QED
  BY <1>6, <1>7, Zenon

\* The agent handles FINISHED or ERROR: who waited is exact or missed.
LEMMA FinishedKeepsJoin ==
  ASSUME JoinInv, OrderInv, AgentFinished, \A t \in Slaves : Keeps(t)
  PROVE  JoinInv'
<1>1. /\ UNCHANGED <<log, snapAt, ring, fullsync_cache, table, sent, pc>>
      /\ global_cache # <<>> /\ global_cache' = Tail(global_cache)
      /\ Head(global_cache).cmd \in {"FINISHED", "ERROR"}
  BY Zenon DEF AgentFinished, Record, masterVars, captureVars
<1>2. Unsent' = Unsent /\ InTable' = InTable
  <2>1. Numbers(global_cache') = Numbers(global_cache)
    BY <1>1, TailEvent, Zenon DEF OrderInv
  <2> QED
    BY <1>1, <2>1, Zenon DEF Unsent, InTable
<1> SUFFICES ASSUME NEW t \in Slaves PROVE JoinAt(t)'
  BY <1>1 DEF JoinInv
<1>3. /\ snapAt[t] <= Len(log)
      /\ Sure(t)' /\ join[t] \in {"waits", "exact"} => Meets(t)
      /\ join[t] = "waits" => state = "FULL_SYNC"
      /\ join[t] = "waits" /\ ~Doomed(t)' => sent[t] = <<>>
      /\ join[t] = "exact" /\ pc'[t] # "dead" => t \in InTable'
      /\ sent[t] # <<>> /\ pc'[t] # "dead" => t \in InTable'
  BY Zenon DEF JoinInv, JoinAt, Keeps
<1>4. Meets(t) => Meets(t)'
  BY <1>1, <1>2, Zenon DEF Meets
<1>5. CASE state = "FULL_SYNC"
  <2>1. join'[t] = IF join[t] # "waits" THEN join[t] ELSE IF t \in InTable THEN "exact" ELSE "missed"
    BY <1>5, Zenon DEF AgentFinished
  <2>2. /\ join'[t] # "waits"
        /\ join'[t] = "exact" => join[t] \in {"waits", "exact"} /\ (join[t] = "exact" \/ t \in InTable)
    BY <2>1, Zenon
  <2> QED
    BY <1>1, <1>2, <1>3, <1>4, <2>2, Zenon DEF JoinAt
<1>6. CASE state # "FULL_SYNC"
  <2>1. join' = join /\ state' = state
    BY <1>6 DEF AgentFinished
  <2> QED
    BY <1>1, <1>3, <1>4, <2>1, Zenon DEF JoinAt
<1> QED
  BY <1>5, <1>6, Zenon

\* kvs_agent_send of the oldest write that is unsent, when no slave waits.
LEMMA SendKeepsJoin ==
  ASSUME JoinInv, OrderInv, TableInv, NEW n \in Nat, kvs_agent_send(n), state # "FULL_SYNC",
         UNCHANGED <<log, snapAt, join, state, pc>>,
         Below({n}, Unsent'), Unsent' \cup {n} = Unsent, \A t \in Slaves : Keeps(t)
  PROVE  JoinInv'
<1>1. /\ \A t \in Reached : t \in Slaves /\ sent'[t] = Append(sent[t], n)
      /\ \A t \in Slaves \ Reached : sent'[t] = sent[t]
  BY Zenon DEF kvs_agent_send, Reached, TableInv
<1> SUFFICES ASSUME NEW t \in Slaves PROVE JoinAt(t)'
  BY Zenon DEF JoinInv
<1>2. /\ snapAt[t] <= Len(log) /\ join[t] # "waits"
      /\ Sure(t)' /\ join[t] = "exact" => Meets(t)
      /\ join[t] = "exact" /\ pc[t] # "dead" => t \in InTable
      /\ sent[t] # <<>> /\ pc[t] # "dead" => t \in InTable
      /\ pc[t] # "dead" => (t \in InTable => t \in InTable')
  BY Zenon DEF JoinInv, JoinAt, Keeps
<1>3. ASSUME Sure(t)', join[t] = "exact" PROVE Meets(t)'
  <2>1. pc[t] # "dead"
    BY <1>3, Zenon DEF Sure, Doomed
  <2>2. sent'[t] = Append(sent[t], n) /\ Meets(t)
    BY <1>1, <1>2, <1>3, <2>1, Zenon DEF Reached
  <2> DEFINE a == snapAt[t] + Len(sent[t])
  <2>3. /\ a \in Nat /\ Len(log) \in Nat /\ Len(sent[t]) \in Nat /\ snapAt[t] \in Nat
        /\ sent[t] \in Seq(Nat)
    BY DEF OrderInv, JoinInv
  <2>4. Unsent' \cup {n} = a + 1 .. Len(log)
    BY <2>2, Zenon DEF Meets
  <2>5. n = a + 1 /\ n <= Len(log) /\ Unsent' = n + 1 .. Len(log)
    <3> HIDE DEF a
    <3> QED
      BY <2>3, <2>4, FirstOfRange, Zenon
  <2>6. n = snapAt[t] + (Len(sent[t]) + 1)
    <3>1. \A x, y \in Nat : x + y + 1 = x + (y + 1)
      OBVIOUS
    <3> QED
      BY <2>3, <2>5, <3>1, Zenon
  <2>7. /\ Len(sent'[t]) = Len(sent[t]) + 1
        /\ sent'[t] = [i \in 1 .. Len(sent'[t]) |-> snapAt[t] + i]
    <3>1. /\ Len(sent'[t]) = Len(sent[t]) + 1 /\ sent'[t] \in Seq(Nat)
          /\ \A i \in 1 .. Len(sent[t]) : sent'[t][i] = sent[t][i]
          /\ sent'[t][Len(sent[t]) + 1] = n
      <4>1. n \in Nat
        BY <2>3, <2>5
      <4> DEFINE q == sent[t]
      <4>2. q \in Seq(Nat) /\ sent'[t] = Append(q, n)
        BY <2>2, <2>3, Zenon
      <4>3. /\ Len(Append(q, n)) = Len(q) + 1 /\ Append(q, n) \in Seq(Nat)
            /\ \A i \in 1 .. Len(q) : Append(q, n)[i] = q[i]
            /\ Append(q, n)[Len(q) + 1] = n
        <5> HIDE DEF q
        <5> QED BY <4>1, <4>2, LongerNumbers, Zenon
      <4> QED
        BY <4>2, <4>3, Zenon
    <3>2. \A i \in 1 .. Len(sent[t]) : sent[t][i] = snapAt[t] + i
      BY <2>2, Zenon DEF Meets
    <3>3. ASSUME NEW i \in 1 .. Len(sent'[t]) PROVE sent'[t][i] = snapAt[t] + i
      <4>1. i \in 1 .. Len(sent[t]) \/ i = Len(sent[t]) + 1
        BY <2>3, <3>1
      <4>2. CASE i \in 1 .. Len(sent[t])
        BY <3>1, <3>2, <4>2, Zenon
      <4>3. CASE i = Len(sent[t]) + 1
        BY <2>6, <3>1, <4>3, Zenon
      <4> QED
        BY <4>1, <4>2, <4>3, Zenon
    <3>4. sent'[t] = [i \in 1 .. Len(sent'[t]) |-> sent'[t][i]]
      BY <3>1
    <3> QED
      BY <3>1, <3>3, <3>4, Zenon
  <2>8. snapAt[t] + Len(sent'[t]) = n
    BY <2>6, <2>7, Zenon
  <2> QED
    BY <2>5, <2>7, <2>8, Zenon DEF Meets
<1>4. sent'[t] # <<>> /\ pc[t] # "dead" => t \in InTable'
  BY <1>1, <1>2, Zenon DEF Reached
<1> QED
  BY <1>2, <1>3, <1>4, Zenon DEF JoinAt

\* A write is held back, refused by a full cache, or sent.
LEMMA AgentWriteKeepsJoin ==
  ASSUME JoinInv, OrderInv, TableInv, AgentWrite, \A t \in Slaves : Keeps(t)
  PROVE  JoinInv'
<1> DEFINE n == Head(global_cache).n
<1>1. /\ global_cache # <<>> /\ global_cache' = Tail(global_cache)
      /\ Head(global_cache).cmd = "WRITE" /\ ~flushing
      /\ UNCHANGED <<log, snapAt, ring, pc, state, join>>
  BY Zenon DEF AgentWrite, Record, masterVars, captureVars
<1>2. /\ n \in Nat /\ Below({n}, Numbers(global_cache')) /\ n \in Numbers(global_cache)
      /\ Numbers(global_cache) = Numbers(global_cache') \cup {n}
  <2>1. /\ Head(global_cache) \in AnyEvent
        /\ n \in Numbers(global_cache) /\ Below({n}, Numbers(global_cache'))
        /\ Numbers(global_cache) = Numbers(global_cache') \cup {n}
    BY <1>1, TailEvent, Zenon DEF OrderInv
  <2> QED
    BY <2>1, Zenon DEF AnyEvent
<1>3. CASE state = "FULL_SYNC" /\ Len(fullsync_cache) < HoldMax
  <2>1. UNCHANGED sent /\ fullsync_cache' = Append(fullsync_cache, n)
    BY <1>3, Zenon DEF AgentWrite, n
  <2>2. Below(Elements(fullsync_cache), {n})
    BY <1>2, Zenon DEF OrderInv, Below
  <2>3. Elements(fullsync_cache') = Elements(fullsync_cache) \cup {n}
    BY <1>2, <2>1, <2>2, AppendNumber, Zenon DEF OrderInv
  <2>4. Unsent' = Unsent
    BY <1>1, <1>2, <2>3, Zenon DEF Unsent
  <2> QED
    BY <1>1, <2>1, <2>4, QuietKeepsJoin, Zenon DEF JoinInv
<1>4. CASE state = "FULL_SYNC" /\ ~(Len(fullsync_cache) < HoldMax)
  <2>1. UNCHANGED sent /\ existing' = TRUE
    BY <1>4, Zenon DEF AgentWrite
  <2>2. \A t \in Slaves : ~Sure(t)'
    BY <2>1, Zenon DEF Sure
  <2> QED
    BY <1>1, <2>1, <2>2, QuietKeepsJoin, Zenon DEF JoinInv
<1>5. CASE state # "FULL_SYNC"
  <2>1. kvs_agent_send(n) /\ UNCHANGED fullsync_cache
    BY <1>5, Zenon DEF AgentWrite, n
  <2>2. Elements(fullsync_cache) = {} /\ Elements(fullsync_cache') = {}
    BY <1>1, <1>5, <2>1, EmptySequences, Zenon DEF OrderInv
  <2>3. Below({n}, Numbers(ring))
    <3>1. Below(Numbers(global_cache), Numbers(ring) \cup {Len(log) + 1})
      BY Zenon DEF OrderInv
    <3> QED
      BY <1>2, <3>1, Zenon DEF Below
  <2>4. Below({n}, Unsent') /\ Unsent' \cup {n} = Unsent
    BY <1>1, <1>2, <2>2, <2>3, Zenon DEF Unsent, Below
  <2> QED
    BY <1>1, <1>2, <1>5, <2>1, <2>4, SendKeepsJoin, Zenon
<1> QED
  BY <1>3, <1>4, <1>5, Zenon

\* The oldest write that was held back is sent.
LEMMA FlushKeepsJoin ==
  ASSUME JoinInv, OrderInv, TableInv, AgentFlush, \A t \in Slaves : Keeps(t)
  PROVE  JoinInv'
<1> DEFINE n == Head(fullsync_cache)
<1>1. /\ fullsync_cache # <<>> /\ state # "FULL_SYNC"
      /\ kvs_agent_send(n) /\ fullsync_cache' = Tail(fullsync_cache)
      /\ UNCHANGED <<log, snapAt, ring, global_cache, pc, state, join>>
  BY DEF AgentFlush, OrderInv, masterVars, captureVars
<1>2. /\ n \in Nat /\ n \in Elements(fullsync_cache) /\ Below({n}, Elements(fullsync_cache'))
      /\ Elements(fullsync_cache) = Elements(fullsync_cache') \cup {n}
  BY <1>1, TailNumber, Zenon DEF OrderInv
<1>3. Below({n}, Numbers(global_cache) \cup Numbers(ring))
  <2>1. Below(Elements(fullsync_cache),
              Numbers(global_cache) \cup Numbers(ring) \cup {Len(log) + 1})
    BY Zenon DEF OrderInv
  <2> QED
    BY <1>2, <2>1, Zenon DEF Below
<1>4. Below({n}, Unsent') /\ Unsent' \cup {n} = Unsent
  BY <1>1, <1>2, <1>3, Zenon DEF Unsent, Below
<1> QED
  BY <1>1, <1>2, <1>4, SendKeepsJoin, Zenon

\* An event that the agent takes over, or whose cache is full, which ends it.
LEMMA EventKeepsJoin ==
  ASSUME JoinInv, OrderInv, HandleEvent, \A t \in Slaves : Keeps(t)
  PROVE  JoinInv'
<1> DEFINE e == Head(ring)
<1>1. /\ ring # <<>> /\ ring' = Tail(ring)
      /\ UNCHANGED <<log, snapAt, sent, join, state, fullsync_cache>>
  BY Zenon DEF HandleEvent, masterVars
<1>2. CASE Len(global_cache) < CacheMax
  <2>1. global_cache' = Append(global_cache, e)
    BY <1>2, Zenon DEF HandleEvent, e
  <2>2. /\ e \in AnyEvent
        /\ e.cmd # "WRITE" => Numbers(ring') = Numbers(ring)
        /\ e.cmd = "WRITE" => e.n \in Numbers(ring) /\ Numbers(ring) = Numbers(ring') \cup {e.n}
    BY <1>1, TailEvent, Zenon DEF OrderInv
  <2>3. e.cmd = "WRITE" => Below(Numbers(global_cache), {e.n})
    BY <2>2, Zenon DEF OrderInv, Below
  <2> HIDE DEF e
  <2>4. Numbers(global_cache') =
          Numbers(global_cache) \cup (IF e.cmd = "WRITE" THEN {e.n} ELSE {})
    BY <2>1, <2>2, <2>3, AppendEvent, Zenon DEF OrderInv
  <2>5. Unsent' = Unsent
    BY <1>1, <2>2, <2>4, Zenon DEF Unsent
  <2> QED
    BY <1>1, <2>5, QuietKeepsJoin, Zenon DEF JoinInv
<1>3. CASE ~(Len(global_cache) < CacheMax)
  <2>1. \A t \in Slaves : ~Sure(t)'
    BY <1>3, Zenon DEF HandleEvent, Sure
  <2> QED
    BY <1>1, <2>1, QuietKeepsJoin, Zenon DEF JoinInv
<1> QED
  BY <1>2, <1>3, Zenon
-----------------------------------------------------------------------------
(* Every step.                                                              *)

\* Only a dead slave leaves the table.
LEMMA TableKeeps ==
  ASSUME AskInv, SyncInv, TableInv, [Next]_vars, NEW t \in InTable, pc[t] # "dead"
  PROVE  t \in InTable'
<1>1. ASSUME NEW gone \in SUBSET Slaves, kvs_slaves_delete(gone), t \notin gone
      PROVE  t \in InTable'
  BY <1>1, DeleteKeepsTable, Zenon
<1>2. CASE UNCHANGED table
  BY <1>2, Zenon DEF InTable
<1>3. ASSUME NEW n, kvs_agent_send(n) PROVE t \in InTable'
  <2>1. PICK gone \in SUBSET (InTable \ {s \in InTable : pc[s] # "dead"}) : kvs_slaves_delete(gone)
    BY <1>3, Zenon DEF kvs_agent_send
  <2>2. gone \in SUBSET Slaves /\ t \notin gone
    BY <2>1, Zenon DEF TableInv
  <2> QED
    BY <1>1, <2>1, <2>2, Zenon
<1>4. CASE ServerAccept
  <2>1. kvs_slaves_insert(Head(backlog)) /\ backlog # <<>>
    BY <1>4, Zenon DEF ServerAccept
  <2>2. Head(backlog) \in Slaves
    BY <2>1 DEF TableInv
  <2> QED
    BY <2>1, <2>2, InsertKeepsOthers, Zenon
<1>5. ASSUME NEW s \in Slaves, ServerClose(s) PROVE t \in InTable'
  <2>1. kvs_slaves_delete({s}) /\ pc[s] = "dead"
    BY <1>5, Zenon DEF ServerClose
  <2> QED
    BY <1>1, <2>1, Zenon
<1>6. ASSUME NEW s \in Slaves, MasterSession(s) PROVE UNCHANGED table
  BY <1>6, MasterSteps, Zenon DEF MasterStep, tableVars
<1>7. ASSUME NEW s \in Slaves, SlaveStart(s) \/ SlaveSync(s) \/ SlaveDies(s)
      PROVE  UNCHANGED table
  BY <1>7, Zenon DEF SlaveStart, SlaveSync, SlaveReply, SlaveLoad, SlaveCutOff, SlaveConnect,
     SlaveFinished, SlaveExec, SlaveDies, tableVars
<1>8. CASE UNCHANGED vars \/ HandleEvent \/ \E w \in Writes : ClientWrite(w)
  <2>1. UNCHANGED table
    BY <1>8, Zenon DEF vars, HandleEvent, ClientWrite, tableVars
  <2> QED
    BY <1>2, <2>1, Zenon
<1>9. CASE AgentThread
  <2>1. UNCHANGED table \/ \E n : kvs_agent_send(n)
    BY <1>9, Zenon DEF AgentThread, AgentSync, AgentFinished, AgentWrite, AgentOther, AgentFlush
  <2> QED
    BY <1>2, <1>3, <2>1, Zenon
<1> QED
  BY <1>2, <1>4, <1>5, <1>6, <1>7, <1>8, <1>9, Zenon DEF Next

LEMMA StepKeeps ==
  ASSUME AskInv, SyncInv, OrderInv, TableInv, [Next]_vars, NEW t \in Slaves
  PROVE  Keeps(t)
<1>1. Doomed(t) => Doomed(t)'
  BY DoomedStays, Zenon
<1>2. Sure(t)' => Sure(t)
  BY <1>1, LossStays, Zenon DEF Sure
<1>3. pc'[t] # "dead" => pc[t] # "dead" /\ (t \in InTable => t \in InTable')
  BY LossStays, TableKeeps, Zenon
<1> QED
  BY <1>1, <1>2, <1>3, Zenon DEF Keeps

LEMMA JoinInvNext ==
  ASSUME AskInv, SyncInv, OrderInv, TableInv, CutInv, JoinInv, [Next]_vars
  PROVE  JoinInv'
<1>1. \A t \in Slaves : Keeps(t)
  BY StepKeeps, Zenon
<1>2. ASSUME UNCHANGED <<log, snapAt, sent, join, state, fullsync_cache, global_cache, ring>>
      PROVE  JoinInv'
  <2>1. Unsent' = Unsent /\ snapAt' \in [Slaves -> Nat]
    BY <1>2, Zenon DEF Unsent, JoinInv
  <2> QED
    BY <1>1, <1>2, <2>1, QuietKeepsJoin, Zenon
<1>3. CASE UNCHANGED vars \/ ServerAccept \/ \E s \in Slaves : ServerClose(s)
  <2>1. UNCHANGED <<log, snapAt, sent, join, state, fullsync_cache, global_cache, ring>>
    BY <1>3, Zenon DEF vars, ServerAccept, ServerClose, masterVars, captureVars, agentVars
  <2> QED
    BY <1>2, <2>1, Zenon
<1>4. CASE \E w \in Writes : ClientWrite(w)
  BY <1>1, <1>4, WriteKeepsJoin, Zenon
<1>5. ASSUME NEW s \in Slaves, MasterSession(s) PROVE JoinInv'
  <2>1. UNCHANGED <<log, sent, join, state, fullsync_cache, global_cache>>
    BY <1>5, MasterSteps, Zenon DEF MasterStep, agentVars
  <2>2. /\ \/ UNCHANGED ring
           \/ \E msg \in {"SYNC", "READY", "ERROR", "FINISHED"} :
                ring' = Append(ring, [cmd |-> msg, n |-> 0, by |-> s])
    <3>1. \/ \E msg \in {"SYNC", "READY", "ERROR", "FINISHED"} : Received(s, msg)
          \/ UNCHANGED captureVars
      BY <1>5, MasterSteps, Zenon DEF MasterStep
    <3> QED
      BY <3>1, Zenon DEF Received, Capture, captureVars
  <2>3. Numbers(ring') = Numbers(ring)
    <3>1. ASSUME NEW msg \in {"SYNC", "READY", "ERROR", "FINISHED"},
                 ring' = Append(ring, [cmd |-> msg, n |-> 0, by |-> s])
          PROVE  Numbers(ring') = Numbers(ring)
      <4> DEFINE e == [cmd |-> msg, n |-> 0, by |-> s]
      <4>1. e \in AnyEvent /\ e.cmd # "WRITE" /\ ring' = Append(ring, e)
        BY <3>1, Zenon DEF AnyEvent
      <4>2. Numbers(ring) \cup {} = Numbers(ring)
        BY Zenon
      <4> HIDE DEF e
      <4> QED
        BY <4>1, <4>2, AppendEvent, Zenon DEF OrderInv
    <3> QED
      BY <2>2, <3>1, Zenon
  <2>4. Unsent' = Unsent
    BY <2>1, <2>3, Zenon DEF Unsent
  <2>5. /\ snapAt' \in [Slaves -> Nat]
        /\ \A t \in Slaves : snapAt'[t] = snapAt[t] \/ (snapAt'[t] <= Len(log) /\ join[t] = "none")
    <3>1. snapAt \in [Slaves -> Nat] /\ Len(log) \in Nat
      BY LogLength, Zenon DEF JoinInv, OrderInv
    <3>2. \/ UNCHANGED snapAt
          \/ Unseen(s) /\ snapAt' = [snapAt EXCEPT ![s] = Len(log)]
      BY <1>5, MasterCuts, Zenon
    <3> QED
      BY <3>1, <3>2 DEF Unseen
  <2> QED
    BY <1>1, <2>1, <2>4, <2>5, QuietKeepsJoin, Zenon
<1>6. ASSUME NEW s \in Slaves, SlaveStart(s) \/ SlaveSync(s) \/ SlaveDies(s) PROVE JoinInv'
  <2>1. UNCHANGED <<log, snapAt, sent, join, state, fullsync_cache, global_cache, ring>>
    BY <1>6, Zenon DEF SlaveStart, SlaveSync, SlaveReply, SlaveLoad, SlaveCutOff, SlaveConnect,
       SlaveFinished, SlaveExec, SlaveDies, masterVars, captureVars, agentVars
  <2> QED
    BY <1>2, <2>1, Zenon
<1>7. CASE HandleEvent
  BY <1>1, <1>7, EventKeepsJoin, Zenon
<1>8. CASE AgentSync \/ AgentFinished
  BY <1>1, <1>8, SyncKeepsJoin, FinishedKeepsJoin, Zenon
<1>9. CASE AgentWrite \/ AgentFlush
  BY <1>1, <1>9, AgentWriteKeepsJoin, FlushKeepsJoin, Zenon
<1>10. CASE AgentOther
  <2>1. /\ global_cache # <<>> /\ global_cache' = Tail(global_cache)
        /\ Head(global_cache).cmd # "WRITE"
        /\ UNCHANGED <<log, snapAt, sent, join, state, fullsync_cache, ring>>
    BY <1>10, Zenon DEF AgentOther, Record, masterVars, captureVars
  <2>2. Numbers(global_cache') = Numbers(global_cache)
    BY <2>1, TailEvent, Zenon DEF OrderInv
  <2>3. Unsent' = Unsent /\ snapAt' \in [Slaves -> Nat]
    BY <2>1, <2>2, Zenon DEF Unsent, JoinInv
  <2> QED
    BY <1>1, <2>1, <2>3, QuietKeepsJoin, Zenon
<1> QED
  BY <1>3, <1>4, <1>5, <1>6, <1>7, <1>8, <1>9, <1>10, Zenon DEF Next, AgentThread

\* A slave that the agent serves completely was sent exactly what its snapshot
\* does not have, in order, and the rest of it is still to be sent: whatever
\* the interleaving of the fork in kvs_sync.c, the events of the BPF program
\* and the threads of the agent, for any number of slaves and writes and any
\* size of the table and the buffers.
THEOREM StreamAlwaysMeetsSnapshot == Spec => []StreamMeetsSnapshot
<1>1. TableInv /\ JoinInv => StreamMeetsSnapshot
  <2> SUFFICES ASSUME TableInv, JoinInv, NEW s \in Slaves, Served(s)
               PROVE  /\ sent[s] = [i \in 1 .. Len(sent[s]) |-> snapAt[s] + i]
                      /\ Unsent = snapAt[s] + Len(sent[s]) + 1 .. Len(log)
    BY Zenon DEF StreamMeetsSnapshot
  <2>1. s \in InTable /\ join[s] = "exact" /\ pc[s] # "dead" /\ ~lost /\ ~existing
    BY Zenon DEF JoinInv, JoinAt, Served
  <2>2. pc[s] \in {"connected", "running"}
    BY <2>1, Zenon DEF TableInv, Connected
  <2>3. Sure(s)
    BY <2>1, <2>2, Zenon DEF Sure, Doomed
  <2> QED
    BY <2>1, <2>3, Zenon DEF JoinInv, JoinAt, Meets
<1>2. AskInv /\ SyncInv /\ OrderInv /\ TableInv /\ CutInv /\ JoinInv /\ [Next]_vars
        => CutInv' /\ JoinInv'
  <2>1. JoinInv => SnapInLog
    BY Zenon DEF JoinInv, JoinAt, SnapInLog
  <2> QED
    BY <2>1, CutInvNext, JoinInvNext, Zenon
<1>3. OrderInv => EventInv
  BY DEF OrderInv, EventInv
<1> QED
  BY <1>1, <1>2, <1>3, SyncInvInit, SyncInvNext, TableInvInit, TableInvNext, OrderInvInit,
     OrderInvNext, AskInvInit, AskInvNext, CutInit, JoinInit, PTL DEF Spec
=============================================================================
