---------------------------- MODULE Replication -----------------------------
(***************************************************************************)
(* Master, agent and slaves of kvs-module/kvs_sync.c and kvs-ebpf.          *)
(*                                                                         *)
(* A slave sends SYNC; the master forks a child that writes a snapshot,     *)
(* sends it, and the slave loads it, connects to the agent and tells the    *)
(* master FULLSYNC FINISHED.  The agent sees what the master receives (the  *)
(* BPF program copies every recv into a ring buffer), holds the writes back *)
(* while a full synchronisation runs, and otherwise sends them to the       *)
(* connections of its table.  The master is single-threaded and switches    *)
(* coroutines where it blocks; the agent has three threads: the one that    *)
(* polls the ring buffer, the one that handles records and the one that     *)
(* accepts slaves.  One recv stands for one whole command.                  *)
(***************************************************************************)
EXTENDS FiniteSets, KvStore

CONSTANTS Slaves,       \* slave processes; a restarted slave is another one
          Writes,       \* the write commands clients send
          TableSize,    \* MAX_SLAVE_COUNT
          RingMax,      \* records the BPF ring buffer holds
          CacheMax,     \* records global_agent_cache holds
          HoldMax,      \* records fullsync_cache holds
          MaxWrites,    \* bound: client writes
          MaxCrashes    \* bound: slaves that die

ASSUME ReplicationAssumption ==
  /\ Writes \subseteq WriteCommands
  /\ {TableSize, RingMax, CacheMax, HoldMax} \subseteq Nat \ {0}
  /\ NONE \notin Slaves

VARIABLES
  store, log,            \* the master's data; history: the writes it received
  is_full_sync, session, \* the master's coroutine for each slave connection
  snapshot, snapAt,      \* the file the child writes; history: its place in log
  toMaster, toSlave,     \* the connection between the master and each slave
  ring, lost,            \* the BPF ring buffer; history: an event was dropped
  global_cache, existing,
  state, fullsync_cache, flushing,   \* agent_info, and kvs_agent_send_cache
  table, total, backlog, open,       \* kvs_slaves and the server thread
  pc, data, stream,      \* each slave, its data, what the agent sent it
  sent, join             \* history: writes sent to each slave; how it joined

masterVars == <<store, log, is_full_sync, session, snapshot, snapAt>>
captureVars == <<ring, lost>>
agentVars == <<global_cache, existing, state, fullsync_cache, flushing>>
tableVars == <<table, total, backlog, open>>
slaveVars == <<pc, data, stream>>
vars == <<masterVars, toMaster, toSlave, captureVars, agentVars, tableVars,
          slaveVars, sent, join>>

Init ==
  /\ store = Empty /\ log = <<>>
  /\ is_full_sync = FALSE /\ session = [s \in Slaves |-> "closed"]
  /\ snapshot = [s \in Slaves |-> Empty] /\ snapAt = [s \in Slaves |-> 0]
  /\ toMaster = [s \in Slaves |-> <<>>] /\ toSlave = [s \in Slaves |-> <<>>]
  /\ ring = <<>> /\ lost = FALSE
  /\ global_cache = <<>> /\ existing = FALSE
  /\ state = "UNKNOWN" /\ fullsync_cache = <<>> /\ flushing = FALSE
  /\ table = [i \in 1 .. TableSize |-> NONE] /\ total = 0
  /\ backlog = <<>> /\ open = {}
  /\ pc = [s \in Slaves |-> "init"] /\ data = [s \in Slaves |-> Empty]
  /\ stream = [s \in Slaves |-> <<>>]
  /\ sent = [s \in Slaves |-> <<>>] /\ join = [s \in Slaves |-> "none"]
-----------------------------------------------------------------------------
(* The BPF program: each recv of the master becomes an event, unless the    *)
(* ring buffer is full.  n numbers the writes; by is history.               *)
Capture(cmd, n, by) ==
  IF Len(ring) < RingMax
  THEN /\ ring' = Append(ring, [cmd |-> cmd, n |-> n, by |-> by])
       /\ UNCHANGED lost
  ELSE ring' = ring /\ lost' = TRUE

Received(s, msg) ==
  /\ toMaster[s] # <<>> /\ Head(toMaster[s]) = msg
  /\ toMaster' = [toMaster EXCEPT ![s] = Tail(@)]
  /\ Capture(msg, 0, s)

\* The slave closed its end and everything it sent was read.
PeerGone(s) == pc[s] \in {"running", "failed", "dead"} /\ toMaster[s] = <<>>

Tell(s, msg) == toSlave' = [toSlave EXCEPT ![s] = Append(@, msg)]

ClientWrite(w) ==
  /\ Len(log) < MaxWrites
  /\ log' = Append(log, w)
  /\ store' = Exec(store, w)
  /\ Capture("WRITE", Len(log) + 1, NONE)
  /\ UNCHANGED <<is_full_sync, session, snapshot, snapAt, toMaster, toSlave,
                 agentVars, tableVars, slaveVars, sent, join>>

(* kvs_master_full_sync: the start, up to the wait for the child.           *)
MasterBusy(s) ==
  /\ session[s] = "reader" /\ Received(s, "SYNC")
  /\ is_full_sync
  /\ Tell(s, "BUSY")
  /\ UNCHANGED <<masterVars, agentVars, tableVars, slaveVars, sent, join>>

\* Mutant: is_full_sync is not tested.
ForkWithoutTest(s) ==
  /\ session[s] = "reader" /\ Received(s, "SYNC")
  /\ is_full_sync' = TRUE
  /\ session' = [session EXCEPT ![s] = "child"]
  /\ snapshot' = [snapshot EXCEPT ![s] = store]
  /\ snapAt' = [snapAt EXCEPT ![s] = Len(log)]
  /\ UNCHANGED <<store, log, toSlave, agentVars, tableVars, slaveVars, sent, join>>

MasterFork(s) ==
  /\ session[s] = "reader" /\ Received(s, "SYNC")
  /\ ~is_full_sync
  /\ is_full_sync' = TRUE
  /\ session' = [session EXCEPT ![s] = "child"]
  /\ snapshot' = [snapshot EXCEPT ![s] = store]
  /\ snapAt' = [snapAt EXCEPT ![s] = Len(log)]
  /\ UNCHANGED <<store, log, toSlave, agentVars, tableVars, slaveVars, sent, join>>

\* cleanup: the flag is reset, a failure before FULLSYNC OK is reported, and
\* a failure closes the connection.
EndSync(s, next) ==
  /\ is_full_sync' = FALSE
  /\ session' = [session EXCEPT ![s] = next]
  /\ UNCHANGED <<store, log, snapshot, snapAt>>

MasterForkFails(s) ==
  /\ session[s] = "reader" /\ Received(s, "SYNC")
  /\ ~is_full_sync
  /\ Tell(s, "ERROR") /\ EndSync(s, "closed")
  /\ UNCHANGED <<agentVars, tableVars, slaveVars, sent, join>>

\* The child is done: FULLSYNC OK with the size, and READY is awaited unless
\* the file is empty.
MasterNotify(s) ==
  /\ session[s] = "child"
  /\ IF snapshot[s] = Empty
     THEN Tell(s, "OK 0") /\ EndSync(s, "reader")
     ELSE /\ Tell(s, "OK")
          /\ session' = [session EXCEPT ![s] = "ready"]
          /\ UNCHANGED <<store, log, is_full_sync, snapshot, snapAt>>
  /\ UNCHANGED <<toMaster, captureVars, agentVars, tableVars, slaveVars, sent, join>>

\* The child failed, or FULLSYNC OK could not be sent.
MasterChildFails(s) ==
  /\ session[s] = "child"
  /\ Tell(s, "ERROR") /\ EndSync(s, "closed")
  /\ UNCHANGED <<toMaster, captureVars, agentVars, tableVars, slaveVars, sent, join>>

\* sendfile does not yield; when it stops early the connection is closed.
MasterSendFile(s) ==
  /\ session[s] = "ready" /\ Received(s, "READY")
  /\ \/ Tell(s, "FILE") /\ EndSync(s, "reader")
     \/ UNCHANGED toSlave /\ EndSync(s, "closed")
  /\ UNCHANGED <<agentVars, tableVars, slaveVars, sent, join>>

MasterNotReady(s) ==
  /\ session[s] = "ready"
  /\ \/ Received(s, "ERROR")
     \/ PeerGone(s) /\ UNCHANGED <<toMaster, captureVars>>
  /\ Tell(s, "ERROR") /\ EndSync(s, "closed")
  /\ UNCHANGED <<agentVars, tableVars, slaveVars, sent, join>>

\* server_reader of the master: FINISHED and ERROR do nothing to the master.
MasterReads(s) ==
  /\ session[s] = "reader"
  /\ \/ /\ \E msg \in {"FINISHED", "ERROR"} : Received(s, msg)
        /\ UNCHANGED session
     \/ /\ PeerGone(s)
        /\ session' = [session EXCEPT ![s] = "closed"]
        /\ UNCHANGED <<toMaster, captureVars>>
  /\ UNCHANGED <<store, log, is_full_sync, snapshot, snapAt, toSlave, agentVars,
                 tableVars, slaveVars, sent, join>>
-----------------------------------------------------------------------------
(* kvs_slave_sync.                                                          *)
Goes(s, next) == pc' = [pc EXCEPT ![s] = next]

Send(s, msg) == toMaster' = [toMaster EXCEPT ![s] = Append(@, msg)]

SlaveStart(s) ==
  /\ pc[s] = "init" /\ Goes(s, "sync")
  /\ Send(s, "SYNC")
  /\ session' = [session EXCEPT ![s] = "reader"]
  /\ UNCHANGED <<store, log, is_full_sync, snapshot, snapAt, toSlave, captureVars,
                 agentVars, tableVars, data, stream, sent, join>>

\* The reply to SYNC.  BUSY and ERROR end the attempt and nothing is sent; a
\* failed allocation sends FULLSYNC ERROR in place of READY.
SlaveReply(s) ==
  /\ pc[s] = "sync" /\ toSlave[s] # <<>>
  /\ toSlave' = [toSlave EXCEPT ![s] = Tail(@)]
  /\ LET msg == Head(toSlave[s])
     IN \/ msg \in {"BUSY", "ERROR"} /\ Goes(s, "failed") /\ UNCHANGED toMaster
        \/ msg = "OK 0" /\ Goes(s, "synced") /\ UNCHANGED toMaster
        \/ msg = "OK" /\ Goes(s, "ready") /\ Send(s, "READY")
        \/ msg = "OK" /\ Goes(s, "failed") /\ Send(s, "ERROR")
  /\ UNCHANGED <<masterVars, captureVars, agentVars, tableVars, data, stream,
                 sent, join>>

SlaveLoad(s) ==
  /\ pc[s] = "ready" /\ toSlave[s] # <<>>
  /\ toSlave' = [toSlave EXCEPT ![s] = Tail(@)]
  /\ data' = [data EXCEPT ![s] = Load(@, snapshot[s])]
  /\ Goes(s, "synced")
  /\ UNCHANGED <<masterVars, toMaster, captureVars, agentVars, tableVars, stream,
                 sent, join>>

\* The master closed the connection: FULLSYNC ERROR goes nowhere.
SlaveCutOff(s) ==
  /\ pc[s] \in {"sync", "ready"} /\ toSlave[s] = <<>> /\ session[s] = "closed"
  /\ Goes(s, "failed")
  /\ UNCHANGED <<masterVars, toMaster, toSlave, captureVars, agentVars, tableVars,
                 data, stream, sent, join>>

\* connect returns once the kernel has queued the connection.
SlaveConnect(s) ==
  /\ pc[s] = "synced"
  /\ \/ ~existing /\ backlog' = Append(backlog, s) /\ Goes(s, "connected")
     \/ UNCHANGED backlog /\ Goes(s, "failed")
  /\ UNCHANGED <<masterVars, toMaster, toSlave, captureVars, agentVars, table,
                 total, open, data, stream, sent, join>>

SlaveFinished(s) ==
  /\ pc[s] = "connected" /\ Goes(s, "running")
  /\ Send(s, "FINISHED")
  /\ UNCHANGED <<masterVars, toSlave, captureVars, agentVars, tableVars, data,
                 stream, sent, join>>

SlaveExec(s) ==
  /\ pc[s] = "running" /\ stream[s] # <<>>
  /\ data' = [data EXCEPT ![s] = Exec(@, log[Head(stream[s])])]
  /\ stream' = [stream EXCEPT ![s] = Tail(@)]
  /\ UNCHANGED <<masterVars, toMaster, toSlave, captureVars, agentVars, tableVars,
                 pc, sent, join>>

SlaveDies(s) ==
  /\ pc[s] \notin {"init", "dead"}
  /\ Cardinality({t \in Slaves : pc[t] = "dead"}) < MaxCrashes
  /\ Goes(s, "dead")
  /\ UNCHANGED <<masterVars, toMaster, toSlave, captureVars, agentVars, tableVars,
                 data, stream, sent, join>>
-----------------------------------------------------------------------------
(* The agent: the thread that polls the ring buffer.                        *)

HandleEvent ==
  /\ ~existing /\ ring # <<>>
  /\ ring' = Tail(ring)
  /\ IF Len(global_cache) < CacheMax
     THEN global_cache' = Append(global_cache, Head(ring)) /\ UNCHANGED existing
     ELSE existing' = TRUE /\ UNCHANGED global_cache
  /\ UNCHANGED <<masterVars, toMaster, toSlave, lost, state, fullsync_cache,
                 flushing, tableVars, slaveVars, sent, join>>

(* kvs_slaves_insert and kvs_slaves_delete.                                 *)
InTable == {table[i] : i \in 1 .. TableSize} \ {NONE}

kvs_slaves_insert(s) ==
  IF total = TableSize THEN UNCHANGED <<table, total>>
  ELSE LET free == CHOOSE i \in 1 .. TableSize :
                     table[i] = NONE /\ \A j \in 1 .. i - 1 : table[j] # NONE
       IN table' = [table EXCEPT ![free] = s] /\ total' = total + 1

kvs_slaves_delete(gone) ==
  /\ table' = [i \in 1 .. TableSize |-> IF table[i] \in gone THEN NONE ELSE table[i]]
  /\ total' = total - Cardinality(gone \cap InTable)

\* Mutant: a send that was cut short starts again with the whole record.
SendAgain(n) ==
  LET alive == {s \in InTable : pc[s] # "dead"}
  IN /\ \E gone \in SUBSET (InTable \ alive) : kvs_slaves_delete(gone)
     /\ \E again \in SUBSET alive :
          LET got == [s \in Slaves |-> IF s \in again THEN <<n, n>>
                                       ELSE IF s \in alive THEN <<n>> ELSE <<>>]
          IN /\ stream' = [s \in Slaves |-> stream[s] \o got[s]]
             /\ sent' = [s \in Slaves |-> sent[s] \o got[s]]

\* kvs_agent_send, under slaves_mutex: a send to a dead slave may still be
\* buffered; when it fails the connection leaves the table.
kvs_agent_send(n) ==
  LET alive == {s \in InTable : pc[s] # "dead"}
  IN /\ \E gone \in SUBSET (InTable \ alive) : kvs_slaves_delete(gone)
     /\ stream' = [s \in Slaves |-> IF s \in alive THEN Append(stream[s], n) ELSE stream[s]]
     /\ sent' = [s \in Slaves |-> IF s \in alive THEN Append(sent[s], n) ELSE sent[s]]

(* The agent thread: one record, kvs_agent_handler on it.                   *)
Record(cmds) ==
  /\ ~existing /\ ~flushing
  /\ global_cache # <<>> /\ Head(global_cache).cmd \in cmds
  /\ global_cache' = Tail(global_cache)
  /\ UNCHANGED <<masterVars, toMaster, toSlave, captureVars, backlog, open, pc, data>>

\* History: a slave waits for the first FINISHED or ERROR after its SYNC and is
\* exact when it is in the table by then.  Its stream overlaps its snapshot
\* when the agent is already holding writes back, or lags so far behind that
\* the slave was accepted before its SYNC is handled.
AgentSync ==
  LET by == Head(global_cache).by
  IN /\ Record({"SYNC"})
     /\ state' = "FULL_SYNC"
     /\ join' = [join EXCEPT ![by] = IF state = "FULL_SYNC" \/ by \in open
                                            THEN "overlap" ELSE "waits"]
     /\ UNCHANGED <<existing, fullsync_cache, flushing, table, total, stream, sent>>

\* Mutant: the state changes and the cache is not sent.
FinishedWithoutFlush ==
  /\ Record({"FINISHED", "ERROR"})
  /\ state' = "INCR_SYNC"
  /\ join' = [s \in Slaves |-> IF join[s] # "waits" THEN join[s]
                               ELSE IF s \in InTable THEN "exact" ELSE "missed"]
  /\ UNCHANGED <<existing, flushing, fullsync_cache, table, total, stream, sent>>

\* Mutant: the cache is emptied in place of being sent.
FinishedDropsCache ==
  /\ Record({"FINISHED", "ERROR"})
  /\ state' = "INCR_SYNC" /\ fullsync_cache' = <<>>
  /\ join' = [s \in Slaves |-> IF join[s] # "waits" THEN join[s]
                               ELSE IF s \in InTable THEN "exact" ELSE "missed"]
  /\ UNCHANGED <<existing, flushing, table, total, stream, sent>>

AgentFinished ==
  /\ Record({"FINISHED", "ERROR"})
  /\ IF state = "FULL_SYNC"
     THEN /\ state' = "INCR_SYNC"
          /\ flushing' = (fullsync_cache # <<>>)
          /\ join' = [s \in Slaves |-> IF join[s] # "waits" THEN join[s]
                                       ELSE IF s \in InTable THEN "exact" ELSE "missed"]
     ELSE UNCHANGED <<state, flushing, join>>
  /\ UNCHANGED <<existing, fullsync_cache, table, total, stream, sent>>

\* A write that does not fit into fullsync_cache stops the agent.
AgentWrite ==
  LET n == Head(global_cache).n
  IN /\ Record({"WRITE"})
     /\ IF state = "FULL_SYNC"
        THEN /\ IF Len(fullsync_cache) < HoldMax
                THEN fullsync_cache' = Append(fullsync_cache, n) /\ UNCHANGED existing
                ELSE existing' = TRUE /\ UNCHANGED fullsync_cache
             /\ UNCHANGED <<table, total, stream, sent>>
        ELSE kvs_agent_send(n) /\ UNCHANGED <<fullsync_cache, existing>>
     /\ UNCHANGED <<state, flushing, join>>

AgentOther ==
  /\ Record({"READY"})
  /\ UNCHANGED <<existing, state, fullsync_cache, flushing, table, total, stream,
                 sent, join>>

\* Mutant: one record is sent, not all of them.
FlushOnce ==
  /\ flushing
  /\ kvs_agent_send(Head(fullsync_cache))
  /\ fullsync_cache' = Tail(fullsync_cache)
  /\ flushing' = FALSE
  /\ UNCHANGED <<masterVars, toMaster, toSlave, captureVars, global_cache, existing,
                 state, backlog, open, pc, data, join>>

\* kvs_agent_send_cache: the table is locked for one record at a time.
AgentFlush ==
  /\ flushing
  /\ kvs_agent_send(Head(fullsync_cache))
  /\ fullsync_cache' = Tail(fullsync_cache)
  /\ flushing' = (Len(fullsync_cache) > 1)
  /\ UNCHANGED <<masterVars, toMaster, toSlave, captureVars, global_cache, existing,
                 state, backlog, open, pc, data, join>>

AgentThread == AgentSync \/ AgentFinished \/ AgentWrite \/ AgentOther \/ AgentFlush

(* The server thread.                                                       *)
ServerAccept ==
  /\ ~existing /\ backlog # <<>>
  /\ kvs_slaves_insert(Head(backlog))
  /\ backlog' = Tail(backlog)
  /\ open' = open \cup {Head(backlog)}
  /\ UNCHANGED <<masterVars, toMaster, toSlave, captureVars, agentVars, slaveVars,
                 sent, join>>

ServerClose(s) ==
  /\ ~existing /\ s \in open /\ pc[s] = "dead"
  /\ kvs_slaves_delete({s})
  /\ open' = open \ {s}
  /\ UNCHANGED <<masterVars, toMaster, toSlave, captureVars, agentVars, backlog,
                 slaveVars, sent, join>>

MasterSession(s) ==
  \/ MasterBusy(s) \/ MasterFork(s) \/ MasterForkFails(s) \/ MasterNotify(s)
  \/ MasterChildFails(s) \/ MasterSendFile(s) \/ MasterNotReady(s) \/ MasterReads(s)

SlaveSync(s) ==
  \/ SlaveReply(s) \/ SlaveLoad(s) \/ SlaveCutOff(s) \/ SlaveConnect(s)
  \/ SlaveFinished(s) \/ SlaveExec(s)

Next ==
  \/ \E w \in Writes : ClientWrite(w)
  \/ \E s \in Slaves : MasterSession(s) \/ SlaveStart(s) \/ SlaveSync(s) \/ SlaveDies(s)
  \/ HandleEvent
  \/ AgentThread
  \/ ServerAccept
  \/ \E s \in Slaves : ServerClose(s)

Spec == Init /\ [][Next]_vars

\* The master polls its coroutines, the children and the slaves run, and the
\* threads of the agent loop for ever; clients need not write, a slave need
\* not be started, and nothing makes a process die.
Fairness ==
  /\ \A s \in Slaves : WF_vars(MasterSession(s)) /\ WF_vars(SlaveSync(s))
  /\ WF_vars(HandleEvent) /\ WF_vars(AgentThread) /\ WF_vars(ServerAccept)

FairSpec == Spec /\ Fairness
-----------------------------------------------------------------------------

\* The flag of kvs_sync.c:21 is up exactly while one coroutine is between the
\* fork and the end of the file, so that two children never write the one
\* kvs_snapshot.tmp, and no error path or dead slave leaves it up.
FullSyncExclusive ==
  LET busy == {s \in Slaves : session[s] \in {"child", "ready"}}
  IN Cardinality(busy) = IF is_full_sync THEN 1 ELSE 0

\* kvs_slaves: total counts the used slots, no connection has two of them,
\* and every connection in the table is one the server thread still watches,
\* although two threads insert and delete.
TableConsistent ==
  /\ total = Cardinality({i \in 1 .. TableSize : table[i] # NONE})
  /\ total = Cardinality(InTable)
  /\ InTable \subseteq open

\* A slave is sent the writes in the order in which the master received them,
\* none twice, and, once it gets the first and no event was dropped, none is
\* skipped: across the switch from holding back to sending, the flush and
\* the synchronisations of other slaves.
StreamInOrder ==
  \A s \in Slaves : \A i \in 1 .. Len(sent[s]) - 1 :
    IF lost THEN sent[s][i] < sent[s][i + 1] ELSE sent[s][i] + 1 = sent[s][i + 1]

\* The condition under which the agent serves a slave completely: when it saw
\* the SYNC it held nothing back and had not accepted the slave, when it saw
\* the next FINISHED or ERROR the slave was in the table, the agent runs and
\* no event was dropped.
Served(s) == join[s] = "exact" /\ pc[s] # "dead" /\ ~lost /\ ~existing

\* The writes among the events of q, and the numbers of a cache.
Numbers(q) == {q[i].n : i \in {j \in 1 .. Len(q) : q[j].cmd = "WRITE"}}

Elements(q) == {q[i] : i \in 1 .. Len(q)}

\* The writes the agent has yet to send.
Unsent == Elements(fullsync_cache) \cup Numbers(global_cache) \cup Numbers(ring)

\* Such a slave was sent, from the first one on and in order, the writes that
\* the master received after the fork that made the slave's snapshot, and
\* exactly the rest of them is still to be sent: the snapshot and the stream
\* neither overlap nor leave a gap.
StreamMeetsSnapshot ==
  \A s \in Slaves : Served(s) =>
    /\ sent[s] = [i \in 1 .. Len(sent[s]) |-> snapAt[s] + i]
    /\ Unsent = snapAt[s] + Len(sent[s]) + 1 .. Len(log)

\* What the agent has yet to send, oldest first.
Pending ==
  LET events == SelectSeq(global_cache \o ring, LAMBDA e : e.cmd = "WRITE")
  IN fullsync_cache \o [i \in 1 .. Len(events) |-> events[i].n]

Replay(st, ns) ==
  LET after[i \in 0 .. Len(ns)] ==
        IF i = 0 THEN st ELSE Exec(after[i - 1], log[ns[i]])
  IN after[Len(ns)]

\* The slave's data and what is still on its way make the master's data.
ReplicaConverges ==
  \A s \in Slaves : Served(s) => Replay(data[s], stream[s] \o Pending) = store

\* A slave that joined in time ends up with the master's data.
SlaveCatchesUp ==
  \A s \in Slaves : join[s] = "exact" ~> (data[s] = store \/ ~Served(s))
=============================================================================
