------------------------------- MODULE Startup ------------------------------
(***************************************************************************)
(* main of kvstore.c: the configuration, kvs_init with the dump and the     *)
(* append-only file, for a slave the synchronisation with its master, the   *)
(* server, and kvs_deinit.  What the server does is in Connection and       *)
(* Coroutines; here it runs until it returns.                               *)
(***************************************************************************)
EXTENDS Transfer, KvStore, FiniteSetsExt

CONSTANTS ConfFiles,       \* the contents conf/kvstore.conf may have
          Disks,           \* what kvs-data may hold: dump and append-only file
          ArrayKeys,       \* the keys of the array engine
          KVS_ARRAY_SIZE

ASSUME StartupAssumption == ArrayKeys \subseteq Keys /\ KVS_ARRAY_SIZE \in Nat \ {0}

VARIABLES conf_lines, disk, global_config,
          data,
          reader,      \* the coroutine that reads from the agent
          own,         \* history: the data after kvs_init
          stop, nomem  \* history: the record at which the load of the snapshot
                       \* ended, and whether there was memory for it

startVars == <<conf_lines, disk, global_config, data, reader, own, stop, nomem>>
vars == <<transferVars, startVars>>

Settings == {"Mode", "ENABLE_MODULE_SYNC", "ENABLE_MODULE_SAVE", "ENABLE_MODULE_LOG",
             "Master", "Agent"}

Init ==
  /\ TransferInit /\ pc = "start"
  /\ conf_lines \in ConfFiles /\ disk \in Disks
  /\ global_config = [key \in Settings |-> 0]
  /\ data = Empty /\ own = Empty
  /\ reader = "none" /\ stop = 0 /\ nomem = FALSE
-----------------------------------------------------------------------------
(* kvs_config_init.  A line "key = value" sets; without the blank before the *)
(* sign the word is no key; a key alone has no value, and atoi(NULL) ends    *)
(* the process.  The last line of a key counts.  No file sets nothing.       *)
LinesOf(key, form) == {i \in DOMAIN conf_lines : conf_lines[i].key = key /\ conf_lines[i].form = form}

Config ==
  /\ pc = "start"
  /\ IF \E key \in Settings : LinesOf(key, "bare") # {}
     THEN pc' = "dead" /\ UNCHANGED global_config
     ELSE /\ pc' = "init"
          /\ global_config' =
               [key \in Settings |-> IF LinesOf(key, "spaced") = {} THEN 0
                                     ELSE conf_lines[Max(LinesOf(key, "spaced"))].value]
  /\ UNCHANGED <<build, file, masterVars, size, buf, toMaster, toSlave, broken, rdmaVars,
                 conf_lines, disk, data, reader, own, stop, nomem>>

\* The keys of the array after the first n records.
InArray(st, recs, n) ==
  {key \in ArrayKeys : st[key] # NONE \/ \E j \in 1 .. n : recs[j].key = key}

\* Where kvs_file_read with kvs_save_handler ends: at a frame that is no record,
\* at a record of the array when the array is full, even for a key it has, or
\* where memory runs out; otherwise after the last record.
Ends(st, recs, oom) ==
  Min({Len(recs) + 1} \cup
      {i \in 1 .. Len(recs) :
         \/ recs[i].key = NONE \/ i = oom
         \/ /\ recs[i].key \in ArrayKeys
            /\ Cardinality(InArray(st, recs, i - 1)) = KVS_ARRAY_SIZE})

\* Mutant: the snapshot replaces what is there.
RestoreOverwrites(st, recs, n) ==
  [key \in Keys |->
     LET at == {i \in 1 .. n - 1 : recs[i].key = key}
     IN IF at = {} THEN st[key] ELSE recs[Min(at)].val]

\* One SET for each record before the n-th.
Restore(st, recs, n) ==
  [key \in Keys |->
     LET at == {i \in 1 .. n - 1 : recs[i].key = key}
     IN IF st[key] # NONE \/ at = {} THEN st[key] ELSE recs[Min(at)].val]

\* The append-only file executed, with KvStore for the commands.
Replay(st, log) ==
  LET after[i \in 0 .. Len(log)] == IF i = 0 THEN st ELSE Exec(after[i - 1], log[i])
  IN after[Len(log)]

\* kvs_init: the pool and the engines, the dump and the file.  The results are not
\* looked at; without memory for the tree's nil kvs_rbtree_create ends the process,
\* and a file that cannot be mapped is left out.
KvsInit ==
  /\ pc = "init"
  /\ \/ /\ pc' = "connect"
        /\ \E dump \in {disk.dump} \cup (IF May("mmap") THEN {<<>>} ELSE {}),
              log \in {disk.log} \cup (IF May("mmap") THEN {<<>>} ELSE {}) :
             LET saved == IF global_config["ENABLE_MODULE_SAVE"] = 0 THEN <<>> ELSE dump
                 logged == IF global_config["ENABLE_MODULE_LOG"] = 0 THEN <<>> ELSE log
             IN data' = Replay(Restore(Empty, saved, Ends(Empty, saved, 0)), logged)
        /\ own' = data'
     \/ May("malloc") /\ pc' = "dead" /\ UNCHANGED <<data, own>>
  /\ UNCHANGED <<build, file, masterVars, size, buf, toMaster, toSlave, broken, rdmaVars,
                 conf_lines, disk, global_config, reader, stop, nomem>>

\* kvs_slave_sync, up to SYNC.  A master does not call it.
StartsSync ==
  /\ pc = "connect"
  /\ global_config["Mode"] = 1 /\ global_config["ENABLE_MODULE_SYNC"] # 0
  /\ global_config["Master"] = 1
  /\ SlaveSync /\ UNCHANGED startVars

\* Nothing to synchronise, or no connection: main goes on in both cases.
NoSync ==
  /\ pc = "connect"
  /\ \/ global_config["Mode"] # 1 \/ global_config["ENABLE_MODULE_SYNC"] = 0
     \/ global_config["Master"] # 1 \/ May("link")
  /\ pc' = "serve"
  /\ UNCHANGED <<build, file, masterVars, size, buf, toMaster, toSlave, broken, rdmaVars,
                 startVars>>

\* kvs_slave_full_sync loads what was received, and a load that ends early is no
\* failure; that kvs_file_read has no memory for its own buffers is one.
SlaveLoad ==
  /\ pc = "received"
  /\ \/ LET recs == [i \in 1 .. Len(buf) |->
                       IF buf[i] = ErrorFrame THEN [key |-> NONE, val |-> NONE]
                       ELSE file[buf[i][2]]]
        IN \E oom \in {0} \cup (IF May("malloc") THEN 1 .. Len(recs) ELSE {}) :
             /\ stop' = Ends(data, recs, oom)
             /\ nomem' = (stop' = oom)
             /\ data' = Restore(data, recs, stop')
             /\ pc' = "synced" /\ UNCHANGED toMaster
     \/ May("malloc") /\ Fails /\ UNCHANGED <<data, stop, nomem>>
  /\ UNCHANGED <<build, file, masterVars, size, buf, toSlave, broken, rdmaVars,
                 conf_lines, disk, global_config, reader, own>>

\* kvs_slave_incr_sync: the agent, the coroutine and FULLSYNC FINISHED.  When that
\* cannot be sent the coroutine keeps the number of a descriptor that is closed.
SlaveJoin ==
  /\ pc = "synced" /\ pc' = "serve"
  /\ \/ /\ global_config["Agent"] = 1 /\ ToMaster("FINISHED")
        /\ reader' = IF broken THEN "closed" ELSE "reads"
     \/ (global_config["Agent"] # 1 \/ May("link")) /\ UNCHANGED <<reader, toMaster>>
  /\ UNCHANGED <<build, file, masterVars, size, buf, toSlave, broken, rdmaVars,
                 conf_lines, disk, global_config, data, own, stop, nomem>>

\* kvs_slave_sync failed: main says so and serves.
ServesAnyway ==
  /\ pc = "failed" /\ pc' = "serve"
  /\ UNCHANGED <<build, file, masterVars, size, buf, toMaster, toSlave, broken, rdmaVars,
                 startVars>>

\* ntyco_start returns, and kvs_deinit frees the engines.
Deinit ==
  /\ pc = "serve" /\ pc' = "stopped"
  /\ data' = Empty
  /\ UNCHANGED <<build, file, masterVars, size, buf, toMaster, toSlave, broken, rdmaVars,
                 conf_lines, disk, global_config, reader, own, stop, nomem>>

Dies ==
  /\ May("crash") /\ pc \notin {"stopped", "dead"} /\ pc' = "dead"
  /\ UNCHANGED <<build, file, masterVars, size, buf, toMaster, toSlave, broken, rdmaVars,
                 startVars>>
-----------------------------------------------------------------------------
MasterStep ==
  /\ MasterFork \/ MasterNotify \/ MasterReady \/ MasterSendFile \/ MasterReads
     \/ MasterConnect \/ MasterConnected \/ MasterWrite \/ MasterPost
  /\ UNCHANGED startVars

SlaveTransfer ==
  /\ SlaveReply \/ SlaveRecv \/ SlaveListen \/ SlaveRequest \/ SlavePoll
  /\ UNCHANGED startVars

SlaveStep ==
  Config \/ KvsInit \/ StartsSync \/ NoSync \/ SlaveTransfer \/ SlaveLoad \/ SlaveJoin
  \/ ServesAnyway

Next == MasterStep \/ SlaveStep \/ Deinit \/ Dies \/ (LinkBreaks /\ UNCHANGED startVars)

Spec == Init /\ [][Next]_vars

\* Two processes that run; a connection need not break, nor the server return.
FairSpec == Spec /\ WF_vars(MasterStep) /\ WF_vars(SlaveStep)
-----------------------------------------------------------------------------

Whole == [i \in 1 .. Len(file) |-> Piece(i)]

\* Whatever fails on the way, and with both transports, the slave executes the
\* whole snapshot or nothing of it.  The one exception to "the whole" is nothing:
\* when the master got a part of READY and the snapshot is not longer than the
\* frame FULLSYNC ERROR, the slave takes that frame for the file.
LoadsWhole ==
  pc = "received" => buf = Whole \/ (buf = <<ErrorFrame>> /\ Len(file) = 1)

\* The agent learns the end of a synchronisation from what the master receives,
\* and holds back every slave's writes until then: when a slave that executed the
\* snapshot says FULLSYNC FINISHED, the master still reads from it.
FinishedIsHeard ==
  (toMaster # <<>> /\ toMaster[Len(toMaster)] = "FINISHED")
    => session = "reader" \/ buf = <<ErrorFrame>>

\* What a slave that joined has: for a key its own files gave it, their value,
\* however old; for the others the master's, unless the load ended before, which
\* happens only when the array was full, memory ran out or the frame was none.
OwnThenSnapshot ==
  (pc = "serve" /\ reader # "none") =>
    /\ \A key \in Keys : own[key] # NONE => data[key] = own[key]
    /\ \A i \in 1 .. Len(file) :
         LET r == file[i]
         IN own[r.key] = NONE =>
              \/ data[r.key] = r.val
              \/ data[r.key] = NONE /\ stop <= i
                 /\ \/ nomem \/ buf = <<ErrorFrame>>
                    \/ Cardinality(InArray(data, <<>>, 0)) = KVS_ARRAY_SIZE

\* rdma_get_request has no timeout and does not see the connection to the master.
WaitsForRequest == pc = "request" /\ link = "listening" /\ session \in {"closed", "dead"}

\* main gets to the server, whatever the master and the network do, unless the
\* process ends, or the master gave up before it connected with RDMA.
StartupEnds == <>(pc \in {"serve", "stopped", "dead"} \/ WaitsForRequest)

\* The slave never keeps the master from serving the next one: with both
\* transports, and when the slave dies, is_full_sync is reset, unless the master
\* itself ended.
MasterFreed == is_full_sync ~> (~is_full_sync \/ session = "dead")
=============================================================================
