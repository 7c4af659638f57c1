------------------------------ MODULE Transfer ------------------------------
(***************************************************************************)
(* How the snapshot gets from the master to a slave: kvs_master_full_sync   *)
(* and kvs_slave_full_sync of kvs-module/kvs_sync.c with the two transports *)
(* the source can be built with, sendfile and, in kvs-module/rdma_com.c,    *)
(* RDMA.  One slave and one attempt; several slaves are in Replication.     *)
(*                                                                         *)
(* The file is a sequence of records, and a piece of the stream is one of   *)
(* them; the frame FULLSYNC ERROR is about as long as the shortest record   *)
(* and counts as one piece.  A size is a number of records.                 *)
(***************************************************************************)
EXTENDS Naturals, Sequences

CONSTANTS Files,      \* the snapshots the master may have
          Word,       \* 2^32, as a number of records
          Window,     \* pieces the connection holds
          Faults      \* the failures that the environment may cause

ASSUME TransferAssumption ==
  /\ Word \in Nat \ {0} /\ Window \in Nat \ {0}
  /\ \A f \in Files : f = <<>> \/ Len(f) \in 1 .. Word * Word - 1

VARIABLES
  build,              \* the transport compiled in
  file,               \* kvs_snapshot.tmp
  session, left,      \* the master's coroutine, and the pieces yet to be sent
  is_full_sync,
  pc, size, buf,      \* the slave: where it is, file_size and what it received
  toMaster, toSlave,  \* the connection, and whether it broke
  broken,
  link, notify_msg    \* the RDMA connection, and the message that ends it

masterVars == <<session, left, is_full_sync>>
slaveVars == <<pc, size, buf>>
rdmaVars == <<link, notify_msg>>
transferVars == <<build, file, masterVars, slaveVars, toMaster, toSlave, broken, rdmaVars>>

ErrorFrame == <<"FULLSYNC ERROR">>
Ok(n) == <<"FULLSYNC OK", n>>
Piece(i) == <<"record", i>>

TransferInit ==
  /\ build \in {"sendfile", "rdma"} /\ file \in Files
  /\ session = "none" /\ left = 0 /\ is_full_sync = FALSE
  /\ size = 0 /\ buf = <<>>
  /\ toMaster = <<>> /\ toSlave = <<>> /\ broken = FALSE
  /\ link = "none" /\ notify_msg = <<>>

\* What is left when a call may fail.
May(fault) == fault \in Faults

\* The processes that are still there, and have not closed the connection.
MasterOpen == session \notin {"none", "closed", "dead"} /\ ~broken
SlaveOpen == pc \notin {"failed", "serve", "stopped", "dead"} /\ ~broken
-----------------------------------------------------------------------------
(* kvs_send_single_command: fails when the connection is known to be broken. *)
ToSlave(msg) == toSlave' = IF broken THEN toSlave ELSE Append(toSlave, msg)
ToMaster(msg) == toMaster' = IF broken THEN toMaster ELSE Append(toMaster, msg)

\* The connection breaks, and what was on its way is lost.
LinkBreaks ==
  /\ May("link") /\ ~broken /\ session # "none"
  /\ broken' = TRUE /\ toMaster' = <<>> /\ toSlave' = <<>>
  /\ UNCHANGED <<build, file, masterVars, slaveVars, rdmaVars>>

\* Mutant: the flag is not reset.
EndSyncKeepsFlag(next) == session' = next /\ UNCHANGED <<is_full_sync, left>>

(* The master.  cleanup of kvs_master_full_sync: a failure closes the        *)
(* connection in server_reader.                                              *)
EndSync(next) == is_full_sync' = FALSE /\ session' = next /\ UNCHANGED left

MasterFork ==
  /\ session = "reader" /\ toMaster # <<>> /\ Head(toMaster) = "SYNC"
  /\ toMaster' = Tail(toMaster)
  /\ \/ /\ is_full_sync' = TRUE /\ session' = "child"
        /\ UNCHANGED <<left, toSlave>>
     \/ May("fork") /\ ToSlave(ErrorFrame) /\ EndSync("closed")
  /\ UNCHANGED <<build, file, slaveVars, broken, rdmaVars>>

\* The child has written the file, or failed.  READY is awaited unless the file
\* is empty.
MasterNotify ==
  /\ session = "child"
  /\ \/ /\ ~broken /\ ToSlave(Ok(Len(file)))
        /\ IF file = <<>> THEN EndSync("reader")
           ELSE session' = "ready" /\ UNCHANGED <<left, is_full_sync>>
     \/ (broken \/ May("child")) /\ ToSlave(ErrorFrame) /\ EndSync("closed")
  /\ UNCHANGED <<build, file, slaveVars, toMaster, broken, rdmaVars>>

\* kvs_recv_single_command takes what one recv gives for the command: a part of
\* READY is an error like FULLSYNC ERROR or the end of the connection, and the
\* slave is told.
MasterReady ==
  /\ session = "ready"
  /\ \/ /\ toMaster # <<>> /\ Head(toMaster) = "READY"
        /\ toMaster' = Tail(toMaster)
        /\ session' = "send" /\ left' = Len(file)
        /\ UNCHANGED <<is_full_sync, toSlave>>
     \/ /\ toMaster # <<>> /\ (Head(toMaster) # "READY" \/ May("split"))
        /\ toMaster' = Tail(toMaster) /\ ToSlave(ErrorFrame) /\ EndSync("closed")
     \/ /\ toMaster = <<>> /\ ~SlaveOpen
        /\ UNCHANGED toMaster /\ ToSlave(ErrorFrame) /\ EndSync("closed")
  /\ UNCHANGED <<build, file, slaveVars, broken, rdmaVars>>

\* Mutant: the connection is closed after the file.
SendFileCloses ==
  /\ session = "send" /\ build = "sendfile"
  /\ ~broken /\ Len(toSlave) < Window
  /\ toSlave' = Append(toSlave, Piece(Len(file) - left + 1))
  /\ left' = left - 1
  /\ IF left = 1 THEN is_full_sync' = FALSE /\ session' = "closed"
     ELSE UNCHANGED <<is_full_sync, session>>
  /\ UNCHANGED <<build, file, slaveVars, toMaster, broken, rdmaVars>>

\* kvs_master_send_file, sendfile: one piece, EAGAIN while the window is full, or
\* an error, after which nothing is sent.
MasterSendFile ==
  /\ session = "send" /\ build = "sendfile"
  /\ \/ /\ ~broken /\ Len(toSlave) < Window
        /\ toSlave' = Append(toSlave, Piece(Len(file) - left + 1))
        /\ left' = left - 1
        /\ IF left = 1 THEN is_full_sync' = FALSE /\ session' = "reader"
           ELSE UNCHANGED <<is_full_sync, session>>
     \/ (~SlaveOpen \/ May("sendfile")) /\ EndSync("closed") /\ UNCHANGED toSlave
  /\ UNCHANGED <<build, file, slaveVars, toMaster, broken, rdmaVars>>

\* server_reader between the commands: FINISHED and ERROR do nothing here.
MasterReads ==
  /\ session = "reader"
  /\ \/ /\ toMaster # <<>> /\ Head(toMaster) # "SYNC"
        /\ toMaster' = Tail(toMaster) /\ UNCHANGED session
     \/ /\ toMaster = <<>> /\ ~SlaveOpen
        /\ session' = "closed" /\ UNCHANGED toMaster
  /\ UNCHANGED <<build, file, left, is_full_sync, slaveVars, toSlave, broken, rdmaVars>>
-----------------------------------------------------------------------------
(* rdma_client.  The completion of a work request is waited for, and its     *)
(* status is only looked at while there is none: a failed one counts as      *)
(* done.  connected is set after the first failures have jumped past its     *)
(* initialisation, and rdma_disconnect(NULL) ends the process.               *)
MasterFails(also) ==
  EndSync("closed") /\ link' = also

\* mmap, rdma_getaddrinfo, rdma_create_ep and the two ibv_reg_mr, and then
\* rdma_connect, which does not yield.
MasterConnect ==
  /\ session = "send" /\ build = "rdma"
  /\ \/ link = "listening" /\ pc = "request"
        /\ link' = "requested" /\ session' = "connect" /\ UNCHANGED <<left, is_full_sync>>
     \/ (May("verbs") \/ pc # "request") /\ MasterFails(link)
     \/ May("verbs") /\ session' = "dead" /\ UNCHANGED <<left, is_full_sync, link>>
  /\ UNCHANGED <<build, file, slaveVars, toMaster, toSlave, broken, notify_msg>>

\* server_data.buf_size: htonl keeps the low word of the size and be64toh makes it
\* the high word.
remote_buf_size == (size % Word) * Word

\* rdma_connect returns.  A buffer that seems too small is refused with a text.
MasterConnected ==
  /\ session = "connect"
  /\ \/ /\ link = "accepted"
        /\ IF remote_buf_size < Len(file)
           THEN MasterFails("closed") /\ notify_msg' = <<"text">>
           ELSE session' = "write" /\ UNCHANGED <<left, is_full_sync, link, notify_msg>>
     \/ (link = "closed" \/ pc \notin {"request", "poll"})
        /\ MasterFails("closed") /\ UNCHANGED notify_msg
  /\ UNCHANGED <<build, file, slaveVars, toMaster, toSlave, broken>>

\* rdma_post_write and its completion: the whole file is in the buffer of the
\* slave, or the connection failed when a part of it was.
MasterWrite ==
  /\ session = "write"
  /\ \/ /\ link = "accepted" /\ pc = "poll"
        /\ buf' = [i \in 1 .. Len(file) |-> Piece(i)]
        /\ session' = "post" /\ UNCHANGED <<left, is_full_sync, link>>
     \/ /\ May("link") \/ pc # "poll"
        /\ \E n \in 0 .. Len(file) - 1 :
             buf' = IF pc = "poll" THEN [i \in 1 .. n |-> Piece(i)] ELSE buf
        /\ link' = "closed" /\ session' = "post" /\ UNCHANGED <<left, is_full_sync>>
     \/ May("verbs") /\ MasterFails("closed") /\ UNCHANGED buf
  /\ UNCHANGED <<build, file, pc, size, toMaster, toSlave, broken, notify_msg>>

\* rdma_post_send of the size, its completion, and rdma_disconnect.
MasterPost ==
  /\ session = "post"
  /\ \/ /\ EndSync("reader") /\ link' = "closed"
        /\ notify_msg' = IF link = "accepted" THEN <<"size", Len(file)>> ELSE notify_msg
     \/ May("verbs") /\ MasterFails("closed") /\ UNCHANGED notify_msg
  /\ UNCHANGED <<build, file, slaveVars, toMaster, toSlave, broken>>
-----------------------------------------------------------------------------
(* The slave.  A failure after the reply to SYNC is reported to the master.  *)
Fails == pc' = "failed" /\ ToMaster("ERROR")

\* kvs_slave_sync has connected: SYNC is sent.
SlaveSync ==
  /\ session' = "reader" /\ pc' = "sync"
  /\ toMaster' = <<"SYNC">>
  /\ UNCHANGED <<build, file, left, is_full_sync, size, buf, toSlave, broken, rdmaVars>>

\* kvs_slave_obtain_file_size, and the allocation of kvs_slave_obtain_file.
SlaveReply ==
  /\ pc = "sync"
  /\ \/ /\ toSlave # <<>> /\ toSlave' = Tail(toSlave)
        /\ \/ Head(toSlave) = ErrorFrame /\ pc' = "failed" /\ UNCHANGED <<size, toMaster>>
           \/ Head(toSlave) = Ok(0) /\ pc' = "synced" /\ UNCHANGED <<size, toMaster>>
           \/ /\ Head(toSlave)[1] = "FULLSYNC OK" /\ Head(toSlave) # Ok(0)
              /\ size' = Head(toSlave)[2]
              /\ \/ build = "rdma" /\ pc' = "listen" /\ UNCHANGED toMaster
                 \/ build = "sendfile" /\ ~broken /\ pc' = "recv" /\ ToMaster("READY")
                 \/ May("malloc") /\ Fails
     \/ toSlave = <<>> /\ ~MasterOpen /\ Fails /\ UNCHANGED <<size, toSlave>>
  /\ UNCHANGED <<build, file, masterVars, buf, broken, rdmaVars>>

\* Mutant: the end of the file before its size is not an error.
RecvTakesPart ==
  /\ pc = "recv"
  /\ \/ /\ toSlave # <<>> /\ toSlave' = Tail(toSlave)
        /\ buf' = Append(buf, Head(toSlave))
        /\ pc' = IF Len(buf') = size THEN "received" ELSE pc
        /\ UNCHANGED toMaster
     \/ toSlave = <<>> /\ ~MasterOpen /\ pc' = "received" /\ UNCHANGED <<toMaster, buf, toSlave>>
  /\ UNCHANGED <<build, file, masterVars, size, broken, rdmaVars>>

\* Mutant: the end of the connection is not noticed.
RecvIgnoresEnd ==
  /\ pc = "recv" /\ toSlave # <<>> /\ toSlave' = Tail(toSlave)
  /\ buf' = Append(buf, Head(toSlave))
  /\ pc' = IF Len(buf') = size THEN "received" ELSE pc
  /\ UNCHANGED <<build, file, masterVars, size, toMaster, broken, rdmaVars>>

\* kvs_slave_obtain_file, sendfile: whatever arrives is the file.
SlaveRecv ==
  /\ pc = "recv"
  /\ \/ /\ toSlave # <<>> /\ toSlave' = Tail(toSlave)
        /\ buf' = Append(buf, Head(toSlave))
        /\ pc' = IF Len(buf') = size THEN "received" ELSE pc
        /\ UNCHANGED toMaster
     \/ toSlave = <<>> /\ ~MasterOpen /\ Fails /\ UNCHANGED <<buf, toSlave>>
  /\ UNCHANGED <<build, file, masterVars, size, broken, rdmaVars>>

(* rdma_server.  get_request is set after the first failures have jumped past *)
(* its initialisation, when id is NULL.                                       *)
SlaveListen ==
  /\ pc = "listen"
  /\ \/ ~broken /\ link' = "listening" /\ pc' = "request" /\ ToMaster("READY")
     \/ (broken \/ May("verbs")) /\ Fails /\ UNCHANGED link
     \/ (broken \/ May("verbs")) /\ pc' = "dead" /\ UNCHANGED <<toMaster, link>>
  /\ UNCHANGED <<build, file, masterVars, size, buf, toSlave, broken, notify_msg>>

\* rdma_get_request waits for the master to connect; the two ibv_reg_mr and
\* rdma_post_recv may fail; rdma_accept.
SlaveRequest ==
  /\ pc = "request" /\ link = "requested"
  /\ \/ link' = "accepted" /\ pc' = "poll" /\ UNCHANGED toMaster
     \/ May("verbs") /\ link' = "closed" /\ Fails
  /\ UNCHANGED <<build, file, masterVars, size, buf, toSlave, broken, notify_msg>>

\* The completion of the receive: the message, or an error after which
\* notify_msg is empty.  Only a number that is not less than the size will do.
SlavePoll ==
  /\ pc = "poll" /\ (notify_msg # <<>> \/ link = "closed" \/ session = "dead")
  /\ link' = "closed"
  /\ IF notify_msg # <<>> /\ notify_msg[1] = "size" /\ notify_msg[2] >= size
     THEN pc' = "received" /\ UNCHANGED toMaster
     ELSE Fails
  /\ UNCHANGED <<build, file, masterVars, size, buf, toSlave, broken, notify_msg>>
=============================================================================
