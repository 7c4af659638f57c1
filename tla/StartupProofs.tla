---------------------------- MODULE StartupProofs ----------------------------
(***************************************************************************)
(* What a slave executes of a snapshot, for every file, every size of the   *)
(* connection's window, both transports and every set of failures: the      *)
(* whole of it, or nothing.                                                 *)
(***************************************************************************)
EXTENDS Startup, TLAPS

\* The time the prover may take for a leaf; a few milliseconds are the rule.
USE SMTT(20)

Early == {"start", "init", "connect"}
Late == {"synced", "failed", "serve", "stopped", "dead"}
NonSync == {"READY", "FINISHED", "ERROR"}
Messages == {ErrorFrame} \cup {Ok(n) : n \in Nat} \cup {Piece(i) : i \in Nat}

\* SYNC is sent once, and while it is on its way nothing else has happened.
ConnectionInv ==
  /\ file \in Files /\ build \in {"sendfile", "rdma"}
  /\ toMaster \in Seq(NonSync)
     \/ /\ toMaster = <<"SYNC">> /\ session = "reader" /\ toSlave = <<>>
        /\ notify_msg = <<>> /\ link = "none" /\ pc \in {"sync", "dead"}
  /\ broken => toMaster = <<>> /\ toSlave = <<>>
  /\ pc \in Early => session = "none"
  /\ session = "none" =>
       /\ pc \in Early \cup {"serve", "stopped", "dead"} /\ ~broken /\ toMaster = <<>> /\ toSlave = <<>>
       /\ buf = <<>> /\ notify_msg = <<>> /\ link = "none"

\* How far the RDMA connection is for each place of the two processes.  The
\* message with the size is sent only when the whole file was written.
LinkInv ==
  /\ pc \in {"sync", "recv", "listen"} => link = "none"
  /\ pc \in {"listen", "request", "poll"} => build = "rdma"
  /\ pc = "recv" => build = "sendfile"
  /\ pc = "poll" => link \in {"accepted", "closed"}
  /\ session = "child" => link = "none" /\ pc \in {"sync"} \cup Late
  /\ session \in {"ready", "send"} => link \in {"none", "listening"}
  /\ session = "connect" => link \in {"requested", "accepted", "closed"}
  /\ session \in {"write", "post"} => link \in {"accepted", "closed"}
  /\ session \in {"connect", "write", "post"} => build = "rdma"
  /\ session \in {"child", "ready", "send", "connect", "write", "post"} => notify_msg = <<>>
  /\ session = "post" /\ link = "accepted" => buf = Whole
  /\ notify_msg # <<>> => build = "rdma"
  /\ notify_msg # <<>> /\ notify_msg[1] = "size" => buf = Whole

\* The first n pieces of the file are received or on their way.
Sent(n) ==
  /\ n \in 0 .. Len(file) /\ Len(buf) + Len(toSlave) = n
  /\ \A i \in 1 .. Len(buf) : buf[i] = Piece(i)
  /\ \A i \in 1 .. Len(toSlave) : toSlave[i] = Piece(Len(buf) + i)

\* The frame FULLSYNC ERROR was received, or is on its way, in its place.
ErrorSent ==
  \/ buf = <<>> /\ toSlave = <<ErrorFrame>>
  \/ buf = <<ErrorFrame>> /\ toSlave = <<>>

\* While the slave waits for the reply to SYNC.
ReplyInv ==
  pc = "sync" =>
    /\ buf = <<>>
    /\ \/ session = "reader" /\ toMaster = <<"SYNC">> /\ toSlave = <<>>
       \/ session = "child" /\ toMaster = <<>> /\ toSlave = <<>>
       \/ /\ session = "ready" /\ toMaster = <<>> /\ Len(file) > 0
          /\ toSlave \in {<<>>, <<Ok(Len(file))>>}
       \/ /\ session \in {"closed", "reader"} /\ toMaster = <<>>
          /\ toSlave \in {<<>>, <<ErrorFrame>>, <<Ok(0)>>}

\* While the slave reads the file with recv.
RecvInv ==
  pc = "recv" =>
    /\ Len(file) > 0 /\ size = Len(file) /\ Len(buf) < size
    /\ buf \in Seq(Messages) /\ toSlave \in Seq(Messages)
    /\ \/ session = "ready" /\ Sent(0) /\ toMaster \in {<<>>, <<"READY">>}
       \/ session = "send" /\ left \in 1 .. Len(file) /\ ~broken /\ Sent(Len(file) - left)
       \/ session \in {"send", "reader", "closed"} /\ (session = "send" => broken)
          /\ \E n \in Nat : Sent(n)
       \/ session = "closed" /\ ErrorSent

LoadInv == ConnectionInv /\ LinkInv /\ ReplyInv /\ RecvInv /\ LoadsWhole

LEMMA FileLength == ASSUME ConnectionInv
                    PROVE  Len(file) \in Nat /\ (file = <<>> <=> Len(file) = 0)
<1>1. Word \in Nat
  BY TransferAssumption
<1>2. file = <<>> \/ Len(file) \in 1 .. Word * Word - 1
  BY TransferAssumption DEF ConnectionInv
<1>3. Word * Word \in Nat
  BY <1>1
<1> QED
  BY <1>2, <1>3

LEMMA LoadInvInit == Init => LoadInv
<1> SUFFICES ASSUME Init PROVE LoadInv
  OBVIOUS
<1>1. ConnectionInv
  BY DEF Init, TransferInit, ConnectionInv, Early
<1>2. LinkInv /\ ReplyInv /\ RecvInv /\ LoadsWhole
  BY DEF Init, TransferInit, LinkInv, ReplyInv, RecvInv, LoadsWhole
<1> QED
  BY <1>1, <1>2 DEF LoadInv

\* What main and the environment do beside the transfer.
LEMMA MainKeepsInv ==
  ASSUME LoadInv,
         \/ Config \/ KvsInit \/ NoSync \/ SlaveLoad \/ SlaveJoin \/ ServesAnyway
         \/ Deinit \/ Dies \/ UNCHANGED vars
  PROVE  LoadInv'
<1>1. UNCHANGED <<build, file, session, left, size, buf, toSlave, broken, link, notify_msg>>
  BY Zenon DEF Config, KvsInit, NoSync, SlaveLoad, SlaveJoin, ServesAnyway, Deinit, Dies,
         masterVars, rdmaVars, transferVars, vars, slaveVars
<1>2. \/ pc' = pc /\ toMaster' = toMaster
      \/ pc \in Early /\ pc' \in Early \cup {"serve", "dead"} /\ toMaster' = toMaster
      \/ pc \in {"synced", "failed", "received"} /\ pc' \in Late
         /\ \E msg \in NonSync : toMaster' \in {toMaster, Append(toMaster, msg)}
         /\ (broken => toMaster' = toMaster)
      \/ pc = "serve" /\ pc' = "stopped" /\ toMaster' = toMaster
      \/ pc' = "dead" /\ toMaster' = toMaster
  BY Zenon DEF Config, KvsInit, NoSync, SlaveLoad, SlaveJoin, ServesAnyway, Deinit, Dies,
         masterVars, rdmaVars, transferVars, vars, slaveVars, Early, Late, NonSync,
         Fails, ToMaster
<1>3. Whole' = Whole
  BY <1>1 DEF Whole
<1>4. ConnectionInv'
  <2>1. ASSUME toMaster \in Seq(NonSync)
        PROVE  toMaster' \in Seq(NonSync) /\ (toMaster' = toMaster \/ ~broken)
    BY <1>2, <2>1
  <2>2. CASE toMaster \in Seq(NonSync)
    <3>1. session = "none" => toMaster' = toMaster
      BY <1>2, <2>2 DEF LoadInv, ConnectionInv, Early, Late
    <3> QED
      BY <1>1, <1>2, <2>1, <2>2, <3>1 DEF LoadInv, ConnectionInv, Early, Late
  <2>3. CASE toMaster = <<"SYNC">> /\ session = "reader" /\ pc \in {"sync", "dead"}
    BY <1>1, <1>2, <2>3, Zenon DEF LoadInv, ConnectionInv, Early, Late
  <2> QED
    BY <2>2, <2>3 DEF LoadInv, ConnectionInv
<1>5. LinkInv'
  BY <1>1, <1>2, <1>3 DEF LoadInv, LinkInv, Early, Late
<1>6. ReplyInv' /\ RecvInv'
  BY <1>1, <1>2 DEF LoadInv, ReplyInv, RecvInv, Early, Late, Sent, ErrorSent
<1>7. LoadsWhole'
  BY <1>1, <1>2, <1>3 DEF LoadInv, LoadsWhole, Early, Late
<1> QED
  BY <1>4, <1>5, <1>6, <1>7 DEF LoadInv

LEMMA SyncKeepsInv ==
  ASSUME LoadInv, StartsSync
  PROVE  LoadInv'
<1>1. /\ pc = "connect" /\ session' = "reader" /\ pc' = "sync" /\ toMaster' = <<"SYNC">>
      /\ UNCHANGED <<build, file, left, size, buf, toSlave, broken, link, notify_msg>>
  BY DEF StartsSync, SlaveSync, rdmaVars
<1>2. /\ session = "none" /\ ~broken /\ toSlave = <<>> /\ buf = <<>>
      /\ notify_msg = <<>> /\ link = "none"
  BY <1>1 DEF LoadInv, ConnectionInv, Early
<1> QED
  BY <1>1, <1>2 DEF LoadInv, ConnectionInv, LinkInv, ReplyInv, RecvInv, LoadsWhole, Early

LEMMA BreakKeepsInv ==
  ASSUME LoadInv, LinkBreaks
  PROVE  LoadInv'
<1>1. /\ session # "none" /\ broken' = TRUE /\ toMaster' = <<>> /\ toSlave' = <<>>
      /\ UNCHANGED <<build, file, session, left, pc, size, buf, link, notify_msg>>
  BY DEF LinkBreaks, masterVars, slaveVars, rdmaVars
<1>2. Whole' = Whole
  BY <1>1 DEF Whole
<1>3. ConnectionInv' /\ LinkInv' /\ LoadsWhole'
  BY <1>1, <1>2 DEF LoadInv, ConnectionInv, LinkInv, LoadsWhole, Early
<1>4. ReplyInv'
  BY <1>1 DEF LoadInv, ReplyInv
<1>5. RecvInv'
  <2> SUFFICES ASSUME pc = "recv" PROVE RecvInv'
    BY <1>1 DEF RecvInv
  <2>1. /\ buf \in Seq(Messages) /\ toSlave \in Seq(Messages) /\ Len(file) \in Nat
        /\ Len(buf) \in Nat /\ Len(toSlave) \in Nat /\ Len(toSlave') = 0
    BY <1>1, FileLength DEF LoadInv, RecvInv
  <2>2. \A n \in Nat : Sent(n) => Sent(Len(buf))'
    BY <1>1, <2>1 DEF Sent
  <2>3. CASE session = "ready" /\ Sent(0)
    <3>1. Len(buf) = 0
      BY <2>1, <2>3 DEF Sent
    <3>2. Sent(0)'
      BY <1>1, <2>1, <2>3, <3>1 DEF Sent
    <3> QED
      BY <1>1, <2>1, <2>3, <3>2 DEF LoadInv, RecvInv
  <2>4. CASE session \in {"send", "reader", "closed"} /\ \E n \in Nat : Sent(n)
    <3>1. \E n \in Nat : Sent(n)'
      BY <2>1, <2>2, <2>4
    <3> QED
      BY <1>1, <2>1, <2>4, <3>1 DEF LoadInv, RecvInv
  <2>5. CASE session = "closed" /\ ErrorSent
    <3>1. CASE buf = <<>>
      <4>1. Sent(0)'
        BY <1>1, <2>1, <3>1 DEF Sent
      <4> QED
        BY <1>1, <2>1, <2>5, <4>1 DEF LoadInv, RecvInv
    <3>2. CASE buf = <<ErrorFrame>>
      <4>1. ErrorSent'
        BY <1>1, <3>2 DEF ErrorSent
      <4> QED
        BY <1>1, <2>1, <2>5, <4>1 DEF LoadInv, RecvInv
    <3> QED
      BY <2>5, <3>1, <3>2 DEF ErrorSent
  <2>6. ASSUME session = "send", left \in 1 .. Len(file), Sent(Len(file) - left)
        PROVE  \E n \in Nat : Sent(n)
    BY <2>1, <2>6
  <2> QED
    BY <2>3, <2>4, <2>5, <2>6 DEF LoadInv, RecvInv
<1> QED
  BY <1>3, <1>4, <1>5 DEF LoadInv

\* The steps of the master that leave the RDMA connection alone.
LEMMA MasterKeepsInv ==
  ASSUME LoadInv, MasterFork \/ MasterNotify \/ MasterReady \/ MasterReads
  PROVE  LoadInv'
<1>1. UNCHANGED <<build, file, pc, size, buf, broken, link, notify_msg>>
  BY DEF MasterFork, MasterNotify, MasterReady, MasterReads, slaveVars, rdmaVars
<1>2. Whole' = Whole /\ Len(file) \in Nat /\ (file = <<>> <=> Len(file) = 0)
  BY <1>1, FileLength DEF Whole, LoadInv
<1>3. LoadsWhole'
  BY <1>1, <1>2 DEF LoadInv, LoadsWhole
<1>4. CASE MasterFork
  <2>1. /\ toMaster = <<"SYNC">> /\ session = "reader" /\ toSlave = <<>>
        /\ notify_msg = <<>> /\ link = "none" /\ pc \in {"sync", "dead"} /\ toMaster' = <<>>
        /\ ~broken
    <3>1. toMaster # <<>> /\ Head(toMaster) = "SYNC" /\ toMaster' = Tail(toMaster)
      BY <1>4 DEF MasterFork
    <3>2. toMaster \notin Seq(NonSync)
      BY <3>1 DEF NonSync
    <3>3. toMaster = <<"SYNC">> => Tail(toMaster) = <<>>
      OBVIOUS
    <3> QED
      BY <3>1, <3>2, <3>3 DEF LoadInv, ConnectionInv
  <2>2. \/ session' = "child" /\ toSlave' = <<>>
        \/ session' = "closed" /\ toSlave' = <<ErrorFrame>>
    <3>1. Append(<<>>, ErrorFrame) = <<ErrorFrame>>
      OBVIOUS
    <3> QED
      BY <1>4, <2>1, <3>1 DEF MasterFork, EndSync, ToSlave
  <2>3. ConnectionInv' /\ LinkInv'
    BY <1>1, <1>2, <2>1, <2>2 DEF LoadInv, ConnectionInv, LinkInv, Early, Late
  <2>4. ReplyInv' /\ RecvInv'
    BY <1>1, <2>1, <2>2 DEF LoadInv, ReplyInv, RecvInv
  <2> QED
    BY <1>3, <2>3, <2>4 DEF LoadInv
<1>5. CASE MasterNotify
  <2>1. /\ session = "child" /\ toMaster' = toMaster /\ toMaster \in Seq(NonSync)
        /\ pc \in {"sync"} \cup Late /\ link = "none" /\ notify_msg = <<>>
        /\ pc = "sync" => toMaster = <<>> /\ toSlave = <<>>
    BY <1>5 DEF MasterNotify, LoadInv, ConnectionInv, LinkInv, ReplyInv
  <2>2. /\ session' \in {"reader", "ready", "closed"}
        /\ broken => toSlave' = toSlave
        /\ pc = "sync" => \/ session' = "reader" /\ toSlave' = <<Ok(0)>>
                          \/ session' = "ready" /\ Len(file) > 0 /\ toSlave' = <<Ok(Len(file))>>
                          \/ session' = "closed" /\ toSlave' \in {<<>>, <<ErrorFrame>>}
    <3>1. \A msg : Append(<<>>, msg) = <<msg>>
      OBVIOUS
    <3>2. CASE ~broken /\ ToSlave(Ok(Len(file))) /\ file = <<>> /\ EndSync("reader")
      <4>1. Len(file) = 0 /\ toSlave' = Append(toSlave, Ok(Len(file))) /\ session' = "reader"
        BY <1>2, <3>2 DEF EndSync, ToSlave
      <4>2. pc = "sync" => toSlave' = <<Ok(0)>>
        BY <2>1, <3>1, <4>1
      <4> QED
        BY <3>2, <4>1, <4>2
    <3>3. CASE ~broken /\ ToSlave(Ok(Len(file))) /\ file # <<>> /\ session' = "ready"
      <4>1. Len(file) > 0 /\ toSlave' = Append(toSlave, Ok(Len(file)))
        BY <1>2, <3>3 DEF ToSlave
      <4>2. pc = "sync" => toSlave' = <<Ok(Len(file))>>
        BY <2>1, <3>1, <4>1
      <4> QED
        BY <3>3, <4>1, <4>2
    <3>4. CASE ToSlave(ErrorFrame) /\ EndSync("closed")
      BY <2>1, <3>1, <3>4, Zenon DEF ToSlave, EndSync
    <3> QED
      BY <1>5, <3>2, <3>3, <3>4 DEF MasterNotify
  <2>3. ConnectionInv' /\ LinkInv'
    BY <1>1, <1>2, <2>1, <2>2 DEF LoadInv, ConnectionInv, LinkInv, Early, Late
  <2>4. ReplyInv' /\ RecvInv'
    BY <1>1, <2>1, <2>2 DEF LoadInv, ReplyInv, RecvInv, Late
  <2> QED
    BY <1>3, <2>3, <2>4 DEF LoadInv
<1>6. CASE MasterReads
  <2>1. /\ session = "reader" /\ toSlave' = toSlave
        /\ \/ /\ toMaster # <<>> /\ Head(toMaster) # "SYNC"
              /\ toMaster' = Tail(toMaster) /\ session' = "reader"
           \/ /\ toMaster = <<>> /\ ~SlaveOpen
              /\ session' = "closed" /\ toMaster' = toMaster
    BY <1>6 DEF MasterReads
  <2>2. toMaster \in Seq(NonSync) /\ toMaster' \in Seq(NonSync)
    BY <2>1 DEF LoadInv, ConnectionInv
  <2>3. ConnectionInv' /\ LinkInv'
    BY <1>1, <1>2, <2>1, <2>2 DEF LoadInv, ConnectionInv, LinkInv, Early, Late
  <2>4. ReplyInv'
    BY <1>1, <2>1, <2>2 DEF LoadInv, ConnectionInv, ReplyInv, SlaveOpen
  <2>5. RecvInv'
    BY <1>1, <2>1 DEF LoadInv, RecvInv, Sent, ErrorSent
  <2> QED
    BY <1>3, <2>3, <2>4, <2>5 DEF LoadInv
<1>7. CASE MasterReady
  <2>1. session = "ready" /\ toMaster \in Seq(NonSync)
    BY <1>7 DEF MasterReady, LoadInv, ConnectionInv
  <2>2. \/ /\ toMaster # <<>> /\ Head(toMaster) = "READY" /\ toMaster' = Tail(toMaster)
           /\ session' = "send" /\ left' = Len(file) /\ toSlave' = toSlave
        \/ /\ toMaster # <<>> /\ toMaster' = Tail(toMaster) /\ session' = "closed"
           /\ toSlave' = IF broken THEN toSlave ELSE Append(toSlave, ErrorFrame)
        \/ /\ toMaster = <<>> /\ ~SlaveOpen /\ toMaster' = toMaster /\ session' = "closed"
           /\ toSlave' = IF broken THEN toSlave ELSE Append(toSlave, ErrorFrame)
    BY <1>7 DEF MasterReady, EndSync, ToSlave
  <2>3. toMaster' \in Seq(NonSync) /\ (broken => toMaster' = <<>> /\ toSlave' = <<>>)
    <3>1. toMaster # <<>> => Tail(toMaster) \in Seq(NonSync)
      BY <2>1
    <3>2. broken => toMaster = <<>> /\ toSlave = <<>>
      BY Zenon DEF LoadInv, ConnectionInv
    <3> QED
      BY <2>1, <2>2, <3>1, <3>2
  <2>4. ConnectionInv' /\ LinkInv'
    BY <1>1, <1>2, <2>1, <2>2, <2>3 DEF LoadInv, ConnectionInv, LinkInv, Early, Late
  <2>5. ReplyInv'
    BY <1>1, <2>1, <2>2, <2>3 DEF LoadInv, ConnectionInv, ReplyInv, SlaveOpen
  <2>6. RecvInv'
    <3> SUFFICES ASSUME pc = "recv" PROVE RecvInv'
      BY <1>1 DEF RecvInv
    <3>1. /\ Sent(0) /\ buf \in Seq(Messages) /\ toSlave \in Seq(Messages)
          /\ Len(file) > 0 /\ size = Len(file) /\ Len(buf) < size
      BY <2>1 DEF LoadInv, RecvInv
    <3>2. buf = <<>> /\ toSlave = <<>> /\ Len(buf) = 0
      BY <3>1 DEF Sent
    <3>3. CASE session' = "send" /\ left' = Len(file) /\ toSlave' = toSlave
      <4>1. /\ Sent(0)' /\ Len(file) - left' = 0 /\ left' \in 1 .. Len(file')
            /\ \E n \in Nat : Sent(n)'
        BY <1>1, <1>2, <3>1, <3>3 DEF Sent
      <4>2. Sent(Len(file) - left)'
        BY <1>1, <4>1
      <4>3. broken \/ ~broken
        OBVIOUS
      <4> QED
        BY <1>1, <3>1, <3>3, <4>1, <4>2, <4>3 DEF RecvInv
    <3>4. CASE session' = "closed" /\ toSlave' = toSlave
      <4>1. Sent(0)'
        BY <1>1, <3>1, <3>4 DEF Sent
      <4> QED
        BY <1>1, <3>1, <3>4, <4>1 DEF RecvInv
    <3>5. CASE session' = "closed" /\ toSlave' = Append(toSlave, ErrorFrame)
      <4>1. toSlave' = <<ErrorFrame>> /\ ErrorFrame \in Messages
        BY <3>2, <3>5 DEF Messages
      <4>2. ErrorSent' /\ toSlave' \in Seq(Messages)
        BY <1>1, <3>2, <4>1 DEF ErrorSent
      <4> QED
        BY <1>1, <3>1, <3>5, <4>2 DEF RecvInv
    <3> QED
      BY <2>2, <3>3, <3>4, <3>5
  <2> QED
    BY <1>3, <2>4, <2>5, <2>6 DEF LoadInv
<1> QED
  BY <1>4, <1>5, <1>6, <1>7

\* One more piece: the prefix that was sent grows by it.
LEMMA SendFileKeepsInv ==
  ASSUME LoadInv, MasterSendFile
  PROVE  LoadInv'
<1>1. /\ session = "send" /\ build = "sendfile"
      /\ UNCHANGED <<build, file, pc, size, buf, toMaster, broken, link, notify_msg>>
      /\ \/ /\ ~broken /\ toSlave' = Append(toSlave, Piece(Len(file) - left + 1))
            /\ left' = left - 1
            /\ \/ left = 1 /\ session' = "reader"
               \/ left # 1 /\ session' = "send"
         \/ session' = "closed" /\ left' = left /\ toSlave' = toSlave
  BY DEF MasterSendFile, EndSync, slaveVars, rdmaVars
<1>2. /\ toMaster \in Seq(NonSync) /\ pc # "sync" /\ pc \notin Early
      /\ Whole' = Whole /\ Len(file) \in Nat
  BY <1>1, FileLength DEF LoadInv, ConnectionInv, ReplyInv, Whole
<1>3. ConnectionInv' /\ LinkInv' /\ ReplyInv' /\ LoadsWhole'
  BY <1>1, <1>2 DEF LoadInv, ConnectionInv, LinkInv, ReplyInv, LoadsWhole, Early, Late
<1>4. RecvInv'
  <2> SUFFICES ASSUME pc = "recv" PROVE RecvInv'
    BY <1>1 DEF RecvInv
  <2>1. /\ buf \in Seq(Messages) /\ toSlave \in Seq(Messages)
        /\ Len(file) > 0 /\ size = Len(file) /\ Len(buf) < size
        /\ Len(buf) \in Nat /\ Len(toSlave) \in Nat
    BY <1>1 DEF LoadInv, RecvInv
  <2>2. CASE /\ ~broken /\ toSlave' = Append(toSlave, Piece(Len(file) - left + 1))
             /\ left' = left - 1
             /\ \/ left = 1 /\ session' = "reader"
                \/ left # 1 /\ session' = "send"
    <3>1. left \in 1 .. Len(file) /\ Sent(Len(file) - left)
      BY <1>1, <2>2 DEF LoadInv, RecvInv
    <3>2. PICK n \in Nat : n = Len(file) - left
      BY <1>2, <3>1
    <3>3. /\ n + 1 \in 0 .. Len(file) /\ Piece(n + 1) \in Messages
          /\ Len(buf) + Len(toSlave) = n /\ toSlave' = Append(toSlave, Piece(n + 1))
      BY <1>2, <2>2, <3>1, <3>2 DEF Sent, Messages
    <3>4. /\ toSlave' \in Seq(Messages) /\ Len(toSlave') = Len(toSlave) + 1
          /\ toSlave'[Len(toSlave) + 1] = Piece(n + 1)
          /\ \A i \in 1 .. Len(toSlave) : toSlave'[i] = toSlave[i]
      BY <2>1, <3>3
    <3>5. \A i \in 1 .. Len(toSlave') : toSlave'[i] = Piece(Len(buf) + i)
      <4> SUFFICES ASSUME NEW i \in 1 .. Len(toSlave')
                   PROVE  toSlave'[i] = Piece(Len(buf) + i)
        OBVIOUS
      <4>1. CASE i \in 1 .. Len(toSlave)
        BY <3>1, <3>4, <4>1 DEF Sent
      <4>2. CASE i = Len(toSlave) + 1
        <5>1. Len(buf) + i = n + 1
          <6>1. Len(buf) \in Nat /\ Len(toSlave) \in Nat /\ Len(buf) + Len(toSlave) = n
            BY <2>1, <3>3
          <6>2. \A a, b \in Nat : a + (b + 1) = (a + b) + 1
            OBVIOUS
          <6> QED
            BY <4>2, <6>1, <6>2
        <5> QED
          BY <3>4, <4>2, <5>1
      <4> QED
        BY <2>1, <3>4, <4>1, <4>2
    <3>6. Len(buf) + Len(toSlave') = n + 1
      BY <2>1, <3>3, <3>4
    <3>7. \A i \in 1 .. Len(buf) : buf[i] = Piece(i)
      BY <3>1 DEF Sent
    <3>8. Sent(n + 1)'
      BY <1>1, <3>3, <3>5, <3>6, <3>7 DEF Sent
    <3>9. CASE left = 1 /\ session' = "reader"
      <4>1. \E k \in Nat : Sent(k)'
        BY <3>8
      <4> QED
        BY <1>1, <2>1, <3>4, <3>9, <4>1 DEF RecvInv
    <3>10. CASE left # 1 /\ session' = "send"
      <4>1. n + 1 = Len(file') - left' /\ left' \in 1 .. Len(file')
        BY <1>1, <1>2, <2>2, <3>1, <3>2, <3>10
      <4>2. Sent(Len(file) - left)'
        BY <3>8, <4>1 DEF Sent
      <4> QED
        BY <1>1, <2>1, <2>2, <3>4, <3>10, <4>1, <4>2 DEF RecvInv
    <3> QED
      BY <2>2, <3>9, <3>10
  <2>3. CASE session' = "closed" /\ left' = left /\ toSlave' = toSlave
    <3>1. \E n \in Nat : Sent(n)
      <4>1. left \in 1 .. Len(file) => Len(file) - left \in Nat
        BY <1>2
      <4> QED
        BY <1>1, <4>1 DEF LoadInv, RecvInv
    <3>2. \E n \in Nat : Sent(n)'
      BY <1>1, <2>3, <3>1 DEF Sent
    <3> QED
      BY <1>1, <2>1, <2>3, <3>2 DEF RecvInv
  <2> QED
    BY <1>1, <2>2, <2>3
<1> QED
  BY <1>3, <1>4 DEF LoadInv

\* The steps of rdma_client.
LEMMA ClientKeepsInv ==
  ASSUME LoadInv, MasterConnect \/ MasterConnected \/ MasterWrite \/ MasterPost
  PROVE  LoadInv'
<1>1. /\ session \in {"send", "connect", "write", "post"} /\ build = "rdma"
      /\ UNCHANGED <<build, file, pc, size, toMaster, toSlave, broken>>
  BY DEF LoadInv, LinkInv, MasterConnect, MasterConnected, MasterWrite, MasterPost, slaveVars
<1>2. /\ toMaster \in Seq(NonSync) /\ pc # "sync" /\ pc # "recv" /\ pc \notin Early
      /\ notify_msg = <<>> /\ Whole' = Whole
  BY <1>1 DEF LoadInv, ConnectionInv, LinkInv, ReplyInv, Whole
<1>3. /\ session' # "none" /\ session' \notin {"child", "ready"}
      /\ session' = "send" => session = "send" /\ link' = link
  BY DEF MasterConnect, MasterConnected, MasterWrite, MasterPost, MasterFails, EndSync
<1>4. ConnectionInv' /\ ReplyInv' /\ RecvInv'
  BY <1>1, <1>2, <1>3 DEF LoadInv, ConnectionInv, ReplyInv, RecvInv
<1>5. LoadsWhole'
  BY <1>1, <1>2 DEF LoadInv, LoadsWhole, MasterConnect, MasterConnected, MasterWrite, MasterPost,
                    slaveVars
<1>6. CASE MasterConnect
  <2>1. /\ session = "send" /\ buf' = buf /\ notify_msg' = <<>>
        /\ \/ /\ session' = "connect" /\ pc = "request"
              /\ link = "listening" /\ link' = "requested"
           \/ session' \in {"closed", "dead"} /\ link' = link
    BY <1>2, <1>6 DEF MasterConnect, MasterFails, EndSync, slaveVars
  <2> QED
    BY <1>1, <1>2, <2>1, <1>4, <1>5 DEF LoadInv, LinkInv, Late
<1>7. CASE MasterConnected
  <2>1. /\ session = "connect" /\ buf' = buf /\ link \in {"requested", "accepted", "closed"}
        /\ \/ session' = "closed" /\ link' = "closed" /\ notify_msg' \in {<<>>, <<"text">>}
           \/ session' = "write" /\ link = "accepted" /\ link' = link /\ notify_msg' = <<>>
    BY <1>2, <1>7 DEF MasterConnected, MasterFails, EndSync, LoadInv, LinkInv, slaveVars
  <2> QED
    BY <1>1, <1>2, <2>1, <1>4, <1>5 DEF LoadInv, LinkInv, Late
<1>8. CASE MasterWrite
  <2>1. /\ session = "write" /\ notify_msg' = <<>> /\ link \in {"accepted", "closed"}
        /\ \/ session' = "post" /\ link' = link /\ link = "accepted" /\ buf' = Whole
           \/ session' \in {"post", "closed"} /\ link' = "closed"
    BY <1>2, <1>8 DEF MasterWrite, MasterFails, EndSync, LoadInv, LinkInv, Whole
  <2> QED
    BY <1>1, <1>2, <2>1, <1>4, <1>5 DEF LoadInv, LinkInv, Late
<1>9. CASE MasterPost
  <2>1. /\ session = "post" /\ buf' = buf /\ link' = "closed" /\ link \in {"accepted", "closed"}
        /\ session' \in {"reader", "closed"}
        /\ \/ notify_msg' = <<>>
           \/ link = "accepted" /\ notify_msg' = <<"size", Len(file)>>
    BY <1>2, <1>9 DEF MasterPost, MasterFails, EndSync, LoadInv, LinkInv, slaveVars
  <2> QED
    BY <1>1, <1>2, <2>1, <1>4, <1>5 DEF LoadInv, LinkInv, Late
<1> QED
  BY <1>4, <1>5, <1>6, <1>7, <1>8, <1>9 DEF LoadInv

LEMMA ReplyKeepsInv ==
  ASSUME LoadInv, SlaveReply
  PROVE  LoadInv'
<1>1. /\ pc = "sync" /\ link = "none" /\ buf = <<>>
      /\ UNCHANGED <<build, file, session, left, buf, broken, link, notify_msg>>
  BY Zenon DEF SlaveReply, masterVars, rdmaVars, LoadInv, LinkInv, ReplyInv
<1>2. Whole' = Whole /\ Len(file) \in Nat
  BY <1>1, FileLength DEF Whole, LoadInv
<1>3. \A msg : Append(<<>>, msg) = <<msg>> /\ Head(<<msg>>) = msg /\ Tail(<<msg>>) = <<>>
  OBVIOUS
<1>4. /\ Ok(Len(file)) # ErrorFrame /\ Ok(0) # ErrorFrame
      /\ Ok(Len(file))[2] = Len(file) /\ ErrorFrame[1] # "FULLSYNC OK"
  BY DEF Ok, ErrorFrame
<1>5. /\ toMaster \in Seq(NonSync) /\ session # "none" /\ toSlave' = <<>>
      /\ \/ pc' \in {"failed", "synced"} /\ toMaster' \in {<<>>, <<"ERROR">>}
         \/ /\ session = "ready" /\ Len(file) > 0 /\ size' = Len(file)
            /\ \/ build = "rdma" /\ pc' = "listen" /\ toMaster' = <<>>
               \/ build = "sendfile" /\ pc' = "recv" /\ ~broken /\ toMaster' = <<"READY">>
      /\ broken => toMaster' = <<>>
  <2>1. CASE toSlave = <<>>
    <3>1. /\ ~MasterOpen /\ pc' = "failed" /\ toSlave' = toSlave
          /\ toMaster' = IF broken THEN toMaster ELSE Append(toMaster, "ERROR")
      BY <1>1, <2>1 DEF SlaveReply, Fails, ToMaster
    <3>2. toMaster = <<>> /\ session # "none"
      BY <1>1, <3>1 DEF MasterOpen, LoadInv, ConnectionInv, ReplyInv
    <3> QED
      BY <1>3, <2>1, <3>1, <3>2 DEF NonSync
  <2>2. CASE toSlave # <<>>
    <3>1. /\ toMaster = <<>> /\ session # "none" /\ ~broken
          /\ \/ toSlave = <<ErrorFrame>> \/ toSlave = <<Ok(0)>>
             \/ session = "ready" /\ Len(file) > 0 /\ toSlave = <<Ok(Len(file))>>
      BY <1>1, <2>2 DEF LoadInv, ConnectionInv, ReplyInv
    <3>2. toSlave' = Tail(toSlave)
      BY <2>2, Zenon DEF SlaveReply
    <3>3. CASE toSlave = <<ErrorFrame>>
      <4>1. Head(toSlave) = ErrorFrame /\ toSlave' = <<>>
        BY <1>3, <3>2, <3>3
      <4>2. pc' = "failed" /\ toMaster' = toMaster
        BY <1>4, <2>2, <4>1, Zenon DEF SlaveReply
      <4> QED
        BY <3>1, <4>1, <4>2 DEF NonSync
    <3>4. CASE toSlave = <<Ok(0)>>
      <4>1. Head(toSlave) = Ok(0) /\ toSlave' = <<>>
        BY <1>3, <3>2, <3>4
      <4>2. pc' = "synced" /\ toMaster' = toMaster
        BY <1>4, <2>2, <4>1, Zenon DEF SlaveReply
      <4> QED
        BY <3>1, <4>1, <4>2 DEF NonSync
    <3>5. CASE session = "ready" /\ Len(file) > 0 /\ toSlave = <<Ok(Len(file))>>
      <4>1. /\ Head(toSlave) = Ok(Len(file)) /\ toSlave' = <<>>
            /\ Ok(Len(file)) # Ok(0) /\ Ok(Len(file)) # ErrorFrame
        <5>1. Ok(Len(file)) # Ok(0)
          <6>1. Ok(0)[2] = 0
            BY DEF Ok
          <6>2. Len(file) > 0 => Len(file) # 0
            BY <1>2
          <6> QED
            BY <1>4, <3>5, <6>1, <6>2, Zenon
        <5> QED
          BY <1>3, <1>4, <3>2, <3>5, <5>1, Zenon
      <4>2. /\ size' = Len(file)
            /\ \/ build = "rdma" /\ pc' = "listen" /\ toMaster' = toMaster
               \/ build = "sendfile" /\ pc' = "recv" /\ ToMaster("READY")
               \/ pc' = "failed" /\ ToMaster("ERROR")
        BY <1>1, <1>4, <2>2, <4>1, Zenon DEF SlaveReply, Fails
      <4> QED
        BY <1>3, <3>1, <3>5, <4>1, <4>2 DEF ToMaster, NonSync
    <3> QED
      BY <3>1, <3>3, <3>4, <3>5
  <2> QED
    BY <2>1, <2>2
<1>6. toMaster' \in Seq(NonSync)
  <2>1. <<>> \in Seq(NonSync) /\ <<"ERROR">> \in Seq(NonSync) /\ <<"READY">> \in Seq(NonSync)
    BY DEF NonSync
  <2> QED
    BY <1>5, <2>1, Zenon
<1>7. ConnectionInv' /\ LinkInv' /\ ReplyInv' /\ LoadsWhole'
  BY <1>1, <1>2, <1>5, <1>6
  DEF LoadInv, ConnectionInv, LinkInv, ReplyInv, LoadsWhole, Early, Late
<1>8. RecvInv'
  <2> SUFFICES ASSUME pc' = "recv" PROVE RecvInv'
    BY DEF RecvInv
  <2>1. /\ session' = "ready" /\ Len(file') > 0 /\ size' = Len(file') /\ toMaster' = <<"READY">>
        /\ buf' = <<>> /\ toSlave' = <<>> /\ Len(buf') = 0 /\ Len(toSlave') = 0
    BY <1>1, <1>5
  <2>2. Sent(0)' /\ buf' \in Seq(Messages) /\ toSlave' \in Seq(Messages) /\ Len(buf') < size'
    BY <1>1, <1>2, <2>1 DEF Sent
  <2> QED
    BY <2>1, <2>2 DEF RecvInv
<1> QED
  BY <1>7, <1>8 DEF LoadInv

\* What is received moves from the connection to the buffer: the prefix stays.
LEMMA MoveKeepsSent ==
  ASSUME buf \in Seq(Messages), toSlave \in Seq(Messages), toSlave # <<>>,
         buf' = Append(buf, Head(toSlave)), toSlave' = Tail(toSlave), file' = file,
         NEW n \in Nat, Sent(n)
  PROVE  Sent(n)'
<1>1. Len(buf) \in Nat /\ Len(toSlave) \in Nat /\ Len(toSlave) > 0
  OBVIOUS
<1>2. /\ Len(buf') = Len(buf) + 1 /\ buf'[Len(buf) + 1] = Head(toSlave)
      /\ \A i \in 1 .. Len(buf) : buf'[i] = buf[i]
  OBVIOUS
<1>3. /\ Len(toSlave') = Len(toSlave) - 1 /\ Head(toSlave) = toSlave[1]
      /\ \A i \in 1 .. Len(toSlave) - 1 : toSlave'[i] = toSlave[i + 1]
  OBVIOUS
<1>4. Len(buf') + Len(toSlave') = n
  <2>1. Len(buf) + Len(toSlave) = n
    BY DEF Sent
  <2>2. \A a, b \in Nat : (a + 1) + (b - 1) = a + b
    OBVIOUS
  <2> QED
    BY <1>1, <1>2, <1>3, <2>1, <2>2, Zenon
<1>5. ASSUME NEW i \in 1 .. Len(buf') PROVE buf'[i] = Piece(i)
  <2>1. CASE i \in 1 .. Len(buf)
    BY <1>2, <2>1 DEF Sent
  <2>2. CASE i = Len(buf) + 1
    <3>1. toSlave[1] = Piece(Len(buf) + 1)
      BY <1>1 DEF Sent
    <3> QED
      BY <1>2, <1>3, <2>2, <3>1
  <2> QED
    BY <1>1, <1>2, <2>1, <2>2
<1>6. ASSUME NEW i \in 1 .. Len(toSlave') PROVE toSlave'[i] = Piece(Len(buf') + i)
  <2>1. i \in Nat /\ i \in 1 .. Len(toSlave) - 1 /\ i + 1 \in 1 .. Len(toSlave)
    BY <1>1, <1>3
  <2>2. toSlave[i + 1] = Piece(Len(buf) + (i + 1))
    BY <2>1 DEF Sent
  <2>3. Len(buf) + (i + 1) = Len(buf') + i
    <3>1. \A a, b \in Nat : a + (b + 1) = (a + 1) + b
      OBVIOUS
    <3> QED
      BY <1>1, <1>2, <2>1, <3>1
  <2> QED
    BY <1>3, <2>1, <2>2, <2>3
<1>7. n \in 0 .. Len(file')
  BY Zenon DEF Sent
<1> QED
  BY <1>4, <1>5, <1>6, <1>7, Zenon DEF Sent

LEMMA RecvKeepsInv ==
  ASSUME LoadInv, SlaveRecv
  PROVE  LoadInv'
<1>1. /\ pc = "recv" /\ build = "sendfile" /\ link = "none" /\ notify_msg = <<>>
      /\ UNCHANGED <<build, file, session, left, size, broken, link, notify_msg>>
      /\ session \in {"ready", "send", "reader", "closed"} /\ toMaster \in Seq(NonSync)
  BY DEF SlaveRecv, masterVars, rdmaVars, LoadInv, ConnectionInv, LinkInv, RecvInv
<1>2. /\ Len(file) > 0 /\ size = Len(file) /\ Len(buf) < size
      /\ buf \in Seq(Messages) /\ toSlave \in Seq(Messages)
      /\ Whole' = Whole /\ Len(file) \in Nat
  BY <1>1, FileLength DEF LoadInv, RecvInv, Whole
<1>3. CASE toSlave = <<>>
  <2>1. /\ pc' = "failed" /\ toSlave' = toSlave /\ buf' = buf
        /\ toMaster' = IF broken THEN toMaster ELSE Append(toMaster, "ERROR")
    BY <1>1, <1>3 DEF SlaveRecv, Fails, ToMaster
  <2>2. toMaster' \in Seq(NonSync)
    BY <1>1, <2>1 DEF NonSync
  <2> QED
    BY <1>1, <1>2, <2>1, <2>2
    DEF LoadInv, ConnectionInv, LinkInv, ReplyInv, RecvInv, LoadsWhole, Early, Late
<1>4. CASE toSlave # <<>>
  <2>1. /\ toSlave' = Tail(toSlave) /\ buf' = Append(buf, Head(toSlave)) /\ toMaster' = toMaster
        /\ pc' = IF Len(buf') = size THEN "received" ELSE pc
    BY <1>1, <1>4 DEF SlaveRecv
  <2>2. /\ buf' \in Seq(Messages) /\ toSlave' \in Seq(Messages)
        /\ Len(buf') = Len(buf) + 1 /\ Len(buf) \in Nat /\ Len(toSlave) > 0
        /\ \A n \in Nat : Sent(n) => Sent(n)'
    <3>1. \A n \in Nat : Sent(n) => Sent(n)'
      BY <1>1, <1>2, <1>4, <2>1, MoveKeepsSent
    <3> QED
      BY <1>2, <1>4, <2>1, <3>1
  <2>3. ~broken /\ session # "ready"
    BY <1>1, <1>4, <2>2 DEF LoadInv, ConnectionInv, RecvInv, Sent
  <2>4. ConnectionInv' /\ LinkInv' /\ ReplyInv'
    BY <1>1, <1>2, <2>1, <2>3 DEF LoadInv, ConnectionInv, LinkInv, ReplyInv, Early, Late
  <2>5. \/ session = "send" /\ left \in 1 .. Len(file) /\ ~broken /\ Sent(Len(file) - left)'
        \/ session \in {"reader", "closed"} /\ \E n \in Nat : Sent(n)'
        \/ session = "closed" /\ ErrorSent'
    <3>1. CASE session = "send" /\ left \in 1 .. Len(file) /\ Sent(Len(file) - left)
      <4>1. PICK n \in Nat : n = Len(file) - left
        BY <1>2, <3>1
      <4>2. Sent(n)' /\ n = Len(file') - left'
        BY <1>1, <2>2, <3>1, <4>1
      <4>3. Sent(Len(file) - left)'
        BY <4>2 DEF Sent
      <4> QED
        BY <2>3, <3>1, <4>3
    <3>2. CASE session \in {"reader", "closed"} /\ \E n \in Nat : Sent(n)
      BY <2>2, <3>2
    <3>3. CASE session = "closed" /\ ErrorSent
      <4>1. buf = <<>> /\ toSlave = <<ErrorFrame>>
        BY <1>4, <3>3 DEF ErrorSent
      <4>2. Append(<<>>, ErrorFrame) = <<ErrorFrame>> /\ Head(<<ErrorFrame>>) = ErrorFrame
            /\ Tail(<<ErrorFrame>>) = <<>>
        OBVIOUS
      <4> QED
        BY <2>1, <3>3, <4>1, <4>2 DEF ErrorSent
    <3> QED
      BY <1>1, <2>3, <3>1, <3>2, <3>3 DEF LoadInv, RecvInv
  <2>6. RecvInv'
    <3> SUFFICES ASSUME pc' = "recv" PROVE RecvInv'
      BY DEF RecvInv
    <3>1. Len(buf') < size'
      BY <1>1, <1>2, <2>1, <2>2
    <3> QED
      BY <1>1, <1>2, <2>2, <2>3, <2>5, <3>1 DEF RecvInv
  <2>7. LoadsWhole'
    <3> SUFFICES ASSUME Len(buf') = size
                 PROVE  buf' = Whole \/ (buf' = <<ErrorFrame>> /\ Len(file) = 1)
      BY <1>1, <1>2, <2>1 DEF LoadsWhole
    <3>1. CASE \E n \in Nat : Sent(n)'
      <4>1. \A i \in 1 .. Len(file) : buf'[i] = Piece(i)
        BY <1>2, <3>1 DEF Sent
      <4>2. buf' = [i \in 1 .. Len(buf') |-> buf'[i]]
        BY <2>2
      <4> QED
        BY <1>2, <4>1, <4>2 DEF Whole
    <3>2. CASE ErrorSent'
      <4>1. buf' = <<ErrorFrame>>
        BY <1>2, <3>2 DEF ErrorSent
      <4> QED
        BY <1>2, <4>1
    <3>3. ASSUME left \in 1 .. Len(file), Sent(Len(file) - left)'
          PROVE  \E n \in Nat : Sent(n)'
      <4>1. Len(file') - left' \in Nat
        BY <1>1, <1>2, <3>3
      <4>2. PICK n \in Nat : n = Len(file') - left'
        BY <4>1
      <4>3. Sent(n)'
        BY <3>3, <4>2 DEF Sent
      <4> QED
        BY <4>3
    <3> QED
      BY <2>5, <3>1, <3>2, <3>3
  <2> QED
    BY <2>4, <2>6, <2>7 DEF LoadInv
<1> QED
  BY <1>3, <1>4

\* The steps of rdma_server.
LEMMA ServerKeepsInv ==
  ASSUME LoadInv, SlaveListen \/ SlaveRequest \/ SlavePoll
  PROVE  LoadInv'
<1>1. /\ pc \in {"listen", "request", "poll"} /\ build = "rdma"
      /\ UNCHANGED <<build, file, session, left, size, buf, toSlave, broken, notify_msg>>
      /\ toMaster \in Seq(NonSync) /\ session \notin {"none", "child"} /\ Whole' = Whole
  BY DEF SlaveListen, SlaveRequest, SlavePoll, masterVars, LoadInv, ConnectionInv, LinkInv,
         Early, Late, Whole
<1>2. toMaster' \in Seq(NonSync) /\ (broken => toMaster' = toMaster)
  BY <1>1 DEF SlaveListen, SlaveRequest, SlavePoll, Fails, ToMaster, NonSync
<1>3. pc' \in {"request", "poll", "received", "failed", "dead"}
  BY DEF SlaveListen, SlaveRequest, SlavePoll, Fails
<1>4. ConnectionInv' /\ ReplyInv' /\ RecvInv'
  BY <1>1, <1>2, <1>3 DEF LoadInv, ConnectionInv, ReplyInv, RecvInv, Early
<1>5. CASE SlaveListen
  <2>1. /\ pc = "listen" /\ link = "none"
        /\ \/ pc' = "request" /\ link' = "listening"
           \/ pc' \in {"failed", "dead"} /\ link' = link
    BY <1>5 DEF SlaveListen, Fails, LoadInv, LinkInv
  <2> QED
    BY <1>1, <1>3, <1>4, <2>1 DEF LoadInv, LinkInv, LoadsWhole, Late
<1>6. CASE SlaveRequest
  <2>1. /\ pc = "request" /\ link = "requested"
        /\ \/ pc' = "poll" /\ link' = "accepted"
           \/ pc' = "failed" /\ link' = "closed"
    BY <1>6 DEF SlaveRequest, Fails
  <2> QED
    BY <1>1, <1>3, <1>4, <2>1 DEF LoadInv, LinkInv, LoadsWhole, Late
<1>7. CASE SlavePoll
  <2>1. /\ pc = "poll" /\ link' = "closed"
        /\ \/ pc' = "received" /\ notify_msg # <<>> /\ notify_msg[1] = "size"
           \/ pc' = "failed"
    BY <1>7 DEF SlavePoll, Fails
  <2> QED
    BY <1>1, <1>3, <1>4, <2>1 DEF LoadInv, LinkInv, LoadsWhole, Late
<1> QED
  BY <1>5, <1>6, <1>7

LEMMA LoadInvNext ==
  ASSUME LoadInv, [Next]_vars
  PROVE  LoadInv'
<1>1. CASE MasterStep
  BY <1>1, MasterKeepsInv, SendFileKeepsInv, ClientKeepsInv DEF MasterStep
<1>2. CASE SlaveTransfer
  BY <1>2, ReplyKeepsInv, RecvKeepsInv, ServerKeepsInv DEF SlaveTransfer
<1>3. CASE StartsSync
  BY <1>3, SyncKeepsInv
<1>4. CASE LinkBreaks
  BY <1>4, BreakKeepsInv
<1> QED
  BY <1>1, <1>2, <1>3, <1>4, MainKeepsInv DEF Next, SlaveStep

\* What kvs_slave_full_sync hands to kvs_file_read is the snapshot the master
\* wrote, from its first record to its last, or the frame FULLSYNC ERROR in the
\* place of a file of its length: for every file, window and set of failures, and
\* with both transports.
THEOREM AlwaysLoadsWhole == Spec => []LoadsWhole
<1>1. LoadInv => LoadsWhole
  BY DEF LoadInv
<1> QED
  BY <1>1, LoadInvInit, LoadInvNext, PTL DEF Spec
-----------------------------------------------------------------------------
(* FULLSYNC FINISHED reaches a master that reads.                           *)
IsFinished(q) == q # <<>> /\ q[Len(q)] = "FINISHED"

Serving == {"serve", "stopped", "dead"}

\* A slave gets as far as "synced" only with a master that sent everything and
\* reads again, unless the connection broke or the file was the error frame.
HeardInv ==
  /\ pc = "sync" /\ toSlave = <<Ok(0)>> => session = "reader"
  /\ pc = "recv" /\ session = "closed" /\ ~broken =>
       ErrorSent \/ Len(buf) + Len(toSlave) < Len(file)
  /\ pc \in {"listen", "request", "poll"} /\ notify_msg # <<>> /\ notify_msg[1] = "size" =>
       broken \/ session = "reader"
  /\ pc \in {"received", "synced"} => broken \/ session = "reader" \/ buf = <<ErrorFrame>>
  /\ IsFinished(toMaster) => pc \in Serving /\ (session = "reader" \/ buf = <<ErrorFrame>>)

LEMMA LastMessage ==
  /\ ~IsFinished(<<>>) /\ ~IsFinished(<<"SYNC">>)
  /\ \A q \in Seq(NonSync), msg \in NonSync :
       IsFinished(Append(q, msg)) => msg = "FINISHED"
  /\ \A q \in Seq(NonSync) : q # <<>> /\ IsFinished(Tail(q)) => IsFinished(q)
<1>1. ~IsFinished(<<>>) /\ ~IsFinished(<<"SYNC">>)
  BY DEF IsFinished
<1>2. ASSUME NEW q \in Seq(NonSync), NEW msg \in NonSync, IsFinished(Append(q, msg))
      PROVE  msg = "FINISHED"
  BY <1>2 DEF IsFinished
<1>3. ASSUME NEW q \in Seq(NonSync), q # <<>>, IsFinished(Tail(q))
      PROVE  IsFinished(q)
  <2>1. Len(Tail(q)) = Len(q) - 1 /\ Len(q) \in Nat /\ Len(Tail(q)) # 0
    BY <1>3 DEF IsFinished
  <2>2. Tail(q)[Len(Tail(q))] = q[Len(q)]
    BY <1>3, <2>1
  <2> QED
    BY <1>3, <2>2 DEF IsFinished
<1> QED
  BY <1>1, <1>2, <1>3

\* No reply is taken for another.
LEMMA Frames ==
  /\ ErrorFrame # Ok(0) /\ <<ErrorFrame>> # <<Ok(0)>> /\ <<>> # <<Ok(0)>>
  /\ \A n \in Nat : <<Ok(n)>> = <<Ok(0)>> => n = 0
<1>1. ErrorFrame # Ok(0)
  BY DEF ErrorFrame, Ok
<1>2. ASSUME NEW x, NEW y, <<x>> = <<y>> PROVE x = y
  <2>1. <<x>>[1] = <<y>>[1]
    BY <1>2, Zenon
  <2> QED
    BY <2>1
<1>3. ASSUME NEW n \in Nat, Ok(n) = Ok(0) PROVE n = 0
  <2>1. Ok(n)[2] = Ok(0)[2]
    BY <1>3, Zenon
  <2> QED
    BY <2>1 DEF Ok
<1>4. <<>> # <<Ok(0)>>
  OBVIOUS
<1> QED
  BY <1>1, <1>2, <1>3, <1>4, Zenon

LEMMA MainKeepsHeard ==
  ASSUME LoadInv, HeardInv,
         \/ Config \/ KvsInit \/ NoSync \/ SlaveLoad \/ SlaveJoin \/ ServesAnyway
         \/ Deinit \/ Dies \/ UNCHANGED vars
  PROVE  HeardInv'
<1>1. UNCHANGED <<file, session, buf, toSlave, broken, notify_msg>>
  BY Zenon DEF Config, KvsInit, NoSync, SlaveLoad, SlaveJoin, ServesAnyway, Deinit, Dies,
         masterVars, rdmaVars, transferVars, vars, slaveVars
<1>2. \/ pc' = pc /\ toMaster' = toMaster
      \/ pc \in Early /\ pc' \in {"init", "connect"} /\ toMaster' = toMaster
      \/ pc' \in Serving /\ toMaster' = toMaster
      \/ pc = "received" /\ pc' = "synced" /\ toMaster' = toMaster
      \/ pc = "received" /\ pc' = "failed" /\ ToMaster("ERROR")
      \/ pc = "synced" /\ pc' = "serve" /\ ToMaster("FINISHED")
  BY Zenon DEF Config, KvsInit, NoSync, SlaveLoad, SlaveJoin, ServesAnyway, Deinit, Dies,
         transferVars, vars, slaveVars, Early, Serving, Fails
<1>3. ErrorSent' = ErrorSent
  BY <1>1 DEF ErrorSent
<1>4. CASE pc \in Early
  <2>1. toMaster = <<>> /\ pc \notin {"received", "synced"}
    BY <1>4 DEF LoadInv, ConnectionInv, Early
  <2>2. toMaster' = <<>> /\ pc' \in Early \cup Serving
    BY <1>2, <1>4, <2>1 DEF Early
  <2> QED
    BY <2>2, LastMessage DEF HeardInv, Early, Serving
<1>5. CASE pc \notin Early
  <2>1. CASE pc' = pc /\ toMaster' = toMaster
    BY <1>1, <1>3, <2>1, Zenon DEF HeardInv
  <2>2. CASE pc' \in Serving /\ toMaster' = toMaster
    BY <1>1, <2>2 DEF HeardInv, Serving
  <2>3. CASE pc = "received" /\ pc' = "synced" /\ toMaster' = toMaster
    BY <1>1, <2>3 DEF HeardInv, Serving
  <2>4. CASE pc = "received" /\ pc' = "failed" /\ ToMaster("ERROR")
    <3>1. toMaster \in Seq(NonSync) /\ ~IsFinished(toMaster)
      BY <2>4 DEF LoadInv, ConnectionInv, HeardInv, Serving
    <3>2. ~IsFinished(toMaster')
      BY <2>4, <3>1, LastMessage DEF ToMaster, NonSync
    <3> QED
      BY <2>4, <3>2 DEF HeardInv
  <2>5. CASE pc = "synced" /\ pc' = "serve" /\ ToMaster("FINISHED")
    <3>1. broken => ~IsFinished(toMaster')
      BY <2>5 DEF HeardInv, ToMaster, Serving
    <3>2. ~broken => session' = "reader" \/ buf' = <<ErrorFrame>>
      BY <1>1, <2>5 DEF HeardInv
    <3> QED
      BY <2>5, <3>1, <3>2 DEF HeardInv, Serving
  <2> QED
    BY <1>2, <1>5, <2>1, <2>2, <2>3, <2>4, <2>5
<1> QED
  BY <1>4, <1>5

LEMMA MasterKeepsHeard ==
  ASSUME LoadInv, HeardInv, MasterFork \/ MasterNotify \/ MasterReady \/ MasterReads
  PROVE  HeardInv'
<1>1. UNCHANGED <<file, pc, buf, broken, notify_msg>>
  BY DEF MasterFork, MasterNotify, MasterReady, MasterReads, slaveVars, rdmaVars
<1>2. Len(file) \in Nat /\ (file = <<>> <=> Len(file) = 0)
  BY FileLength DEF LoadInv
<1>3. ASSUME session # "reader", IsFinished(toMaster') => IsFinished(toMaster),
             pc = "sync" => toSlave' # <<Ok(0)>> \/ session' = "reader",
             pc = "recv" /\ session' = "closed" /\ ~broken => ErrorSent',
             notify_msg = <<>>
      PROVE  HeardInv'
  BY <1>1, <1>3, Zenon DEF HeardInv
<1>4. CASE MasterFork
  <2>1. toMaster # <<>> /\ Head(toMaster) = "SYNC" /\ toMaster' = Tail(toMaster)
    BY <1>4 DEF MasterFork
  <2>2. toMaster = <<"SYNC">> /\ toSlave = <<>> /\ pc \in {"sync", "dead"} /\ toMaster' = <<>>
    <3>1. toMaster \notin Seq(NonSync)
      BY <2>1 DEF NonSync
    <3>2. toMaster = <<"SYNC">> => Tail(toMaster) = <<>>
      OBVIOUS
    <3> QED
      BY <2>1, <3>1, <3>2 DEF LoadInv, ConnectionInv
  <2>3. toSlave' # <<Ok(0)>>
    <3>1. Append(<<>>, ErrorFrame) = <<ErrorFrame>>
      OBVIOUS
    <3> QED
      BY <1>4, <2>2, <3>1, Frames DEF MasterFork, ToSlave
  <2> QED
    BY <1>1, <2>2, <2>3, LastMessage DEF HeardInv
<1>5. CASE MasterNotify
  <2>1. /\ session = "child" /\ toMaster' = toMaster /\ pc # "recv" /\ notify_msg = <<>>
        /\ pc = "sync" => toSlave = <<>>
    BY <1>5 DEF MasterNotify, LoadInv, LinkInv, ReplyInv, Late
  <2>2. pc = "sync" => toSlave' # <<Ok(0)>> \/ session' = "reader"
    <3>1. \A msg : Append(<<>>, msg) = <<msg>>
      OBVIOUS
    <3>2. CASE ToSlave(Ok(Len(file))) /\ (file = <<>> => EndSync("reader"))
      <4>1. file = <<>> => session' = "reader"
        BY <3>2 DEF EndSync
      <4>2. pc = "sync" => toSlave' \in {<<>>, <<Ok(Len(file))>>}
        BY <2>1, <3>1, <3>2 DEF ToSlave
      <4> QED
        BY <1>2, <4>1, <4>2, Frames, Zenon
    <3>3. CASE ToSlave(ErrorFrame)
      <4>1. pc = "sync" => toSlave' \in {<<>>, <<ErrorFrame>>}
        BY <2>1, <3>1, <3>3 DEF ToSlave
      <4> QED
        BY <4>1, Frames
    <3> QED
      BY <1>5, <3>2, <3>3, Zenon DEF MasterNotify
  <2> QED
    BY <1>3, <2>1, <2>2
<1>6. CASE MasterReady
  <2>1. session = "ready" /\ toMaster \in Seq(NonSync) /\ notify_msg = <<>>
    BY <1>6 DEF MasterReady, LoadInv, ConnectionInv, LinkInv
  <2>2. \/ /\ toMaster # <<>> /\ toMaster' = Tail(toMaster)
           /\ session' = "send" /\ toSlave' = toSlave
        \/ /\ toMaster # <<>> /\ toMaster' = Tail(toMaster) /\ session' = "closed"
           /\ toSlave' = IF broken THEN toSlave ELSE Append(toSlave, ErrorFrame)
        \/ /\ toMaster = <<>> /\ ~SlaveOpen /\ toMaster' = toMaster /\ session' = "closed"
           /\ toSlave' = IF broken THEN toSlave ELSE Append(toSlave, ErrorFrame)
    BY <1>6, Zenon DEF MasterReady, EndSync, ToSlave
  <2>3. IsFinished(toMaster') => IsFinished(toMaster)
    BY <2>1, <2>2, LastMessage, Zenon
  <2>4. pc = "sync" => toSlave' # <<Ok(0)>>
    <3>1. pc = "sync" => toMaster = <<>> /\ (SlaveOpen \/ broken)
      BY <2>1 DEF LoadInv, ReplyInv, SlaveOpen
    <3>2. broken => toSlave = <<>>
      BY DEF LoadInv, ConnectionInv
    <3> QED
      BY <2>2, <3>1, <3>2, Frames
  <2>5. ASSUME pc = "recv", session' = "closed", ~broken PROVE ErrorSent'
    <3>1. buf = <<>> /\ toSlave = <<>>
      <4>1. Sent(0) /\ buf \in Seq(Messages) /\ toSlave \in Seq(Messages)
        BY <2>1, <2>5 DEF LoadInv, RecvInv
      <4> QED
        BY <4>1 DEF Sent
    <3>2. toSlave' = Append(<<>>, ErrorFrame) /\ Append(<<>>, ErrorFrame) = <<ErrorFrame>>
      BY <2>2, <2>5, <3>1
    <3> QED
      BY <1>1, <3>1, <3>2 DEF ErrorSent
  <2> QED
    BY <1>3, <2>1, <2>3, <2>4, <2>5
<1>7. CASE MasterReads
  <2>1. /\ session = "reader" /\ toSlave' = toSlave
        /\ \/ toMaster # <<>> /\ Head(toMaster) # "SYNC"
              /\ toMaster' = Tail(toMaster) /\ session' = "reader"
           \/ toMaster = <<>> /\ ~SlaveOpen /\ session' = "closed" /\ toMaster' = toMaster
    BY <1>7 DEF MasterReads
  <2>2. CASE toMaster # <<>> /\ toMaster' = Tail(toMaster) /\ session' = "reader"
    <3>1. toMaster \in Seq(NonSync)
      BY <2>1, <2>2 DEF LoadInv, ConnectionInv
    <3>2. IsFinished(toMaster') => IsFinished(toMaster)
      BY <2>2, <3>1, LastMessage
    <3> QED
      BY <1>1, <2>2, <3>2 DEF HeardInv
  <2>3. CASE toMaster = <<>> /\ ~SlaveOpen /\ session' = "closed" /\ toMaster' = toMaster
    <3>1. /\ pc \in {"sync", "recv", "listen", "request", "poll", "received", "synced"} => broken
          /\ broken => toSlave = <<>>
      BY <2>3 DEF SlaveOpen, LoadInv, ConnectionInv
    <3> QED
      BY <1>1, <2>1, <2>3, <3>1, LastMessage, Frames DEF HeardInv
  <2> QED
    BY <2>1, <2>2, <2>3
<1> QED
  BY <1>4, <1>5, <1>6, <1>7

\* Sending the file, with both transports.
LEMMA SendKeepsHeard ==
  ASSUME LoadInv, HeardInv,
         MasterSendFile \/ MasterConnect \/ MasterConnected \/ MasterWrite \/ MasterPost
  PROVE  HeardInv'
<1>1. /\ session \in {"send", "connect", "write", "post"}
      /\ UNCHANGED <<file, pc, broken, toMaster>>
      /\ pc # "poll" => buf' = buf
  BY Zenon DEF MasterSendFile, MasterConnect, MasterConnected, MasterWrite, MasterPost, slaveVars
<1>2. pc # "sync" /\ notify_msg = <<>>
  BY <1>1 DEF LoadInv, ReplyInv, LinkInv
<1>3. /\ pc \in {"received", "synced"} => broken' \/ buf' = <<ErrorFrame>>
      /\ IsFinished(toMaster') => pc' \in Serving /\ buf' = <<ErrorFrame>>
  BY <1>1 DEF HeardInv, Serving
<1>4. CASE MasterSendFile
  <2>1. /\ build = "sendfile" /\ session = "send" /\ UNCHANGED <<buf, notify_msg>>
        /\ session' = "closed" => toSlave' = toSlave
    BY <1>4 DEF MasterSendFile, slaveVars, rdmaVars
  <2>2. pc = "recv" /\ session' = "closed" /\ ~broken => Len(buf) + Len(toSlave) < Len(file)
    <3>1. Len(file) \in Nat
      BY FileLength DEF LoadInv
    <3>2. ASSUME pc = "recv", ~broken
          PROVE  left \in 1 .. Len(file) /\ Len(buf) + Len(toSlave) = Len(file) - left
      <4>1. left \in 1 .. Len(file) /\ Sent(Len(file) - left)
        BY <2>1, <3>2, Zenon DEF LoadInv, RecvInv
      <4> QED
        BY <4>1, Zenon DEF Sent
    <3> QED
      BY <3>1, <3>2
  <2> QED
    BY <1>1, <1>2, <1>3, <2>1, <2>2 DEF HeardInv
<1>5. CASE MasterConnect \/ MasterConnected \/ MasterWrite \/ MasterPost
  <2>1. build = "rdma"
    BY <1>5, Zenon DEF MasterConnect, MasterConnected, MasterWrite, MasterPost, LoadInv, LinkInv
  <2>2. pc # "recv"
    BY <2>1 DEF LoadInv, LinkInv
  <2>3. notify_msg' # <<>> /\ notify_msg'[1] = "size" => session' = "reader"
    <3>1. <<"text">>[1] # "size"
      OBVIOUS
    <3>2. \/ notify_msg' = notify_msg \/ notify_msg' = <<"text">> \/ session' = "reader"
      BY <1>5, Zenon DEF MasterConnect, MasterConnected, MasterWrite, MasterPost, EndSync
    <3> QED
      BY <1>2, <3>1, <3>2, Zenon
  <2> QED
    BY <1>1, <1>2, <1>3, <2>2, <2>3 DEF HeardInv
<1> QED
  BY <1>4, <1>5

LEMMA SlaveKeepsHeard ==
  ASSUME LoadInv, HeardInv, SlaveTransfer
  PROVE  HeardInv'
<1>1. /\ pc \in {"sync", "recv", "listen", "request", "poll"}
      /\ UNCHANGED <<file, session, broken, notify_msg>>
  BY Zenon DEF SlaveTransfer, SlaveReply, SlaveRecv, SlaveListen, SlaveRequest, SlavePoll,
     masterVars, rdmaVars
<1>2. ~IsFinished(toMaster')
  <2>1. ~IsFinished(toMaster)
    BY <1>1 DEF HeardInv, Serving
  <2>2. toMaster' = toMaster \/ \E msg \in {"READY", "ERROR"} : toMaster' = Append(toMaster, msg)
    BY Zenon DEF SlaveTransfer, SlaveReply, SlaveRecv, SlaveListen, SlaveRequest, SlavePoll,
       Fails, ToMaster
  <2>3. ASSUME NEW msg \in {"READY", "ERROR"}, toMaster' = Append(toMaster, msg)
        PROVE  ~IsFinished(toMaster')
    <3>1. CASE toMaster \in Seq(NonSync)
      BY <2>3, <3>1, LastMessage DEF NonSync
    <3>2. CASE toMaster = <<"SYNC">>
      <4>1. Len(toMaster') = 2 /\ toMaster'[2] = msg
        BY <2>3, <3>2
      <4> QED
        BY <4>1 DEF IsFinished
    <3> QED
      BY <3>1, <3>2 DEF LoadInv, ConnectionInv
  <2> QED
    BY <2>1, <2>2, <2>3
<1>3. CASE SlaveReply
  <2>1. /\ pc = "sync" /\ pc' \in {"failed", "synced", "listen", "recv"}
        /\ pc' = "synced" => toSlave # <<>> /\ Head(toSlave) = Ok(0)
    BY <1>3, Zenon DEF SlaveReply, Fails
  <2>2. pc' = "synced" => session = "reader"
    <3>1. /\ toSlave \in {<<>>, <<ErrorFrame>>, <<Ok(0)>>, <<Ok(Len(file))>>}
          /\ toSlave = <<Ok(Len(file))>> => Len(file) > 0 \/ toSlave = <<Ok(0)>>
      BY <2>1 DEF LoadInv, ReplyInv
    <3>2. \A x : Head(<<x>>) = x
      OBVIOUS
    <3>3. pc' = "synced" => toSlave = <<Ok(0)>>
      BY <2>1, <3>1, <3>2, Frames, Zenon
    <3> QED
      BY <2>1, <3>3 DEF HeardInv
  <2>3. pc' \in {"recv", "listen"} => session = "ready" /\ notify_msg = <<>>
    <3>1. pc' \in {"recv", "listen"} =>
            toSlave # <<>> /\ Head(toSlave) # Ok(0) /\ Head(toSlave) # ErrorFrame
      <4>1. ErrorFrame[1] # "FULLSYNC OK"
        BY DEF ErrorFrame
      <4> QED
        BY <1>3, <4>1, Zenon DEF SlaveReply, Fails
    <3>2. \A x : Head(<<x>>) = x
      OBVIOUS
    <3> QED
      BY <2>1, <3>1, <3>2 DEF LoadInv, ReplyInv, LinkInv
  <2> QED
    BY <1>1, <1>2, <2>1, <2>2, <2>3 DEF HeardInv
<1>4. CASE SlaveRecv
  <2>1. CASE pc' = "failed"
    BY <1>2, <2>1 DEF HeardInv
  <2>2. CASE pc' # "failed"
    <3>1. /\ pc = "recv" /\ toSlave # <<>> /\ toSlave' = Tail(toSlave) /\ size' = size
          /\ buf' = Append(buf, Head(toSlave))
          /\ pc' = IF Len(buf') = size THEN "received" ELSE pc
      BY <1>4, <2>2 DEF SlaveRecv, Fails
    <3>2. /\ buf \in Seq(Messages) /\ toSlave \in Seq(Messages) /\ size = Len(file)
          /\ Len(file) \in Nat /\ Len(file) > 0 /\ Len(buf) < size
      BY <3>1, FileLength DEF LoadInv, RecvInv
    <3>3. /\ Len(buf') = Len(buf) + 1 /\ Len(toSlave') = Len(toSlave) - 1
          /\ Len(buf) \in Nat /\ Len(toSlave) \in Nat \ {0}
      BY <3>1, <3>2
    <3>4. ErrorSent => ErrorSent'
      <4>1. /\ Append(<<>>, ErrorFrame) = <<ErrorFrame>> /\ Head(<<ErrorFrame>>) = ErrorFrame
            /\ Tail(<<ErrorFrame>>) = <<>>
        OBVIOUS
      <4> QED
        BY <3>1, <4>1, Zenon DEF ErrorSent
    <3>5. Len(buf') + Len(toSlave') = Len(buf) + Len(toSlave)
      <4>1. \A x, y \in Nat : (x + 1) + (y - 1) = x + y
        OBVIOUS
      <4> QED
        BY <3>3, <4>1, Zenon
    <3>6. CASE Len(buf') # size
      <4>1. pc' = "recv"
        BY <3>1, <3>6
      <4> QED
        BY <1>1, <1>2, <3>1, <3>4, <3>5, <4>1, Zenon DEF HeardInv
    <3>7. CASE Len(buf') = size
      <4>1. pc' = "received"
        BY <3>1, <3>7
      <4>2. ~(Len(buf) + Len(toSlave) < Len(file))
        BY <3>2, <3>3, <3>7
      <4>3. session \notin {"ready", "send"} \/ broken
        <5>1. session = "ready" => Len(buf) + Len(toSlave) = 0
          BY <3>1 DEF LoadInv, RecvInv, Sent
        <5>2. session = "send" /\ ~broken =>
                left \in 1 .. Len(file) /\ Len(buf) + Len(toSlave) = Len(file) - left
          BY <3>1 DEF LoadInv, RecvInv, Sent
        <5> QED
          BY <3>2, <4>2, <5>1, <5>2
      <4>4. session = "closed" /\ ~broken => buf' = <<ErrorFrame>>
        <5>1. session = "closed" /\ ~broken => ErrorSent'
          BY <3>1, <3>4, <4>2 DEF HeardInv
        <5>2. buf' # <<>>
          BY <3>1, <3>2
        <5> QED
          BY <5>1, <5>2 DEF ErrorSent
      <4>5. session \in {"ready", "send", "reader", "closed"}
        BY <3>1 DEF LoadInv, RecvInv
      <4> QED
        BY <1>1, <1>2, <4>1, <4>3, <4>4, <4>5 DEF HeardInv
    <3> QED
      BY <3>6, <3>7
  <2> QED
    BY <2>1, <2>2
<1>5. CASE SlaveListen \/ SlaveRequest
  <2>1. pc \in {"listen", "request"} /\ pc' \in {"request", "poll", "failed", "dead"}
    BY <1>5, Zenon DEF SlaveListen, SlaveRequest, Fails
  <2> QED
    BY <1>1, <1>2, <2>1 DEF HeardInv
<1>6. CASE SlavePoll
  <2>1. /\ pc = "poll" /\ pc' \in {"received", "failed"}
        /\ pc' = "received" => notify_msg # <<>> /\ notify_msg[1] = "size"
    BY <1>6, Zenon DEF SlavePoll, Fails
  <2> QED
    BY <1>1, <1>2, <2>1 DEF HeardInv
<1> QED
  BY <1>3, <1>4, <1>5, <1>6 DEF SlaveTransfer

LEMMA HeardInvNext ==
  ASSUME LoadInv, HeardInv, [Next]_vars
  PROVE  HeardInv'
<1>1. CASE MasterStep
  BY <1>1, MasterKeepsHeard, SendKeepsHeard DEF MasterStep
<1>2. CASE SlaveTransfer
  BY <1>2, SlaveKeepsHeard
<1>3. CASE StartsSync
  <2>1. pc' = "sync" /\ session' = "reader" /\ toMaster' = <<"SYNC">>
    BY <1>3 DEF StartsSync, SlaveSync
  <2> QED
    BY <2>1, LastMessage DEF HeardInv
<1>4. CASE LinkBreaks
  <2>1. broken' = TRUE /\ toMaster' = <<>> /\ toSlave' = <<>> /\ UNCHANGED <<pc, session, buf>>
    BY <1>4 DEF LinkBreaks, masterVars, slaveVars
  <2> QED
    BY <2>1, LastMessage, Frames DEF HeardInv
<1> QED
  BY <1>1, <1>2, <1>3, <1>4, MainKeepsHeard DEF Next, SlaveStep

\* Whoever has executed the snapshot says FULLSYNC FINISHED to a master whose
\* server_reader still reads, so that the BPF program sees it and the agent
\* stops holding writes back: whatever fails on the way, with both transports,
\* unless the file was the frame FULLSYNC ERROR.
THEOREM FinishedAlwaysHeard == Spec => []FinishedIsHeard
<1>1. Init => HeardInv
  BY LastMessage DEF Init, TransferInit, HeardInv
<1>2. HeardInv => FinishedIsHeard
  BY DEF HeardInv, FinishedIsHeard, IsFinished
<1> QED
  BY <1>1, <1>2, LoadInvInit, LoadInvNext, HeardInvNext, PTL DEF Spec
==============================================================================
