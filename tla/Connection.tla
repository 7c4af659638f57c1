----------------------------- MODULE Connection -----------------------------
(***************************************************************************)
(* The coroutine server's connections (kvs-server/ntyco.c): a reader per   *)
(* connection collects bytes, cuts them into commands, executes these      *)
(* against the shared engines and sends the replies.  On the other end of  *)
(* each connection runs a client program of module Clients.  The agent     *)
(* sees what every recv of the server returned (kvs-ebpf/kvs_agent.c) and  *)
(* cuts it into commands again.                                            *)
(*                                                                         *)
(* Coroutines yield in accept, recv and send only, so what a reader does   *)
(* between a recv and the next send is one step.  TCP delivers bytes in    *)
(* order; recv returns any number of those that have arrived, and send     *)
(* takes as many as the socket has room for.                               *)
(***************************************************************************)
EXTENDS Clients

CONSTANTS
    Slot,           \* connections that are open at a time
    Session,        \* what the clients do: a sequence of records: the programs of each slot,
                    \* its role, which must pass, who may be killed, and the
                    \* bytes that a socket holds in each direction
    BUFFER_SIZE,    \* first size of rbuf and wbuf, and the most one recv asks for
    Segment         \* bytes of one send that arrive together

\* The buffers start with room for a reply of fixed size.
ASSUME ConnectionAssumption ==
    /\ BUFFER_SIZE \in Nat /\ BUFFER_SIZE >= REPLY_RESERVE
    /\ Segment \in Nat \ {0}

VARIABLES
    session,    \* which member of Session is played
    client,     \* per slot: [prog, at, st, left, acc, seen]
    server,     \* per slot: the reader's pc and client_info
    c2s,        \* bytes on their way to the server
    s2c,        \* segments on their way to the client
    store,      \* the engines
    agent,      \* agent->buf, and whether the agent has given up
    hist        \* history: what was executed and answered, and what the agent met

vars == <<session, client, server, c2s, s2c, store, agent, hist>>

EmptyMap == [k \in {} |-> <<>>]

\* client_info_init.
client_info_init ==
    [pc |-> "recv", rbuf |-> <<>>, r_cap |-> BUFFER_SIZE, protocol |-> "UNKNOWN",
     wbuf |-> <<>>, sent |-> 0, w_cap |-> BUFFER_SIZE]

\* A connection that waits to be accepted.
Listening == [client_info_init EXCEPT !.pc = "none"]

play == Session[session]

prog(c) == play.prog[c][client[c].prog]

\* A client that is about to write the commands of batch b of program p.
Starting(p, i, b) ==
    [prog |-> i, at |-> b, st |-> "send", left |-> BatchBytes(p, p.batches[b]),
     acc  |-> <<>>, seen |-> 0]

\* Nobody connects.
Gone == [prog |-> 0, at |-> 0, st |-> "done", left |-> <<>>, acc |-> <<>>, seen |-> 0]

NoHist == [executed |-> <<>>, produced |-> <<>>, got |-> <<>>, err |-> FALSE]

Init ==
    /\ session \in DOMAIN Session
    /\ client = [c \in Slot |-> IF play.prog[c] = <<>> THEN Gone
                                ELSE Starting(play.prog[c][1], 1, 1)]
    /\ server = [c \in Slot |-> IF play.prog[c] = <<>> THEN [Listening EXCEPT !.pc = "closed"]
                                ELSE Listening]
    /\ c2s = [c \in Slot |-> <<>>]
    /\ s2c = [c \in Slot |-> <<>>]
    /\ store = [e \in Engine |-> EmptyMap]
    /\ agent = [buf |-> <<>>, stopped |-> FALSE, owner |-> <<>>,
                mixed |-> FALSE, same |-> TRUE]
    /\ hist = [c \in Slot |-> NoHist]

-----------------------------------------------------------------------------
\* The agent: one buffer for the bytes of all connections.

\* The commands kvs_agent_send_to_slave takes off its buffer.
RECURSIVE AgentLoop(_, _)
AgentLoop(buf, cmds) ==
    LET p == kvsp_parse_bulk_size(buf)
        c == SubSeq(buf, 1, p.len)
    IN  IF buf = <<>> \/ p.len = 0 THEN [buf |-> buf, stopped |-> FALSE, cmds |-> cmds]
        ELSE IF p.len < 0 \/ ~kvs_agent_parse_command(c, p.head).ok
        THEN [buf |-> buf, stopped |-> TRUE, cmds |-> cmds]
        ELSE AgentLoop(SubSeq(buf, p.len + 1, Len(buf)), Append(cmds, c))

\* Mutant: the beginning of a command is not kept for the next recv.
AgentForgets(c, bytes, cmds, protocol) ==
    LET got == AgentLoop(bytes, <<>>)
    IN  IF agent.mixed \/ agent.stopped THEN agent
        ELSE [agent EXCEPT !.stopped = got.stopped, !.mixed = protocol # "KVSP",
                           !.same = @ /\ got.cmds = cmds]

\* A recv on connection c returned bytes, from which the server cut cmds.
\* mixed: the buffer holds the beginning of a command of another connection,
\* or the bytes are not KVSP.  What the agent makes of such a buffer is not
\* followed any further.  same: so far the agent has cut the same commands as
\* the server.
kvs_agent_send_to_slave(c, bytes, cmds, protocol) ==
    LET got   == AgentLoop(agent.buf \o bytes, <<>>)
        me    == <<c, client[c].prog>>
        mixes == protocol # "KVSP" \/ (agent.buf # <<>> /\ agent.owner # me)
    IN  IF agent.mixed \/ agent.stopped THEN agent
        ELSE IF mixes THEN [agent EXCEPT !.buf = <<>>, !.mixed = TRUE]
        ELSE [agent EXCEPT !.buf = got.buf, !.stopped = got.stopped, !.owner = IF got.buf = <<>> THEN <<>> ELSE me,
                           !.same = @ /\ got.cmds = cmds]

-----------------------------------------------------------------------------
\* The reader of a connection.

\* The inner loop of server_reader: cut off and execute commands until the
\* buffer holds no complete one.
RECURSIVE ParseLoop(_, _, _, _, _)
ParseLoop(cli, st, cmds, ts, out) ==
    LET p    == recv_protocol(cli.protocol, cli.rbuf)
        cmd  == SubSeq(cli.rbuf, 1, p.len)
        k    == kvs_protocol(cli.protocol, cmd, p.head, st, Len(cli.wbuf), cli.w_cap)
        stop(pc) == [cli |-> [cli EXCEPT !.pc = pc], store |-> st, cmds |-> cmds,
                     executed |-> ts, produced |-> out]
    IN  IF cli.rbuf = <<>> \/ p.len = 0 THEN stop("send")
        ELSE IF p.len < 0 THEN stop("error")
        ELSE IF ~k.ok THEN stop("closed")
        ELSE ParseLoop([cli EXCEPT !.rbuf = SubSeq(@, p.len + 1, Len(@)),
                                   !.wbuf = @ \o k.reply,
                                   !.w_cap = k.w_cap],
                       k.store, Append(cmds, cmd),
                       Append(ts, kvs_split_token(cli.protocol, cmd, p.head).tokens),
                       out \o k.reply)

\* Mutant: the bytes that made rbuf grow are not copied.
ReceivedGrowsOnly(cli, bytes) ==
    IF Len(cli.rbuf) + Len(bytes) >= cli.r_cap THEN [cli EXCEPT !.r_cap = 2 * @]
    ELSE [cli EXCEPT !.rbuf = @ \o bytes,
                     !.protocol = IF @ = "UNKNOWN" THEN kvs_detect_protocol(cli.rbuf \o bytes) ELSE @]

\* Mutant: > for >= in the test of the room.
ReceivedFull(cli, bytes) ==
    [cli EXCEPT !.r_cap = IF Len(cli.rbuf) + Len(bytes) > @ THEN 2 * @ ELSE @,
                !.rbuf = @ \o bytes,
                !.protocol = IF @ = "UNKNOWN" THEN kvs_detect_protocol(cli.rbuf \o bytes) ELSE @]

\* rbuf is doubled, once, when the bytes would fill it.
Received(cli, bytes) ==
    [cli EXCEPT !.r_cap = IF Len(cli.rbuf) + Len(bytes) >= @ THEN 2 * @ ELSE @,
                !.rbuf = @ \o bytes,
                !.protocol = IF @ = "UNKNOWN" THEN kvs_detect_protocol(cli.rbuf \o bytes) ELSE @]

\* After the loop: a slave's replies are thrown away; a malformed command
\* makes room for the error message behind the replies.
Settled(cli, role) ==
    CASE cli.pc = "send" /\ (role = 1 \/ cli.wbuf = <<>>) -> [cli EXCEPT !.pc = "recv", !.wbuf = <<>>]
      [] cli.pc = "error" -> [cli EXCEPT !.w_cap = IF @ - Len(cli.wbuf) < Len(ProtocolErrorReply) + 1
                                                   THEN @ + Len(ProtocolErrorReply) + 1 ELSE @]
      [] OTHER -> cli

\* What the bytes read so far lead to; a protocol that is neither of the two
\* closes the connection.
Parsing(cli) ==
    IF cli.protocol = "bad"
    THEN [cli |-> [cli EXCEPT !.pc = "closed"], store |-> store,
          cmds |-> <<>>, executed |-> <<>>, produced |-> <<>>]
    ELSE ParseLoop(cli, store, <<>>, <<>>, <<>>)

\* server: a coroutine for the new connection.
Accept(c) ==
    /\ server[c].pc = "none"
    /\ server' = [server EXCEPT ![c] = client_info_init]
    /\ UNCHANGED <<session, client, c2s, s2c, store, agent, hist>>

\* server_reader: recv returns n bytes, which are handled up to the send.
Recv(c) ==
    /\ server[c].pc = "recv"
    /\ \E n \in 1..Len(c2s[c]) :
         /\ n <= BUFFER_SIZE
         /\ \E bytes \in {SubSeq(c2s[c], 1, n)} :
            \E cli \in {Received(server[c], bytes)} :
            \E r \in {Parsing(cli)} :
                /\ c2s' = [c2s EXCEPT ![c] = SubSeq(@, n + 1, Len(@))]
                /\ server' = [server EXCEPT ![c] = Settled(r.cli, play.role[c])]
                /\ store' = r.store
                /\ agent' = kvs_agent_send_to_slave(c, bytes, r.cmds, cli.protocol)
                /\ hist' = [hist EXCEPT ![c].executed = @ \o r.executed,
                                        ![c].produced = @ \o r.produced]
    /\ UNCHANGED <<session, client, s2c>>

\* Mutant: < for <= in the test of what recv returned.
RecvEndGoesOn(c) ==
    /\ server[c].pc = "recv" /\ c2s[c] = <<>> /\ client[c].st \in {"done", "failed", "dead"}
    /\ server' = [server EXCEPT ![c].pc = "send"]
    /\ UNCHANGED <<session, client, c2s, s2c, store, agent, hist>>

\* recv returns 0: the client has closed and everything was read.
RecvEnd(c) ==
    /\ server[c].pc = "recv" /\ c2s[c] = <<>> /\ client[c].st \in {"done", "failed", "dead"}
    /\ server' = [server EXCEPT ![c].pc = "closed"]
    /\ UNCHANGED <<session, client, c2s, s2c, store, agent, hist>>

Min2(a, b) == IF a < b THEN a ELSE b

\* The bytes that wait to be read by the client of c.
InFlight(c) == FlattenSeq(s2c[c])

\* One send of bytes, as the segments it travels in.
RECURSIVE Segments(_)
Segments(bytes) ==
    IF Len(bytes) <= Segment THEN <<bytes>>
    ELSE <<SubSeq(bytes, 1, Segment)>> \o Segments(SubSeq(bytes, Segment + 1, Len(bytes)))

Reads(c) == client[c].st \in {"send", "recv"}

\* Mutant: one send, whatever it took.
SendOnce(c) ==
    /\ server[c].pc = "send"
    /\ Reads(c)
    /\ LET n == Min2(Len(server[c].wbuf), play.to_client - Len(InFlight(c)))
       IN  /\ n > 0
           /\ s2c' = [s2c EXCEPT ![c] = @ \o Segments(SubSeq(server[c].wbuf, 1, n))]
           /\ server' = [server EXCEPT ![c] = [@ EXCEPT !.pc = "recv", !.wbuf = <<>>, !.sent = 0]]
    /\ UNCHANGED <<session, client, c2s, store, agent, hist>>

\* The send loop: as much as the socket takes, until all is sent.
Send(c) ==
    /\ server[c].pc = "send"
    /\ Reads(c)
    /\ LET rest == SubSeq(server[c].wbuf, server[c].sent + 1, Len(server[c].wbuf))
           n    == Min2(Len(rest), play.to_client - Len(InFlight(c)))
       IN  /\ n > 0
           /\ s2c' = [s2c EXCEPT ![c] = @ \o Segments(SubSeq(rest, 1, n))]
           /\ server' = [server EXCEPT ![c] =
                IF n = Len(rest) THEN [@ EXCEPT !.pc = "recv", !.wbuf = <<>>, !.sent = 0]
                ELSE [@ EXCEPT !.sent = @ + n]]
    /\ UNCHANGED <<session, client, c2s, store, agent, hist>>

\* The client is gone: a send succeeds for nobody, or fails and the reader
\* cleans up.
SendLost(c) ==
    /\ server[c].pc = "send" /\ ~Reads(c)
    /\ \E failed \in BOOLEAN :
         server' = [server EXCEPT ![c] = [@ EXCEPT !.pc = IF failed THEN "closed" ELSE "recv",
                                                   !.wbuf = <<>>, !.sent = 0]]
    /\ UNCHANGED <<session, client, c2s, s2c, store, agent, hist>>

\* A malformed command: the message alone is sent, from behind the replies
\* that wait in wbuf, and the connection is closed.
SendError(c) ==
    /\ server[c].pc = "error"
    /\ Len(InFlight(c)) < play.to_client \/ ~Reads(c)
    /\ s2c' = [s2c EXCEPT ![c] =
         IF Reads(c) THEN @ \o <<SubSeq(ProtocolErrorReply, 1,
                                        Min2(Len(ProtocolErrorReply), play.to_client - Len(InFlight(c))))>>
         ELSE @]
    /\ server' = [server EXCEPT ![c].pc = "closed"]
    /\ hist' = [hist EXCEPT ![c].err = TRUE]
    /\ UNCHANGED <<session, client, c2s, store, agent>>

-----------------------------------------------------------------------------
\* The client programs.

\* send_msg: as much as the socket takes, until the batch is written.
ClientSend(c) ==
    /\ client[c].st = "send" /\ server[c].pc # "closed"
    /\ LET n == Min2(Len(client[c].left), play.to_server - Len(c2s[c]))
       IN  /\ n > 0
           /\ c2s' = [c2s EXCEPT ![c] = @ \o SubSeq(client[c].left, 1, n)]
           /\ client' = [client EXCEPT ![c] =
                [@ EXCEPT !.left = SubSeq(@, n + 1, Len(@)),
                          !.st = IF n < Len(client[c].left) THEN "send"
                                 ELSE IF prog(c).read = "none" THEN "done" ELSE "recv"]]
    /\ UNCHANGED <<session, server, s2c, store, agent, hist>>

\* The length of the first complete reply in b, or 0 (hiredis).
ReplyLength(b) ==
    LET lf  == LineEnd(b, 2)
        end == IF Head(b) = "$" /\ Len(b) > 1 /\ b[2] # "-1" THEN lf + atoi(b, 2) + 2 ELSE lf
    IN  IF b = <<>> THEN 0
        ELSE IF lf > Len(b) \/ end > Len(b) THEN 0 ELSE end

\* What a client makes of the bytes acc that it has read: "more" when it
\* reads on, else whether it is satisfied; rest are bytes for later replies.
Verdict(how, expected, acc) ==
    LET n == ReplyLength(acc)
    IN  CASE how = "one" ->
               [go |-> IF expected.kind = "any" \/ IsPrefix(acc, expected.bytes) THEN "pass" ELSE "fail",
                rest |-> <<>>]
          [] how = "length" ->
               [go |-> IF IsPrefix(NoExistReply, acc) THEN "fail"
                       ELSE IF Len(acc) < Len(expected.bytes) THEN "more"
                       ELSE IF acc = expected.bytes THEN "pass" ELSE "fail",
                rest |-> <<>>]
          [] how = "strcmp" -> [go |-> IF Accepts(expected, acc) THEN "pass" ELSE "fail", rest |-> <<>>]
          [] how = "line" ->
               [go |-> IF Len(acc) > 2 /\ IsSuffix(CRLF, acc) THEN "pass" ELSE "more", rest |-> <<>>]
          [] how = "reply" ->
               [go |-> IF n = 0 THEN "more"
                       ELSE IF Accepts(expected, SubSeq(acc, 1, n)) THEN "pass" ELSE "fail",
                rest |-> SubSeq(acc, n + 1, Len(acc))]

\* After a reply was accepted: the next reply of the batch, the next batch,
\* or the end of the program.  One recv ends a batch.
Onward(c, rest) ==
    LET cl == client[c]
        p  == prog(c)
    IN  IF p.read = "reply" /\ cl.seen + 1 < Len(p.batches[cl.at].reqs)
        THEN [cl EXCEPT !.seen = @ + 1, !.acc = rest]
        ELSE IF cl.at < Len(p.batches) THEN Starting(p, cl.prog, cl.at + 1)
        ELSE [cl EXCEPT !.st = "done", !.acc = <<>>]

\* recv_msg and testcase, or redisCommand: one segment, if the bytes at hand
\* do not make a reply, and the comparison.
ClientRecv(c) ==
    /\ client[c].st = "recv"
    /\ \E more \in BOOLEAN :
         /\ more <=> (prog(c).read # "reply" \/ ReplyLength(client[c].acc) = 0)
         /\ more => s2c[c] # <<>>
         /\ LET bytes == IF more THEN Head(s2c[c]) ELSE <<>>
                acc   == client[c].acc \o bytes
                v     == Verdict(prog(c).read, prog(c).batches[client[c].at].expected[client[c].seen + 1], acc)
            IN  /\ s2c' = [s2c EXCEPT ![c] = IF more THEN Tail(@) ELSE @]
                /\ hist' = [hist EXCEPT ![c].got = @ \o bytes]
                /\ client' = [client EXCEPT ![c] =
                     CASE v.go = "more" -> [@ EXCEPT !.acc = acc]
                       [] v.go = "pass" -> Onward(c, v.rest)
                       [] v.go = "fail" -> [@ EXCEPT !.st = "failed", !.acc = <<>>]]
    /\ UNCHANGED <<session, server, c2s, store, agent>>

\* The server has closed: recv returns 0, or send fails, and the program
\* exits without the reply.
ClientEnd(c) ==
    /\ server[c].pc = "closed"
    /\ \/ client[c].st = "send"
       \/ /\ client[c].st = "recv" /\ s2c[c] = <<>>
          /\ prog(c).read = "reply" => ReplyLength(client[c].acc) = 0
    /\ client' = [client EXCEPT ![c].st = "failed", ![c].acc = <<>>]
    /\ UNCHANGED <<session, server, c2s, s2c, store, agent, hist>>

\* A client is killed at any point.
ClientDies(c) ==
    /\ c \in play.mortal /\ Reads(c)
    /\ client' = [client EXCEPT ![c].st = "dead", ![c].acc = <<>>]
    /\ UNCHANGED <<session, server, c2s, s2c, store, agent, hist>>

\* The next program is started and connects.
NextProgram(c) ==
    /\ client[c].st = "done" /\ server[c].pc = "closed"
    /\ client[c].prog < Len(play.prog[c])
    /\ client' = [client EXCEPT ![c] = Starting(play.prog[c][@.prog + 1], @.prog + 1, 1)]
    /\ server' = [server EXCEPT ![c] = Listening]
    /\ c2s' = [c2s EXCEPT ![c] = <<>>]
    /\ s2c' = [s2c EXCEPT ![c] = <<>>]
    /\ hist' = [hist EXCEPT ![c] = NoHist]
    /\ UNCHANGED <<session, store, agent>>

Over(c) ==
    /\ client[c].st \in {"done", "failed", "dead"} /\ server[c].pc = "closed"
    /\ ~(client[c].st = "done" /\ client[c].prog < Len(play.prog[c]))

\* All programs have ended; the server goes on waiting for connections.
Idle == (\A c \in Slot : Over(c)) /\ UNCHANGED vars

Step(c) ==
    \/ Accept(c) \/ Recv(c) \/ RecvEnd(c) \/ Send(c) \/ SendLost(c) \/ SendError(c)
    \/ ClientSend(c) \/ ClientRecv(c) \/ ClientEnd(c) \/ NextProgram(c)

Next == (\E c \in Slot : Step(c) \/ ClientDies(c)) \/ Idle

\* When Step(c) is enabled.
CanStep(c) ==
    \/ server[c].pc = "none"
    \/ server[c].pc = "recv" /\ (c2s[c] # <<>> \/ ~Reads(c))
    \/ server[c].pc \in {"send", "error"} /\ (Len(InFlight(c)) < play.to_client \/ ~Reads(c))
    \/ client[c].st = "send" /\ (server[c].pc = "closed" \/ Len(c2s[c]) < play.to_server)
    \/ /\ client[c].st = "recv"
       /\ \/ s2c[c] # <<>> \/ server[c].pc = "closed"
          \/ prog(c).read = "reply" /\ ReplyLength(client[c].acc) > 0
    \/ server[c].pc = "closed" /\ ~Reads(c) /\ ~Over(c)

\* What a step of connection c changes, and no step of another does.
Own(c) == <<client[c], server[c], c2s[c], s2c[c]>>

\* The scheduler resumes every coroutine whose socket is ready, and the
\* programs run on; nobody has to be killed.  This is weak fairness of
\* Step(c): the condition of its being enabled is written out, and a step is
\* known by what it changes (a client dies but once).
Fair(c) == <>[]CanStep(c) => []<><<TRUE>>_(Own(c))

Spec == Init /\ [][Next]_vars /\ \A c \in Slot : Fair(c)

-----------------------------------------------------------------------------
TypeOK ==
    /\ session \in DOMAIN Session
    /\ \A c \in Slot :
         /\ client[c].st \in {"send", "recv", "done", "failed", "dead"}
         /\ client[c].prog # 0 => client[c].at \in DOMAIN prog(c).batches
         /\ server[c].pc \in {"none", "recv", "send", "error", "closed"}
         /\ server[c].protocol \in {"UNKNOWN", "KVSP", "RESP", "bad"}
         /\ server[c].sent \in 0..Len(server[c].wbuf)
         /\ Len(c2s[c]) <= play.to_server /\ Len(InFlight(c)) <= play.to_client
    /\ \A e \in Engine : \A k \in DOMAIN store[e] : Len(store[e][k]) > 0

\* What the client of c has written on its connection so far.
Written(c) ==
    LET p == prog(c)
        b == BatchBytes(p, p.batches[client[c].at])
    IN  FlattenSeq([i \in 1..(client[c].at - 1) |-> BatchBytes(p, p.batches[i])])
          \o SubSeq(b, 1, Len(b) - Len(client[c].left))

\* However the bytes of a connection are cut by recv, the commands executed so
\* far, the rest in rbuf and the bytes still on their way are exactly what the
\* client wrote: no command is lost, repeated, split or joined (the loop and
\* the memmove of server_reader).
StreamIntact ==
    \A c \in Slot : server[c].pc \in {"none", "recv", "send"} =>
        FlattenSeq([i \in DOMAIN hist[c].executed |-> Frame(server[c].protocol, hist[c].executed[i])])
          \o server[c].rbuf \o c2s[c] = Written(c)

\* The replies reach the client in the order of the commands, each once and
\* whole, whatever send takes at a time; only the message about a malformed
\* command overtakes replies, those of its own batch, which are dropped, and
\* nothing follows it.  A slave answers nothing.
RepliesInOrder ==
    \A c \in Slot : client[c].st \in {"send", "recv"} =>
        LET arrived == hist[c].got \o InFlight(c)
            waiting == SubSeq(server[c].wbuf, server[c].sent + 1, Len(server[c].wbuf))
        IN  IF play.role[c] = 1 THEN arrived = <<>>
            ELSE IF hist[c].err
            THEN \E r \in {<<>>, ProtocolErrorReply} : \E n \in 0..Len(hist[c].produced) :
                     arrived = SubSeq(hist[c].produced, 1, n) \o r
            ELSE IF server[c].pc \in {"none", "recv", "send"}
            THEN arrived \o waiting = hist[c].produced
            ELSE IsPrefix(arrived, hist[c].produced)

\* The buffers never hold more than was allocated, the terminating NUL behind
\* a command or a reply included: doubling rbuf once per recv is enough, and so
\* is the room that kvs_filter_protocol makes in wbuf; nor do the sockets.
BuffersHold ==
  /\ TypeOK
  /\ \A c \in Slot :
        /\ Len(server[c].rbuf) < server[c].r_cap
        /\ Len(server[c].wbuf) + (IF server[c].pc = "error" THEN Len(ProtocolErrorReply) ELSE 0)
             < server[c].w_cap

\* As long as no recv was made on one connection while the beginning of a
\* command of another lay in the agent's buffer, and all clients speak KVSP,
\* the agent cuts from the captured bytes the same commands, at the same recv,
\* as the server, and stops only where the server refused a command too.
AgentCutsSame ==
    ~agent.mixed =>
        /\ agent.same
        /\ agent.stopped => \E c \in Slot : server[c].pc = "error" \/ hist[c].err

\* Every program ends and its connection is closed, also when the other client
\* is killed in the middle of a command; and on a server that holds none of their
\* keys the programs of the repository pass: set, then get, then del, in either
\* protocol, while another client is served or refused, and whatever the
\* segmentation.
ProgramsEnd ==
    <>(\A c \in Slot : Over(c) /\ (c \in play.pass => client[c].st # "failed"))
=============================================================================
