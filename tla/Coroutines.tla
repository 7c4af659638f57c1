----------------------------- MODULE Coroutines -----------------------------
(***************************************************************************)
(* The coroutines of the server: NtyCo's scheduler and hooked socket calls  *)
(* (NtyCo/core/nty_schedule.c, nty_coroutine.c, nty_socket.c), under the    *)
(* coroutines that lidis creates: server, server_reader and                 *)
(* kvs_save_child_done.                                                     *)
(*                                                                         *)
(* A step resumes one coroutine, which runs on the scheduler's stack up to  *)
(* its next yield.  Where a coroutine is and what it holds is its frame;    *)
(* the frame of one that does not run is in its copy of the stack.  lidis   *)
(* never sleeps and waits with the timeout 1 that means none, so the tree   *)
(* of sleeping coroutines stays empty and is left out.                      *)
(***************************************************************************)
EXTENDS Naturals, Sequences, FiniteSets

Sets == INSTANCE FiniteSetsExt

CONSTANTS
    MaxCo,      \* room for coroutines: addresses 1..MaxCo, the lowest free is taken
    MaxFd,      \* descriptors 1..MaxFd; enough of them, so that accept never fails
    MaxOpen,    \* bound: connections that are open or wait to be accepted
    MaxConns,   \* bound: connections ever made
    MaxForks,   \* bound: children ever forked
    Faults      \* the failures that the environment may cause

ASSUME CoroutinesAssumption ==
    /\ {MaxCo, MaxFd, MaxConns, MaxForks} \subseteq Nat /\ MaxOpen \in Nat \ {0}
    /\ MaxFd >= MaxOpen + 4 /\ MaxCo >= MaxOpen + 3

VARIABLES
    sched,      \* nty_schedule: [ready, waiting, phase, last, events], and the one in sendfile's loop
    co,         \* nty_coroutine at each address: [status, stack]
    epoll,      \* the descriptors registered with epoll, and for which event
    sock,       \* each descriptor: [kind, data, hup, room]
    child,      \* the forked children: [pair, fds], the socket to it and what it has open
    asserted,   \* history: an assertion failed or NULL was followed
    conns, forks

vars == <<sched, co, epoll, sock, child, asserted, conns, forks>>

Listen == 1

Sync == "sync"
Save == "save"

\* server: accept; reader: recv, send, and child, ready and sendfile in the
\* middle of a full synchronisation; saver: recv.  pair is the socket to a child.
Frame(role, at, fd, pair) == [role |-> role, at |-> at, fd |-> fd, pair |-> pair]

NoFrame == Frame("none", "none", 0, 0)

Unused == [status |-> {"FREE"}, stack |-> NoFrame]

NoChild == [pair |-> 0, fds |-> {}]

Socket(kind) == [kind |-> kind, data |-> 0, hup |-> FALSE, room |-> TRUE]

\* ntyco_start: the coroutine of server is ready; socket and listen, its
\* first steps, are done here.
Init ==
    /\ co = [a \in 1..MaxCo |-> IF a = 1 THEN [status |-> {"NEW"}, stack |-> Frame("server", "start", Listen, 0)]
                                ELSE Unused]
    /\ sched = [ready |-> <<1>>, waiting |-> <<>>, phase |-> "ready", last |-> 1, events |-> <<>>, busy |-> 0]
    /\ epoll = <<>>
    /\ sock = [f \in 1..MaxFd |-> Socket(IF f = Listen THEN "listen" ELSE "free")]
    /\ child = [k \in {Save, Sync} |-> NoChild]
    /\ asserted = FALSE /\ conns = 0 /\ forks = 0

-----------------------------------------------------------------------------
(* What the calls of a running coroutine do to the state                   *)
(*   S == [sched, co, epoll, sock, child, asserted, forks].                *)

Alive(S) == {a \in 1..MaxCo : S.co[a].status # {"FREE"}}

Now == [sched |-> sched, co |-> co, epoll |-> epoll, sock |-> sock, child |-> child,
        asserted |-> asserted, forks |-> forks]

With(f, d, v) == [x \in DOMAIN f \cup {d} |-> IF x = d THEN v ELSE f[x]]

Without(f, d) == [x \in DOMAIN f \ {d} |-> f[x]]

\* One waiter for a descriptor, as the assertions say.  The number of the
\* status is added, not its bit: 0 for WAIT_READ, and for WAIT_WRITE 1, which
\* is the bit of WAIT_READ.
nty_schedule_sched_wait(S, a, fd, ev) ==
    [S EXCEPT !.asserted = @ \/ "WAIT_READ" \in S.co[a].status \/ fd \in DOMAIN S.sched.waiting,
              !.sched.waiting = IF fd \in DOMAIN @ THEN @ ELSE With(@, fd, a),
              !.co[a].status = @ \cup (IF ev = "in" THEN {} ELSE {"WAIT_READ"})]

nty_schedule_search_wait(S, fd) == [S EXCEPT !.co[S.sched.waiting[fd]].status = {}]

nty_schedule_desched_wait(S, fd) ==
    [S EXCEPT !.co[S.sched.waiting[fd]].status = {}, !.sched.waiting = Without(@, fd)]

\* The stack is saved, and the next coroutine will run on it.
nty_coroutine_yield(S, a, frame) == [S EXCEPT !.co[a].stack = frame]

\* nty_poll_inner up to and with the yield, after epoll_ctl ADD.
PollYield(S, a, frame, fd, ev) ==
    nty_coroutine_yield(nty_schedule_sched_wait([S EXCEPT !.epoll = With(@, fd, ev)], a, fd, ev), a, frame)

\* Mutant: the descriptor stays registered.
PollKeeps(S, fd) == nty_schedule_desched_wait(S, fd)

\* nty_poll_inner after the yield, with epoll_ctl DEL.
PollDone(S, fd) == nty_schedule_desched_wait([S EXCEPT !.epoll = Without(@, fd)], fd)

nty_coroutine_create(S, frame) ==
    LET a == Sets!Min({b \in 1..MaxCo : S.co[b] = Unused})
    IN  [S EXCEPT !.co[a] = [status |-> {"NEW"}, stack |-> frame],
                  !.sched.ready = Append(@, a)]

\* _exec after the function: EXITED and DETACH, so that resume frees it.
Exit(S, a) == [S EXCEPT !.co[a] = Unused]

\* Mutant: the descriptor is not closed.
CloseNot(S, fd) == S

\* The kernel forgets what was registered for a closed descriptor, unless a
\* child has the socket open, too.
Close(S, fd) ==
    [S EXCEPT !.sock[fd] = Socket("free"),
              !.epoll = IF \E k \in {Save, Sync} : fd \in S.child[k].fds THEN @ ELSE Without(@, fd)]

\* The lowest number that is free, as the kernel gives it.
FreeFd(S) == Sets!Min({f \in 1..MaxFd : S.sock[f].kind = "free"})

\* The hooks of recv and accept, after nty_poll_inner.
Recv(S, fd) == [PollDone(S, fd) EXCEPT !.sock[fd].data = 0]

Accept(S) == [PollDone(S, Listen) EXCEPT !.sock[Listen].data = @ - 1, !.sock[FreeFd(S)] = Socket("conn")]

Open(S) == {f \in 1..MaxFd : S.sock[f].kind # "free"}

\* socketpair and fork: the child has everything open that the server has.
Forked(S, k) ==
    LET p == FreeFd(S)
    IN  [S EXCEPT !.sock[p] = Socket("pair"), !.child[k] = [pair |-> p, fds |-> Open(S)], !.forks = @ + 1]

Running(S, k) ==
    \E a \in Alive(S) :
        IF k = Save THEN S.co[a].stack.role = "saver"
        ELSE S.co[a].stack.at \in {"child", "ready", "sendfile"}

-----------------------------------------------------------------------------
(* The coroutines: from a resume to the next yield.  Each is the set of the *)
(* states in which that may end.                                            *)

\* server: one accept.  Without memory for client_info the loop ends, and
\* neither socket is closed.
RunServer(S, a, fr) ==
    IF fr.at = "start" THEN {PollYield(S, a, [fr EXCEPT !.at = "accept"], Listen, "in")}
    ELSE LET f == FreeFd(S)
             T == Accept(S)
         IN  {PollYield(nty_coroutine_create(T, Frame("reader", "start", f, 0)), a, fr, Listen, "in")}
               \cup (IF "nomem" \in Faults THEN {Exit(T, a)} ELSE {})

RecvAgain(S, a, fr) == PollYield(S, a, [fr EXCEPT !.at = "recv"], fr.fd, "in")

\* send, as the hook has it: all at once, or what is left after a wait.
Reply(S, a, fr) ==
    {RecvAgain(S, a, fr),
     PollYield([S EXCEPT !.sock[fr.fd].room = FALSE], a, [fr EXCEPT !.at = "send"], fr.fd, "out")}

\* The rest is sent; or send fails, as the client is gone.
Replied(S, a, fr) ==
    {RecvAgain(S, a, fr)} \cup (IF S.sock[fr.fd].hup THEN {Exit(Close(S, fr.fd), a)} ELSE {})

\* The commands of one recv: SAVE and SYNC fork, one that is malformed or fails
\* ends the connection, the others do not matter here.
Commands(S, a, fr) ==
    Reply(S, a, fr) \cup {Exit(Close(S, fr.fd), a)}
      \cup (IF S.forks < MaxForks /\ ~Running(S, Save)
            THEN Reply(nty_coroutine_create(Forked(S, Save), Frame("saver", "start", FreeFd(S), 0)), a, fr)
            ELSE {})
      \cup (IF S.forks < MaxForks /\ ~Running(S, Sync)
            THEN {PollYield(Forked(S, Sync), a, [fr EXCEPT !.at = "child", !.pair = FreeFd(S)], FreeFd(S), "in")}
            ELSE {})

\* kvs_master_send_file: sendfile is called again and again, without a yield,
\* while the socket takes no more.
Sendfile(S, a, fr) ==
    IF S.sock[fr.fd].hup THEN {Exit(Close(S, fr.fd), a)}
    ELSE {[S EXCEPT !.sock[fr.fd].room = FALSE, !.sched.busy = a,
                    !.co[a].stack = [fr EXCEPT !.at = "sendfile"]],
          RecvAgain(S, a, fr)}

\* server_reader, with kvs_master_full_sync, whose own messages are short
\* enough to be sent at once.  An empty snapshot is not sent.
RunReader(S, a, fr) ==
    LET fd   == IF fr.at = "child" THEN fr.pair ELSE fr.fd
        n    == S.sock[fd].data
        T    == Recv(S, fd)
        end  == {Exit(Close(T, fr.fd), a)}
    IN  CASE fr.at = "start" -> {RecvAgain(S, a, fr)}
          [] fr.at = "recv"  -> IF n > 0 THEN Commands(T, a, fr) ELSE end
          [] fr.at = "send"  -> Replied(PollDone(S, fd), a, fr)
          [] fr.at = "child" ->
               LET C == Close(T, fd)
               IN  IF n > 0
                   THEN {PollYield(C, a, [fr EXCEPT !.at = "ready", !.pair = 0], fr.fd, "in")}
                          \cup Reply(C, a, [fr EXCEPT !.pair = 0])
                   ELSE {Exit(Close(C, fr.fd), a)}
          [] fr.at = "ready" -> (IF n > 0 THEN Sendfile(T, a, fr) ELSE {}) \cup end

\* kvs_save_child_done: a SAVE that was put off forks again.
RunSaver(S, a, fr) ==
    LET T == Recv(S, fr.fd)
    IN  IF fr.at = "start" THEN {RecvAgain(S, a, fr)}
        ELSE {Exit(Close(T, fr.fd), a)}
               \cup (IF S.sock[fr.fd].data > 0 /\ T.forks < MaxForks
                     THEN {Exit(Close(nty_coroutine_create(Forked(T, Save), Frame("saver", "start", FreeFd(T), 0)), fr.fd), a)}
                     ELSE {})

\* nty_coroutine_resume: nty_coroutine_init for a new coroutine, or its stack
\* is loaded.
nty_coroutine_resume(S, a) ==
    LET fr == S.co[a].stack
        T  == IF "NEW" \in S.co[a].status THEN [S EXCEPT !.co[a].status = {"READY"}] ELSE S
    IN  CASE fr.role = "server" -> RunServer(T, a, fr)
          [] fr.role = "reader" -> RunReader(T, a, fr)
          [] fr.role = "saver"  -> RunSaver(T, a, fr)

-----------------------------------------------------------------------------
(* nty_schedule_run.                                                        *)

Becomes(T) ==
    /\ sched' = T.sched /\ co' = T.co /\ epoll' = T.epoll /\ sock' = T.sock
    /\ child' = T.child /\ asserted' = T.asserted /\ forks' = T.forks

\* The top of the loop: the pass through the ready queue ends with the
\* coroutine that is last now.
LoopTop(T) ==
    [T EXCEPT !.sched.phase = IF T.sched.ready = <<>> THEN "epoll" ELSE "ready",
              !.sched.last  = IF T.sched.ready = <<>> THEN 0 ELSE T.sched.ready[Len(T.sched.ready)]]

\* Mutant: the coroutine is not taken off the queue.
ReadyStays ==
    /\ sched.phase = "ready" /\ sched.busy = 0
    /\ LET a == Head(sched.ready)
       IN  \E T \in nty_coroutine_resume(Now, a) :
             Becomes([T EXCEPT !.sched.phase = "epoll"])
    /\ UNCHANGED conns

RunReady ==
    /\ sched.phase = "ready" /\ sched.busy = 0
    /\ LET a == Head(sched.ready)
           S == [Now EXCEPT !.sched.ready = Tail(@)]
       IN  \E T \in IF "FDEOF" \in co[a].status THEN {Exit(S, a)} ELSE nty_coroutine_resume(S, a) :
             IF a = sched.last \/ "FDEOF" \in co[a].status
             THEN Becomes([T EXCEPT !.sched.phase = "epoll", !.sched.last = 0])
             ELSE Becomes(T)
    /\ UNCHANGED conns

\* epoll_wait: the descriptors that are ready for what they are registered for.
Signalled(f) ==
    \/ sock[f].data > 0 /\ epoll[f] = "in"
    \/ sock[f].hup
    \/ sock[f].room /\ epoll[f] = "out"

\* nty_schedule_epoll: nothing is asked of the kernel while coroutines are
\* ready; otherwise all descriptors that are ready, in some order.
nty_schedule_epoll ==
    /\ sched.phase = "epoll" /\ sched.busy = 0
    /\ LET fds == {f \in DOMAIN epoll : Signalled(f)}
       IN  IF sched.ready # <<>> THEN Becomes(LoopTop(Now))
           ELSE /\ fds # {}
                /\ \E order \in [1..Cardinality(fds) -> fds] :
                     /\ \A i, j \in DOMAIN order : order[i] = order[j] => i = j
                     /\ Becomes([Now EXCEPT !.sched.phase = "events", !.sched.events = order])
    /\ UNCHANGED conns

\* Mutant: a coroutine is not resumed for EPOLLHUP.
EventEofIgnored ==
    /\ sched.phase = "events" /\ sched.busy = 0
    /\ LET n == Len(sched.events)
           f == sched.events[n]
           S == [Now EXCEPT !.sched.events = SubSeq(@, 1, n - 1)]
       IN  \E T \in IF sock[f].hup THEN {S} ELSE nty_coroutine_resume(S, sched.waiting[f]) :
             Becomes(IF n = 1 THEN LoopTop(T) ELSE T)
    /\ UNCHANGED conns

\* The events from the last to the first.  nty_schedule_search_wait resets the
\* status of what it found, and follows NULL when it found nothing; EPOLLHUP
\* sets FDEOF, which the coroutine resets.
RunEvent ==
    /\ sched.phase = "events" /\ sched.busy = 0
    /\ LET n == Len(sched.events)
           f == sched.events[n]
           rest == SubSeq(sched.events, 1, n - 1)
       IN  IF f \notin DOMAIN sched.waiting
           THEN Becomes([Now EXCEPT !.asserted = TRUE, !.sched.phase = "stopped"])
           ELSE LET a == sched.waiting[f]
                    S == [nty_schedule_search_wait(Now, f) EXCEPT !.sched.events = rest]
                    E == IF sock[f].hup THEN [S EXCEPT !.co[a].status = @ \cup {"FDEOF"}] ELSE S
                IN  \E T \in nty_coroutine_resume(E, a) : Becomes(IF rest = <<>> THEN LoopTop(T) ELSE T)
    /\ UNCHANGED conns

\* The loop of sendfile goes on: the file is sent, or the client is gone.
RunSendfile ==
    /\ sched.busy # 0
    /\ LET fr == co[sched.busy].stack
       IN  /\ sock[fr.fd].room \/ sock[fr.fd].hup
           /\ \E T \in Replied([Now EXCEPT !.sched.busy = 0], sched.busy, fr) : Becomes(T)
    /\ UNCHANGED conns

Schedule == RunReady \/ nty_schedule_epoll \/ RunEvent \/ RunSendfile

-----------------------------------------------------------------------------
(* The clients and the children.                                            *)

Connect ==
    /\ conns < MaxConns
    /\ Cardinality({f \in 1..MaxFd : sock[f].kind = "conn"}) + sock[Listen].data < MaxOpen
    /\ sock' = [sock EXCEPT ![Listen].data = @ + 1]
    /\ conns' = conns + 1
    /\ UNCHANGED <<sched, co, epoll, child, asserted, forks>>

ClientSends(f) ==
    /\ sock[f].kind = "conn" /\ ~sock[f].hup /\ sock[f].data = 0
    /\ sock' = [sock EXCEPT ![f].data = 1]
    /\ UNCHANGED <<sched, co, epoll, child, asserted, conns, forks>>

ClientReads(f) ==
    /\ sock[f].kind = "conn" /\ ~sock[f].room
    /\ sock' = [sock EXCEPT ![f].room = TRUE]
    /\ UNCHANGED <<sched, co, epoll, child, asserted, conns, forks>>

ClientCloses(f) ==
    /\ sock[f].kind = "conn" /\ ~sock[f].hup
    /\ sock' = [sock EXCEPT ![f].hup = TRUE]
    /\ UNCHANGED <<sched, co, epoll, child, asserted, conns, forks>>

\* A child writes its result and exits, or is killed.
ChildEnds(k) ==
    /\ child[k] # NoChild
    /\ \E n \in {0, 1} :
         sock' = [sock EXCEPT ![child[k].pair].data = n, ![child[k].pair].hup = TRUE]
    /\ child' = [child EXCEPT ![k] = NoChild]
    /\ UNCHANGED <<sched, co, epoll, asserted, conns, forks>>

Next ==
    \/ Schedule \/ Connect
    \/ \E f \in 1..MaxFd : ClientSends(f) \/ ClientReads(f) \/ ClientCloses(f)
    \/ \E k \in {Save, Sync} : ChildEnds(k)

Spec == Init /\ [][Next]_vars

\* Whether nty_schedule_run is not in epoll_wait or in sendfile's loop.
CanRun ==
    IF sched.busy # 0 THEN sock[co[sched.busy].stack.fd].room \/ sock[co[sched.busy].stack.fd].hup
    ELSE \/ sched.phase \in {"ready", "events"} \/ sched.ready # <<>>
         \/ \E f \in DOMAIN epoll : Signalled(f)

\* The scheduler's thread runs whenever it can (weak fairness of Schedule: all
\* its steps, and no others, change sched), no child runs forever, and every
\* client reads what it was sent.
Fairness ==
    /\ <>[]CanRun => []<><<TRUE>>_sched
    /\ \A k \in {Save, Sync} : []<>(child[k] = NoChild)
    /\ \A f \in 1..MaxFd : []<>(sock[f].room)

FairSpec == Spec /\ Fairness

-----------------------------------------------------------------------------
(* What is to hold between two steps.                                       *)

Frames == [role : {"none", "server", "reader", "saver"},
           at : {"none", "start", "accept", "recv", "send", "child", "ready", "sendfile"},
           fd : 0..MaxFd, pair : 0..MaxFd]

TypeOK ==
    /\ co \in [1..MaxCo -> [status : SUBSET {"FREE", "NEW", "READY", "WAIT_READ", "FDEOF"}, stack : Frames]]
    /\ sched.ready \in Seq(1..MaxCo) /\ sched.events \in Seq(1..MaxFd)
    /\ DOMAIN sched.waiting \subseteq 1..MaxFd
    /\ sched.last \in 0..MaxCo /\ sched.busy \in 0..MaxCo
    /\ sched.phase \in {"ready", "epoll", "events", "stopped"}
    /\ sock \in [1..MaxFd -> [kind : {"free", "listen", "conn", "pair"}, data : 0..MaxOpen,
                              hup : BOOLEAN, room : BOOLEAN]]

\* A coroutine is in the ready queue once, or waits for one descriptor, or is
\* the one that runs; one that was freed is nowhere.  So none is lost, none is
\* resumed twice for one yield, and the scheduler follows no pointer to one
\* that nty_coroutine_free freed, nor to the one that got its memory.
EachInOnePlace ==
  /\ TypeOK
  /\ \A a \in 1..MaxCo :
        LET places == Cardinality({i \in DOMAIN sched.ready : sched.ready[i] = a})
                        + Cardinality({f \in DOMAIN sched.waiting : sched.waiting[f] = a})
                        + (IF sched.busy = a THEN 1 ELSE 0)
        IN  places = IF co[a] = Unused THEN 0 ELSE 1

WaitsFor(fr) == IF fr.at = "child" THEN fr.pair ELSE fr.fd

\* The coroutine that a descriptor's event resumes is the one whose locals, in
\* its copy of the shared stack, say that it waits for this descriptor; and
\* epoll knows those descriptors and no others, each with the event waited for.
\* What epoll_wait returned is still true when its turn comes: no coroutine
\* that an earlier event of the batch resumed took away the waiter of a later
\* one (nty_schedule_search_wait would follow NULL), and the assertions of
\* nty_schedule_sched_wait hold.
WakesTheRightOne ==
    /\ ~asserted
    /\ \A i \in DOMAIN sched.events : sched.events[i] \in DOMAIN sched.waiting
    /\ DOMAIN epoll = DOMAIN sched.waiting
    /\ \A f \in DOMAIN epoll :
         LET fr == co[sched.waiting[f]].stack
         IN  WaitsFor(fr) = f /\ epoll[f] = (IF fr.at = "send" THEN "out" ELSE "in")

Owners(f) == {a \in 1..MaxCo : co[a] # Unused /\ f \in {co[a].stack.fd, co[a].stack.pair}}

\* An open descriptor belongs to one coroutine, and a coroutine has only open
\* ones: none is closed twice or used after its number was given to another
\* connection, and none is left open, unless client_info_init failed and
\* server ended.
DescriptorsOwned ==
    \A f \in 1..MaxFd :
        Cardinality(Owners(f)) =
            IF sock[f].kind = "free" \/ (Owners(f) = {} /\ Owners(Listen) = {}) THEN 0 ELSE 1

Readable(f) ==
    /\ sock[f].data > 0 \/ sock[f].hup
    /\ \E a \in 1..MaxCo : f \in {co[a].stack.fd, co[a].stack.pair}

\* What reaches a descriptor is taken from it: connections are accepted,
\* commands read, the results of children fetched and lost clients closed,
\* although the kernel is only asked when no coroutine is ready, and although
\* sendfile's loop stops the whole server until the slave has read.
EventsServed == \A f \in 1..MaxFd : Readable(f) ~> ~Readable(f)
=============================================================================
