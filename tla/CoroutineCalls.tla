--------------------------- MODULE CoroutineCalls ---------------------------
(***************************************************************************)
(* The inductive invariant of NtyCo's scheduler under lidis' coroutines,    *)
(* and what the calls that a coroutine makes do to it.                      *)
(*                                                                         *)
(* A step of the scheduler runs a coroutine through several calls, so the   *)
(* inductive invariant Inv is stated of the record S that the operators of  *)
(* Coroutines pass on, and of a coroutine a that runs and the descriptors H *)
(* that it holds: between two steps nobody runs, a = 0 and H = {}.  There   *)
(* is a lemma for each call that says how it takes Inv from one pair of a   *)
(* and H to the next.                                                       *)
(***************************************************************************)
EXTENDS Coroutines, Integers, TLAPS

\* The time the prover may take for a leaf; a few milliseconds are the rule.
USE SMTT(20)

Addr == 1..MaxCo
Fds  == 1..MaxFd

Flags == {"FREE", "NEW", "READY", "WAIT_READ", "FDEOF"}
Coroutine == [status : SUBSET Flags, stack : Frames]
SocketType == [kind : {"free", "listen", "conn", "pair"}, data : 0..MaxOpen, hup : BOOLEAN, room : BOOLEAN]

\* Where a coroutine is that nty_poll_inner made wait.
Waits == {"accept", "recv", "send", "child", "ready"}

Rec(S) ==
    /\ DOMAIN S = {"sched", "co", "epoll", "sock", "child", "asserted", "forks"}
    /\ DOMAIN S.sched = {"ready", "waiting", "phase", "last", "events", "busy"}

Typed(S) ==
    /\ Rec(S)
    /\ S.co \in [Addr -> Coroutine]
    /\ S.sock \in [Fds -> SocketType]
    /\ S.sched.ready \in Seq(Addr) /\ S.sched.events \in Seq(Fds)
    /\ S.sched.last \in 0..MaxCo /\ S.sched.busy \in 0..MaxCo
    /\ S.sched.phase \in {"ready", "epoll", "events"}
    /\ DOMAIN S.sched.waiting \subseteq Fds /\ DOMAIN S.epoll = DOMAIN S.sched.waiting
    /\ S.epoll = [f \in DOMAIN S.epoll |-> S.epoll[f]]
    /\ DOMAIN S.child = {Save, Sync}
    /\ \A k \in {Save, Sync} : S.child[k].pair # Listen
    /\ S.asserted = FALSE

\* The ready queue has each of its coroutines once, and they are new.
Queue(S, a) ==
    /\ \A i, j \in DOMAIN S.sched.ready : S.sched.ready[i] = S.sched.ready[j] => i = j
    /\ \A i \in DOMAIN S.sched.ready :
          /\ S.sched.ready[i] # a
          /\ S.co[S.sched.ready[i]].status = {"NEW"}
          /\ S.co[S.sched.ready[i]].stack.at = "start"

\* Coroutine b waits for descriptor f, and epoll knows for which event.
WaitsAt(S, b, f) ==
    /\ S.co[b].stack.at \in Waits
    /\ WaitsFor(S.co[b].stack) = f
    /\ S.epoll[f] = IF S.co[b].stack.at = "send" THEN "out" ELSE "in"

Waiting(S, a) ==
    \A f \in DOMAIN S.sched.waiting :
        S.sched.waiting[f] \in Addr \ {a} /\ WaitsAt(S, S.sched.waiting[f], f)

Busy(S, a) ==
    S.sched.busy # 0 => S.sched.busy # a /\ S.co[S.sched.busy].stack.at = "sendfile"

\* The descriptors of a frame are of the kind that its function works with.
Fit(S, fr) ==
    \/ fr.role = "server" /\ fr.fd = Listen /\ fr.pair = 0 /\ fr.at \in {"start", "accept"}
    \/ /\ fr.role = "reader" /\ fr.fd \in Fds /\ S.sock[fr.fd].kind = "conn"
       /\ \/ fr.at \in {"start", "recv", "send", "ready", "sendfile"} /\ fr.pair = 0
          \/ fr.at = "child" /\ fr.pair \in Fds /\ S.sock[fr.pair].kind = "pair"
    \/ /\ fr.role = "saver" /\ fr.fd \in Fds /\ S.sock[fr.fd].kind = "pair" /\ fr.pair = 0
       /\ fr.at \in {"start", "recv"}

\* The coroutine is where its frame says.
InPlace(S, b) ==
    /\ S.co[b].stack.at = "start" => \E i \in DOMAIN S.sched.ready : S.sched.ready[i] = b
    /\ S.co[b].stack.at \in Waits =>
          /\ WaitsFor(S.co[b].stack) \in DOMAIN S.sched.waiting
          /\ S.sched.waiting[WaitsFor(S.co[b].stack)] = b
    /\ S.co[b].stack.at = "sendfile" => S.sched.busy = b /\ S.co[b].status \in {{}, {"READY"}}

Places(S, a) ==
    \A b \in Addr \ {a} :
        S.co[b] # Unused => Fit(S, S.co[b].stack) /\ InPlace(S, b) /\ S.co[b].status # {"FREE"}

Held(fr) == {fr.fd, fr.pair} \ {0}

Holds(S, b) == Held(S.co[b].stack)

\* Descriptor f is in H or is held by a coroutine other than a.
Has(S, a, H, f) == f \in H \/ \E b \in Addr \ {a} : f \in Holds(S, b)

\* No descriptor is held twice, and none that is open by nobody, unless server
\* has ended.
Owned(S, a, H) ==
    /\ \A b, c \in Addr \ {a} : b # c => Holds(S, b) \cap Holds(S, c) = {}
    /\ \A b \in Addr \ {a} : Holds(S, b) \cap H = {}
    /\ H \subseteq Fds /\ \A f \in H : S.sock[f].kind # "free"
    /\ Has(S, a, H, Listen) => \A f \in Fds : S.sock[f].kind # "free" => Has(S, a, H, f)

Conns(S) == {f \in Fds : S.sock[f].kind = "conn"}

\* The facts on finite sets that the steps need: the least element of a set,
\* how many elements a set of descriptors has, how few it has if three more
\* make it all of them, and if there is for every coroutine but one another
\* element of it, or of two more, x aside.  CountingHolds proves them.
Counting ==
    /\ \A X \in SUBSET Nat : \A n \in X : Sets!Min(X) \in X
    /\ \A x : Cardinality({x}) = 1
    /\ \A X \in SUBSET Fds :
          /\ Cardinality(X) \in Nat /\ (Cardinality(X) = 0 <=> X = {})
          /\ \A Y \in SUBSET X : Cardinality(Y) <= Cardinality(X)
          /\ \A f \in Fds \ X : Cardinality(X \cup {f}) = Cardinality(X) + 1
          /\ \A f, g, h : Fds \subseteq X \cup {f, g, h} => MaxFd <= Cardinality(X) + 3
          /\ \A f, g : \A x \in X \cup {f, g}, a \in Addr : \A F \in [Addr \ {a} -> (X \cup {f, g}) \ {x}] :
                (\A b, c \in Addr \ {a} : F[b] = F[c] => b = c) => MaxCo - 1 <= Cardinality(X) + 1

\* What bounds the number of open descriptors: one to listen, the connections,
\* and a pair for the one saver and for the one reader that waits for a child.
Bounded(S, a, H) ==
    /\ Counting
    /\ Cardinality(Conns(S)) + S.sock[Listen].data <= MaxOpen
    /\ \A f \in Fds : S.sock[f].kind = "listen" <=> f = Listen
    /\ \A f \in Fds : S.sock[f].kind = "pair" => Has(S, a, H, f)
    /\ \A b, c \in Addr \ {a} : S.co[b].stack.role = "saver" /\ S.co[c].stack.role = "saver" => b = c
    /\ \A b, c \in Addr \ {a} : S.co[b].stack.at = "child" /\ S.co[c].stack.at = "child" => b = c

\* The events that are still to be handled are of different descriptors, each
\* with its waiter, and the one of the listening socket is a connection.
Batch(S) ==
    /\ \A i, j \in DOMAIN S.sched.events : S.sched.events[i] = S.sched.events[j] => i = j
    /\ \A i \in DOMAIN S.sched.events :
          /\ S.sched.events[i] \in DOMAIN S.sched.waiting
          /\ S.sched.events[i] = Listen => S.sock[Listen].data > 0
    /\ S.sock[Listen].hup = FALSE

Inv(S, a, H) ==
    /\ Typed(S) /\ Queue(S, a) /\ Waiting(S, a) /\ Busy(S, a) /\ Places(S, a)
    /\ Owned(S, a, H) /\ Bounded(S, a, H) /\ Batch(S)

\* A pass through the ready queue ends with a coroutine that is in it, and a
\* batch of events has one that is to be handled.
Pass(S) ==
    /\ S.sched.phase = "ready" => \E i \in DOMAIN S.sched.ready : S.sched.ready[i] = S.sched.last
    /\ S.sched.phase = "events" <=> S.sched.events # <<>>

CoInv == Inv(Now, 0, {}) /\ Pass(Now)

\* Coroutine a runs: it is in no place, and nty_schedule_sched_wait will not
\* find a wait in its status.
Runs(S, a, H) ==
    /\ a \in Addr /\ Inv(S, a, H) /\ S.sched.busy = 0
    /\ S.co[a].status \in {{}, {"READY"}}

\* What a coroutine that runs never does to the scheduler's loops.
Keeps(S, T) ==
    /\ T.sched.phase = S.sched.phase /\ T.sched.last = S.sched.last /\ T.sched.events = S.sched.events
    /\ \A i \in DOMAIN S.sched.ready : i \in DOMAIN T.sched.ready /\ T.sched.ready[i] = S.sched.ready[i]

\* The coroutine that ran since S has yielded or ended.
Stopped(S, T) == Inv(T, 0, {}) /\ Keeps(S, T)

-----------------------------------------------------------------------------
(* What each call changes, field by field.                                  *)

\* The parts of the state that a call on the sockets leaves alone.
Rest(S, T) == T.sched = S.sched /\ T.co = S.co /\ T.asserted = S.asserted

\* Coroutine a waits for an event of a descriptor that nobody waits for.
Yielded(S, T, a, fr, fd, ev) ==
    /\ Rec(T) /\ T.asserted = FALSE /\ T.sock = S.sock /\ T.child = S.child
    /\ T.epoll = [f \in DOMAIN T.epoll |-> T.epoll[f]]
    /\ DOMAIN T.epoll = DOMAIN S.epoll \cup {fd} /\ T.epoll[fd] = ev
    /\ \A g \in DOMAIN S.epoll : T.epoll[g] = S.epoll[g]
    /\ DOMAIN T.sched.waiting = DOMAIN S.sched.waiting \cup {fd} /\ T.sched.waiting[fd] = a
    /\ \A g \in DOMAIN S.sched.waiting : T.sched.waiting[g] = S.sched.waiting[g]
    /\ T.sched.ready = S.sched.ready /\ T.sched.events = S.sched.events
    /\ T.sched.phase = S.sched.phase /\ T.sched.last = S.sched.last /\ T.sched.busy = S.sched.busy
    /\ T.co \in [Addr -> Coroutine]
    /\ T.co[a].status \in {S.co[a].status, S.co[a].status \cup {"WAIT_READ"}} /\ T.co[a].stack = fr
    /\ \A b \in Addr \ {a} : T.co[b] = S.co[b]

\* nty_poll_inner up to the yield, when the assertions hold.
LEMMA PollYieldIs ==
    ASSUME NEW S, Rec(S), S.asserted = FALSE, NEW a \in Addr, NEW fd, NEW ev, NEW fr \in Frames,
           S.co \in [Addr -> Coroutine], "WAIT_READ" \notin S.co[a].status,
           fd \notin DOMAIN S.sched.waiting, fd \notin DOMAIN S.epoll,
           NEW T, T = PollYield(S, a, fr, fd, ev)
    PROVE  Yielded(S, T, a, fr, fd, ev)
<1> DEFINE R == [S EXCEPT !.epoll = With(@, fd, ev)]
           W == nty_schedule_sched_wait(R, a, fd, ev)
           v == S.co[a].status \cup (IF ev = "in" THEN {} ELSE {"WAIT_READ"})
<1>1. /\ Rec(R) /\ R.epoll = With(S.epoll, fd, ev) /\ R.sched = S.sched /\ R.co = S.co
      /\ R.asserted = FALSE /\ R.sock = S.sock /\ R.child = S.child
  BY Zenon DEF Rec
<1>2. T = [W EXCEPT !.co[a].stack = fr]
  BY Zenon DEF PollYield, nty_coroutine_yield
<1> HIDE DEF R
<1>3. /\ Rec(W) /\ W.asserted = FALSE /\ W.sock = R.sock /\ W.child = R.child /\ W.epoll = R.epoll
      /\ W.sched = [R.sched EXCEPT !.waiting = With(R.sched.waiting, fd, a)]
      /\ W.co = [R.co EXCEPT ![a].status = R.co[a].status \cup (IF ev = "in" THEN {} ELSE {"WAIT_READ"})]
  BY <1>1, Zenon DEF Rec, nty_schedule_sched_wait
<1> HIDE DEF W
<1>4. /\ Rec(T) /\ T.asserted = FALSE /\ T.sock = S.sock /\ T.child = S.child
      /\ T.epoll = R.epoll /\ T.sched = W.sched /\ T.co = [W.co EXCEPT ![a].stack = fr]
  BY <1>1, <1>2, <1>3, Zenon DEF Rec
<1>5. W.co = [S.co EXCEPT ![a].status = v]
  BY <1>1, <1>3, Zenon
<1>6. v \in SUBSET Flags /\ v \in {S.co[a].status, S.co[a].status \cup {"WAIT_READ"}}
  BY DEF Flags, Coroutine
<1> HIDE DEF v
<1>7. W.co \in [Addr -> Coroutine] /\ W.co[a].status = v /\ \A b \in Addr \ {a} : W.co[b] = S.co[b]
  BY <1>5, <1>6 DEF Coroutine
<1>8. /\ T.co \in [Addr -> Coroutine] /\ T.co[a].status = v /\ T.co[a].stack = fr
      /\ \A b \in Addr \ {a} : T.co[b] = W.co[b]
  BY <1>4, <1>7 DEF Coroutine
<1>9. T.sched = [S.sched EXCEPT !.waiting = With(S.sched.waiting, fd, a)]
  BY <1>1, <1>3, <1>4, Zenon
<1>10. T.sched.waiting = With(S.sched.waiting, fd, a)
  BY <1>9, Zenon DEF Rec
<1>11. /\ T.sched.ready = S.sched.ready /\ T.sched.events = S.sched.events
       /\ T.sched.phase = S.sched.phase /\ T.sched.last = S.sched.last /\ T.sched.busy = S.sched.busy
  BY <1>9, Zenon DEF Rec
<1>12. /\ DOMAIN T.sched.waiting = DOMAIN S.sched.waiting \cup {fd} /\ T.sched.waiting[fd] = a
       /\ \A g \in DOMAIN S.sched.waiting : T.sched.waiting[g] = S.sched.waiting[g]
  BY <1>10 DEF With
<1>13. /\ T.epoll = [f \in DOMAIN T.epoll |-> T.epoll[f]]
       /\ DOMAIN T.epoll = DOMAIN S.epoll \cup {fd} /\ T.epoll[fd] = ev
       /\ \A g \in DOMAIN S.epoll : T.epoll[g] = S.epoll[g]
  BY <1>1, <1>4 DEF With
<1> QED
  BY <1>4, <1>6, <1>7, <1>8, <1>11, <1>12, <1>13 DEF Yielded

\* Coroutine a waits no more.
Done(S, T, a, fd) ==
    /\ Rec(T) /\ T.asserted = S.asserted /\ T.sock = S.sock /\ T.child = S.child
    /\ T.epoll = [f \in DOMAIN T.epoll |-> T.epoll[f]]
    /\ DOMAIN T.epoll = DOMAIN S.epoll \ {fd}
    /\ \A g \in DOMAIN S.epoll \ {fd} : T.epoll[g] = S.epoll[g]
    /\ DOMAIN T.sched.waiting = DOMAIN S.sched.waiting \ {fd}
    /\ \A g \in DOMAIN S.sched.waiting \ {fd} : T.sched.waiting[g] = S.sched.waiting[g]
    /\ T.sched.ready = S.sched.ready /\ T.sched.events = S.sched.events
    /\ T.sched.phase = S.sched.phase /\ T.sched.last = S.sched.last /\ T.sched.busy = S.sched.busy
    /\ T.co \in [Addr -> Coroutine]
    /\ T.co[a].status = {} /\ T.co[a].stack = S.co[a].stack
    /\ \A b \in Addr \ {a} : T.co[b] = S.co[b]

\* nty_poll_inner after the yield, in the coroutine that waits for fd.
LEMMA PollDoneIs ==
    ASSUME NEW S, Rec(S), NEW a \in Addr, NEW fd, S.sched.waiting[fd] = a,
           S.co \in [Addr -> Coroutine],
           NEW T, T = PollDone(S, fd)
    PROVE  Done(S, T, a, fd)
<1> DEFINE R == [S EXCEPT !.epoll = Without(@, fd)]
<1>1. /\ Rec(R) /\ R.epoll = Without(S.epoll, fd) /\ R.sched = S.sched /\ R.co = S.co
      /\ R.asserted = S.asserted /\ R.sock = S.sock /\ R.child = S.child
  BY Zenon DEF Rec
<1>2. T = nty_schedule_desched_wait(R, fd)
  BY Zenon DEF PollDone
<1> HIDE DEF R
<1>3. T = [R EXCEPT !.co[a].status = {}, !.sched.waiting = Without(R.sched.waiting, fd)]
  BY <1>1, <1>2, Zenon DEF nty_schedule_desched_wait
<1>4. /\ Rec(T) /\ T.asserted = S.asserted /\ T.sock = S.sock /\ T.child = S.child /\ T.epoll = R.epoll
      /\ T.sched = [R.sched EXCEPT !.waiting = Without(R.sched.waiting, fd)]
      /\ T.co = [R.co EXCEPT ![a].status = {}]
  BY <1>1, <1>3, Zenon DEF Rec
<1>5. T.co = [S.co EXCEPT ![a].status = {}]
  BY <1>1, <1>4, Zenon
<1>6. T.sched = [S.sched EXCEPT !.waiting = Without(S.sched.waiting, fd)]
  BY <1>1, <1>4, Zenon
<1>7. /\ T.co \in [Addr -> Coroutine] /\ T.co[a].status = {} /\ T.co[a].stack = S.co[a].stack
      /\ \A b \in Addr \ {a} : T.co[b] = S.co[b]
  BY <1>5 DEF Coroutine
<1>8. T.sched.waiting = Without(S.sched.waiting, fd)
  BY <1>6, Zenon DEF Rec
<1>9. /\ T.sched.ready = S.sched.ready /\ T.sched.events = S.sched.events
      /\ T.sched.phase = S.sched.phase /\ T.sched.last = S.sched.last /\ T.sched.busy = S.sched.busy
  BY <1>6, Zenon DEF Rec
<1>10. /\ DOMAIN T.sched.waiting = DOMAIN S.sched.waiting \ {fd}
       /\ \A g \in DOMAIN S.sched.waiting \ {fd} : T.sched.waiting[g] = S.sched.waiting[g]
  BY <1>8 DEF Without
<1>11. /\ T.epoll = [f \in DOMAIN T.epoll |-> T.epoll[f]]
       /\ DOMAIN T.epoll = DOMAIN S.epoll \ {fd}
       /\ \A g \in DOMAIN S.epoll \ {fd} : T.epoll[g] = S.epoll[g]
  BY <1>1, <1>4 DEF Without
<1> QED
  BY <1>4, <1>7, <1>9, <1>10, <1>11 DEF Done

\* A coroutine's place in the table is overwritten.
Put(S, T, a, r) ==
    /\ Rec(T) /\ T.asserted = S.asserted /\ T.sock = S.sock /\ T.child = S.child
    /\ T.epoll = S.epoll /\ T.sched = S.sched
    /\ T.co \in [Addr -> Coroutine] /\ T.co[a] = r
    /\ \A b \in Addr \ {a} : T.co[b] = S.co[b]

LEMMA PutIs ==
    ASSUME NEW S, Rec(S), NEW a \in Addr, NEW r \in Coroutine, S.co \in [Addr -> Coroutine],
           NEW T, T = [S EXCEPT !.co[a] = r]
    PROVE  Put(S, T, a, r)
<1>1. /\ Rec(T) /\ T.asserted = S.asserted /\ T.sock = S.sock /\ T.child = S.child
      /\ T.epoll = S.epoll /\ T.sched = S.sched /\ T.co = [S.co EXCEPT ![a] = r]
  BY Zenon DEF Rec
<1>2. /\ T.co \in [Addr -> Coroutine] /\ T.co[a] = r
      /\ \A b \in Addr \ {a} : T.co[b] = S.co[b]
  BY <1>1
<1> QED
  BY <1>1, <1>2 DEF Put

\* A new coroutine at address n, which is put into the ready queue.
Created(S, T, n, fr) ==
    /\ Rec(T) /\ T.asserted = S.asserted /\ T.sock = S.sock /\ T.child = S.child
    /\ T.epoll = S.epoll /\ T.sched.waiting = S.sched.waiting
    /\ T.sched.ready = Append(S.sched.ready, n) /\ T.sched.events = S.sched.events
    /\ T.sched.phase = S.sched.phase /\ T.sched.last = S.sched.last /\ T.sched.busy = S.sched.busy
    /\ T.co \in [Addr -> Coroutine] /\ T.co[n] = [status |-> {"NEW"}, stack |-> fr]
    /\ \A b \in Addr \ {n} : T.co[b] = S.co[b]

LEMMA CreateIs ==
    ASSUME NEW S, Rec(S), NEW fr \in Frames, S.co \in [Addr -> Coroutine],
           NEW n \in Addr, n = Sets!Min({b \in 1..MaxCo : S.co[b] = Unused}),
           NEW T, T = nty_coroutine_create(S, fr)
    PROVE  Created(S, T, n, fr)
<1> DEFINE r == [status |-> {"NEW"}, stack |-> fr]
<1>1. r \in Coroutine
  BY DEF Coroutine, Flags
<1> HIDE DEF r
<1>2. T = [S EXCEPT !.co[n] = r, !.sched.ready = Append(S.sched.ready, n)]
  BY Zenon DEF nty_coroutine_create, r
<1>3. /\ Rec(T) /\ T.asserted = S.asserted /\ T.sock = S.sock /\ T.child = S.child
      /\ T.epoll = S.epoll /\ T.co = [S.co EXCEPT ![n] = r]
      /\ T.sched = [S.sched EXCEPT !.ready = Append(S.sched.ready, n)]
  BY <1>2, Zenon DEF Rec
<1>4. T.sched.ready = Append(S.sched.ready, n)
  BY <1>3, Zenon DEF Rec
<1>5. /\ T.sched.waiting = S.sched.waiting /\ T.sched.events = S.sched.events
      /\ T.sched.phase = S.sched.phase /\ T.sched.last = S.sched.last /\ T.sched.busy = S.sched.busy
  BY <1>3, Zenon DEF Rec
<1>6. /\ T.co \in [Addr -> Coroutine] /\ T.co[n] = r
      /\ \A b \in Addr \ {n} : T.co[b] = S.co[b]
  BY <1>1, <1>3
<1> QED
  BY <1>3, <1>4, <1>5, <1>6 DEF r, Created

-----------------------------------------------------------------------------
(* Calls that change a socket, and neither coroutines nor the scheduler.    *)

ListenIs == Listen \in Fds

LEMMA ListenFd == ListenIs
BY CoroutinesAssumption DEF ListenIs, Listen, Fds

\* 0 is neither a coroutine nor a descriptor.
LEMMA Zero == 0 \notin Addr /\ 0 \notin Fds /\ Addr \ {0} = Addr
BY CoroutinesAssumption DEF Addr, Fds

LEMMA UnusedHolds ==
    /\ Held(Unused.stack) = {} /\ Unused.stack.at = "none" /\ Unused.stack.role = "none"
    /\ Unused.status = {"FREE"} /\ Unused \in Coroutine
BY CoroutinesAssumption DEF Held, Unused, NoFrame, Frame, Frames, Coroutine, Flags

\* The server starts with the coroutine that accepts in the ready queue.
LEMMA InitialInv ==
    ASSUME Counting, Init
    PROVE  CoInv
<1> DEFINE S == Now
           fr == Frame("server", "start", Listen, 0)
<1>1. /\ S.co = [a \in Addr |-> IF a = 1 THEN [status |-> {"NEW"}, stack |-> fr] ELSE Unused]
      /\ S.sched = [ready |-> <<1>>, waiting |-> <<>>, phase |-> "ready", last |-> 1, events |-> <<>>, busy |-> 0]
      /\ S.epoll = <<>> /\ S.sock = [f \in Fds |-> Socket(IF f = Listen THEN "listen" ELSE "free")]
      /\ S.child = [k \in {Save, Sync} |-> NoChild] /\ S.asserted = FALSE
      /\ DOMAIN S = {"sched", "co", "epoll", "sock", "child", "asserted", "forks"}
  BY DEF Init, Now, Addr, Fds
<1>2. Rec(S)
  BY <1>1 DEF Rec
<1>3. /\ S.sched.ready = <<1>> /\ S.sched.waiting = <<>> /\ S.sched.phase = "ready" /\ S.sched.last = 1
      /\ S.sched.events = <<>> /\ S.sched.busy = 0
  BY <1>1
<1>4. MaxCo \in Nat /\ 1 \in Addr /\ Listen \in Fds /\ MaxOpen \in Nat \ {0}
  BY CoroutinesAssumption DEF Addr, Fds, Listen
<1>5. /\ fr \in Frames /\ fr.role = "server" /\ fr.at = "start" /\ fr.fd = Listen /\ fr.pair = 0
      /\ Unused.status = {"FREE"} /\ Unused.stack \in Frames /\ Unused.stack.role = "none"
      /\ Unused.stack.at = "none" /\ Unused.stack.fd = 0 /\ Unused.stack.pair = 0
  BY <1>4, CoroutinesAssumption DEF Frames, Frame, Unused, NoFrame, Fds
<1>6. /\ S.co \in [Addr -> Coroutine]
      /\ S.co[1].status = {"NEW"} /\ S.co[1].stack = fr
      /\ \A b \in Addr \ {1} : S.co[b] = Unused
  <2>1. Unused \in Coroutine /\ [status |-> {"NEW"}, stack |-> fr] \in Coroutine
    BY <1>5 DEF Coroutine, Unused, Flags
  <2> HIDE DEF fr
  <2> QED
    BY <1>1, <1>4, <2>1
<1>7. /\ S.sock \in [Fds -> SocketType] /\ S.sock[Listen].data = 0 /\ S.sock[Listen].hup = FALSE
      /\ S.sock[Listen].kind = "listen" /\ \A f \in Fds \ {Listen} : S.sock[f].kind = "free"
  BY <1>1, <1>4 DEF Socket, SocketType
<1>8. /\ S.sched.ready \in Seq(Addr) /\ DOMAIN S.sched.ready = {1} /\ S.sched.ready[1] = 1
      /\ S.sched.events \in Seq(Fds) /\ DOMAIN S.sched.events = {}
      /\ DOMAIN S.sched.waiting = {} /\ DOMAIN S.epoll = {}
  BY <1>1, <1>3, <1>4
<1>9. /\ DOMAIN S.child = {Save, Sync} /\ \A k \in {Save, Sync} : S.child[k].pair # Listen
      /\ S.asserted = FALSE
  BY <1>1 DEF NoChild, Listen
<1>10. S.epoll = [f \in DOMAIN S.epoll |-> S.epoll[f]]
  BY <1>1
<1> HIDE DEF S, fr
<1>11. Holds(S, 1) = {Listen} /\ \A b \in Addr \ {1} : Holds(S, b) = {}
  BY <1>5, <1>6 DEF Holds, Held, Listen
<1>12. Addr \ {0} = Addr /\ 0 # 1
  BY Zero
<1>13. Typed(S)
  <2>1. S.sched.last \in 0..MaxCo /\ S.sched.busy \in 0..MaxCo /\ S.sched.phase \in {"ready", "epoll", "events"}
    BY <1>3, <1>4 DEF Addr
  <2> QED
    BY <1>2, <1>6, <1>7, <1>8, <1>9, <1>10, <2>1, Zenon DEF Typed
<1>14. Queue(S, 0)
  BY <1>5, <1>6, <1>8, <1>12 DEF Queue
<1>15. Waiting(S, 0)
  BY <1>8, Zenon DEF Waiting
<1>16. Busy(S, 0)
  BY <1>3, Zenon DEF Busy
<1>17. Places(S, 0)
  <2>1. Fit(S, fr)
    BY <1>5, Zenon DEF Fit
  <2>2. InPlace(S, 1)
    BY <1>5, <1>6, <1>8 DEF InPlace, Waits
  <2>3. S.co[1].status # {"FREE"}
    BY <1>6
  <2> QED
    BY <1>6, <1>12, <2>1, <2>2, <2>3, Zenon DEF Places
<1>18. Owned(S, 0, {})
  BY <1>4, <1>7, <1>11, <1>12, Zenon DEF Owned, Has
<1>19. Bounded(S, 0, {})
  <2>1. Conns(S) = {}
    BY <1>7 DEF Conns
  <2>2. Cardinality(Conns(S)) + S.sock[Listen].data <= MaxOpen
    <3>1. Cardinality({}) = 0
      BY Zenon DEF Counting
    <3> QED
      BY <1>4, <1>7, <2>1, <3>1
  <2> QED
    BY <1>4, <1>5, <1>6, <1>7, <1>12, <2>2 DEF Bounded
<1>20. Batch(S)
  BY <1>7, <1>8, Zenon DEF Batch
<1>21. Pass(S)
  BY <1>3, <1>8 DEF Pass
<1> QED
  BY <1>13, <1>14, <1>15, <1>16, <1>17, <1>18, <1>19, <1>20, <1>21, Zenon DEF CoInv, Inv, S

-----------------------------------------------------------------------------
(* What follows from the invariant.                                         *)

LEMMA TypesHold == CoInv => TypeOK
<1> SUFFICES ASSUME CoInv
             PROVE  TypeOK
  OBVIOUS
<1>1. Typed(Now)
  BY Zenon DEF CoInv, Inv
<1>2. Now.sched = sched /\ Now.co = co /\ Now.sock = sock
  BY DEF Now
<1>3. co \in [1..MaxCo -> [status : SUBSET {"FREE", "NEW", "READY", "WAIT_READ", "FDEOF"}, stack : Frames]]
  BY <1>1, <1>2, Zenon DEF Typed, Addr, Coroutine, Flags
<1>4. sock \in [1..MaxFd -> [kind : {"free", "listen", "conn", "pair"}, data : 0..MaxOpen,
                             hup : BOOLEAN, room : BOOLEAN]]
  BY <1>1, <1>2, Zenon DEF Typed, Fds, SocketType
<1>5. sched.ready \in Seq(1..MaxCo) /\ sched.events \in Seq(1..MaxFd) /\ DOMAIN sched.waiting \subseteq 1..MaxFd
  BY <1>1, <1>2, Zenon DEF Typed, Addr, Fds
<1>6. sched.last \in 0..MaxCo /\ sched.busy \in 0..MaxCo /\ sched.phase \in {"ready", "epoll", "events", "stopped"}
  BY <1>1, <1>2 DEF Typed
<1> QED
  BY <1>3, <1>4, <1>5, <1>6, Zenon DEF TypeOK

\* A set with one element, or with none.
LEMMA OneOf ==
    ASSUME Counting, NEW X, NEW x \in X, \A y \in X : y = x
    PROVE  Cardinality(X) = 1
<1>1. X = {x}
  OBVIOUS
<1> QED
  BY <1>1, Zenon DEF Counting

LEMMA NoneOf ==
    ASSUME Counting, NEW X, \A y \in X : FALSE
    PROVE  Cardinality(X) = 0
<1>1. X = {}
  OBVIOUS
<1> QED
  BY <1>1, Zenon DEF Counting

LEMMA InOnePlace ==
    ASSUME CoInv, NEW a \in 1..MaxCo
    PROVE  LET places == Cardinality({i \in DOMAIN sched.ready : sched.ready[i] = a})
                           + Cardinality({f \in DOMAIN sched.waiting : sched.waiting[f] = a})
                           + (IF sched.busy = a THEN 1 ELSE 0)
           IN  places = IF co[a] = Unused THEN 0 ELSE 1
<1> DEFINE S == Now
           fr == co[a].stack
           Q == {i \in DOMAIN sched.ready : sched.ready[i] = a}
           W == {f \in DOMAIN sched.waiting : sched.waiting[f] = a}
           B == IF sched.busy = a THEN 1 ELSE 0
<1>0. Counting
  BY Zenon DEF CoInv, Inv, Bounded
<1>1. S.sched = sched /\ S.co = co
  BY DEF Now
<1>2. a \in Addr /\ a \in Addr \ {0} /\ a # 0
  BY DEF Addr
<1>3. Typed(S) /\ Queue(S, 0) /\ Waiting(S, 0) /\ Busy(S, 0) /\ Places(S, 0)
  BY Zenon DEF CoInv, Inv
<1> HIDE DEF S
<1>4. \A i, j \in Q : i = j
  BY <1>1, <1>3, Zenon DEF Queue
<1>5. Q # {} => fr.at = "start"
  BY <1>1, <1>3, Zenon DEF Queue
<1>6. \A f \in W : fr.at \in Waits /\ f = WaitsFor(fr)
  BY <1>1, <1>3, Zenon DEF Waiting, WaitsAt
<1>7. sched.busy = a => fr.at = "sendfile"
  BY <1>1, <1>2, <1>3, Zenon DEF Busy
<1>8. CASE co[a] = Unused
  <2>1. fr.at = "none"
    BY <1>8 DEF Unused, NoFrame, Frame
  <2> HIDE DEF fr
  <2>2. Q = {} /\ sched.busy # a
    BY <1>5, <1>7, <2>1
  <2>3. \A f \in W : FALSE
    BY <1>6, <2>1 DEF Waits
  <2>4. Cardinality(Q) = 0 /\ Cardinality(W) = 0 /\ B = 0
    BY <2>2, <2>3, <1>0, NoneOf, Zenon
  <2> HIDE DEF Q, W, B
  <2>5. Cardinality(Q) + Cardinality(W) + B = 0
    BY <2>4
  <2> QED
    BY <1>8, <2>5, Zenon DEF Q, W, B
<1>9. CASE co[a] # Unused
  <2>1. Fit(S, fr) /\ InPlace(S, a)
    BY <1>1, <1>2, <1>3, <1>9, Zenon DEF Places
  <2>2. /\ fr.at = "start" => Q # {}
        /\ fr.at \in Waits => WaitsFor(fr) \in W
        /\ fr.at = "sendfile" => sched.busy = a
    BY <1>1, <2>1, Zenon DEF InPlace
  <2> HIDE DEF fr
  <2>3. fr.at \in {"start", "sendfile"} \cup Waits
    BY <2>1 DEF Fit, Waits
  <2>4. Cardinality(Q) + Cardinality(W) + B = 1
    <3>1. CASE fr.at = "start"
      <4>1. PICK i \in Q : TRUE
        BY <2>2, <3>1
      <4>2. Cardinality(Q) = 1
        BY <1>4, <4>1, <1>0, OneOf, Zenon
      <4>3. \A f \in W : FALSE
        BY <1>6, <3>1 DEF Waits
      <4>4. Cardinality(W) = 0
        BY <4>3, <1>0, NoneOf, Zenon
      <4>5. B = 0
        BY <1>7, <3>1
      <4> HIDE DEF Q, W, B
      <4> QED
        BY <4>2, <4>4, <4>5
    <3>2. CASE fr.at \in Waits
      <4>1. \A i \in Q : FALSE
        BY <1>5, <3>2 DEF Waits
      <4>2. Cardinality(Q) = 0
        BY <4>1, <1>0, NoneOf, Zenon
      <4>3. Cardinality(W) = 1
        BY <1>6, <2>2, <3>2, <1>0, OneOf, Zenon
      <4>4. B = 0
        BY <1>7, <3>2 DEF Waits
      <4> HIDE DEF Q, W, B
      <4> QED
        BY <4>2, <4>3, <4>4
    <3>3. CASE fr.at = "sendfile"
      <4>1. \A i \in Q : FALSE
        BY <1>5, <3>3
      <4>2. \A f \in W : FALSE
        BY <1>6, <3>3 DEF Waits
      <4>3. Cardinality(Q) = 0 /\ Cardinality(W) = 0
        BY <4>1, <4>2, <1>0, NoneOf, Zenon
      <4>4. B = 1
        BY <2>2, <3>3
      <4> HIDE DEF Q, W, B
      <4> QED
        BY <4>3, <4>4
    <3> QED
      BY <2>3, <3>1, <3>2, <3>3
  <2> HIDE DEF Q, W, B
  <2> QED
    BY <1>9, <2>4, Zenon DEF Q, W, B
<1> QED
  BY <1>8, <1>9

LEMMA InPlaces == CoInv => EachInOnePlace
BY TypesHold, InOnePlace, Zenon DEF EachInOnePlace

LEMMA WakesRight == CoInv => WakesTheRightOne
<1>1. ASSUME CoInv
      PROVE  WakesTheRightOne
  <2>1. Typed(Now) /\ Waiting(Now, 0) /\ Batch(Now)
    BY <1>1, Zenon DEF CoInv, Inv
  <2>2. Now.sched = sched /\ Now.co = co /\ Now.epoll = epoll /\ Now.asserted = asserted
    BY DEF Now
  <2>3. asserted = FALSE /\ DOMAIN epoll = DOMAIN sched.waiting
    BY <2>1, <2>2, Zenon DEF Typed
  <2>4. \A i \in DOMAIN sched.events : sched.events[i] \in DOMAIN sched.waiting
    BY <2>1, <2>2, Zenon DEF Batch
  <2>5. ASSUME NEW f \in DOMAIN epoll
        PROVE  LET fr == co[sched.waiting[f]].stack
               IN  WaitsFor(fr) = f /\ epoll[f] = (IF fr.at = "send" THEN "out" ELSE "in")
    BY <2>1, <2>2, <2>3, Zenon DEF Waiting, WaitsAt
  <2> QED
    BY <2>3, <2>4, <2>5, Zenon DEF WakesTheRightOne
<1> QED
  BY <1>1, Zenon

\* A coroutine owns the descriptors of its frame.
LEMMA OwnersAre ==
    ASSUME CoInv, NEW f \in Fds, NEW b \in Addr
    PROVE  b \in Owners(f) <=> f \in Holds(Now, b)
<1>1. Now.co = co
  BY DEF Now
<1>2. f # 0
  BY DEF Fds
<1>3. f \in Holds(Now, b) <=> f \in {co[b].stack.fd, co[b].stack.pair}
  BY <1>1, <1>2 DEF Holds, Held
<1>4. co[b] = Unused => f \notin {co[b].stack.fd, co[b].stack.pair}
  BY <1>2 DEF Unused, NoFrame, Frame
<1> QED
  BY <1>3, <1>4, Zenon DEF Owners, Addr

LEMMA HaveOwners == CoInv => DescriptorsOwned
<1>1. ASSUME CoInv, NEW f \in 1..MaxFd
      PROVE  Cardinality(Owners(f)) =
                IF sock[f].kind = "free" \/ (Owners(f) = {} /\ Owners(Listen) = {}) THEN 0 ELSE 1
  <2>0. Counting
    BY <1>1, Zenon DEF CoInv, Inv, Bounded
  <2>1. Owned(Now, 0, {}) /\ Places(Now, 0)
    BY <1>1, Zenon DEF CoInv, Inv
  <2>2. Now.sock = sock /\ Now.co = co
    BY DEF Now
  <2>3. f \in Fds /\ Listen \in Fds /\ Addr \ {0} = Addr
    BY ListenFd DEF Fds, Addr, ListenIs
  <2>4. \A g : Owners(g) \subseteq Addr
    BY DEF Owners, Addr
  <2>5. \A b, c \in Owners(f) : b = c
    <3>1. ASSUME NEW b \in Owners(f), NEW c \in Owners(f), b # c
          PROVE  FALSE
      <4>1. f \in Holds(Now, b) /\ f \in Holds(Now, c) /\ b \in Addr /\ c \in Addr
        BY <1>1, <2>3, <2>4, OwnersAre, Zenon
      <4> QED
        BY <2>1, <2>3, <3>1, <4>1, Zenon DEF Owned
    <3> QED
      BY <3>1
  <2>6. CASE sock[f].kind = "free"
    <3>1. ASSUME NEW b \in Owners(f)
          PROVE  FALSE
      <4>1. co[b] # Unused /\ f \in {co[b].stack.fd, co[b].stack.pair} /\ b \in Addr
        BY <2>4, Zenon DEF Owners
      <4>2. Fit(Now, co[b].stack)
        BY <2>1, <2>2, <2>3, <4>1, Zenon DEF Places
      <4>3. sock[Listen].kind = "listen"
        BY <1>1, <2>2, <2>3, Zenon DEF CoInv, Inv, Bounded
      <4>4. f # 0
        BY <2>3 DEF Fds
      <4> QED
        BY <2>2, <2>6, <4>1, <4>2, <4>3, <4>4 DEF Fit
    <3>2. Cardinality(Owners(f)) = 0
      BY <2>0, <3>1, NoneOf, Zenon
    <3> QED
      BY <2>6, <3>2, Zenon
  <2>7. CASE Owners(f) = {} /\ Owners(Listen) = {}
    <3>1. Cardinality(Owners(f)) = 0
      BY <2>0, <2>7, NoneOf, Zenon
    <3> QED
      BY <2>7, <3>1, Zenon
  <2>8. CASE sock[f].kind # "free" /\ ~(Owners(f) = {} /\ Owners(Listen) = {})
    <3>1. Owners(f) # {}
      <4>1. ASSUME Owners(Listen) # {}
            PROVE  Owners(f) # {}
        <5>1. PICK b \in Owners(Listen) : TRUE
          BY <4>1
        <5>2. b \in Addr /\ Listen \in Holds(Now, b)
          BY <1>1, <2>3, <2>4, <5>1, OwnersAre, Zenon
        <5>3. Has(Now, 0, {}, Listen)
          BY <2>3, <5>2, Zenon DEF Has
        <5>4. Has(Now, 0, {}, f)
          BY <2>1, <2>2, <2>3, <2>8, <5>3, Zenon DEF Owned
        <5>5. PICK c \in Addr : f \in Holds(Now, c)
          BY <5>4, Zenon DEF Has
        <5>6. c \in Owners(f)
          BY <1>1, <2>3, <5>5, OwnersAre, Zenon
        <5> QED
          BY <5>6
      <4> QED
        BY <2>8, <4>1
    <3>2. PICK b \in Owners(f) : TRUE
      BY <3>1
    <3>3. Cardinality(Owners(f)) = 1
      BY <2>0, <2>5, <3>2, OneOf, Zenon
    <3> QED
      BY <2>8, <3>3, Zenon
  <2> QED
    BY <2>6, <2>7, <2>8
<1> QED
  BY <1>1, Zenon DEF DescriptorsOwned

-----------------------------------------------------------------------------
(* Numbers.                                                                 *)

\* Sums and differences that count elements.
LEMMA Sizes == MaxFd \in Nat /\ MaxCo \in Nat
BY CoroutinesAssumption

LEMMA UpTo ==
    ASSUME NEW n \in Nat
    PROVE  /\ 1 \in Int /\ n \in Int
           /\ \A c : c = (IF 1 > n THEN 0 ELSE n - 1 + 1) => c = n
OBVIOUS

LEMMA NotLess ==
    ASSUME NEW j \in Nat, NEW k \in Nat, <<j, k>> \notin {ss \in Nat \X Nat : ss[1] < ss[2]}
    PROVE  k <= j
OBVIOUS

LEMMA OneMore ==
    ASSUME NEW n \in Nat, NEW c, c = n \/ c = n + 1
    PROVE  c \in Nat /\ c <= n + 1
OBVIOUS

LEMMA ThreeMore ==
    ASSUME NEW n \in Nat, NEW c1 \in Nat, NEW c2 \in Nat, NEW c3 \in Nat,
           c1 <= n + 1, c2 <= c1 + 1, c3 <= c2 + 1, NEW m \in Nat, m <= c3
    PROVE  m <= n + 3
OBVIOUS

LEMMA TwoMore ==
    ASSUME NEW n \in Nat, NEW c1 \in Nat, NEW c2 \in Nat,
           c1 <= n + 1, c2 <= c1 + 1, NEW m \in Nat, m - 1 <= c2 - 1
    PROVE  m - 1 <= n + 1
OBVIOUS

\* Of a sum that MaxOpen bounds.
LEMMA Summand ==
    ASSUME NEW m \in Nat, NEW n \in Nat, m + n <= MaxOpen
    PROVE  m <= MaxOpen
BY CoroutinesAssumption

\* Members of a sequence, and a sequence that is one longer.
LEMMA InSeq ==
    ASSUME NEW X, NEW q \in Seq(X), NEW i \in DOMAIN q
    PROVE  q[i] \in X
OBVIOUS

AppendedTo(X, q, p, e) ==
    /\ p \in Seq(X)
    /\ DOMAIN p = DOMAIN q \cup {Len(q) + 1} /\ Len(q) + 1 \notin DOMAIN q
    /\ \A i \in DOMAIN q : p[i] = q[i] /\ q[i] \in X
    /\ p[Len(q) + 1] = e

LEMMA AppendIs ==
    ASSUME NEW X, NEW q \in Seq(X), NEW e \in X, NEW p, p = Append(q, e)
    PROVE  AppendedTo(X, q, p, e)
BY DEF AppendedTo

\* The sequence p is q without a.
Without1(X, q, p, a) ==
    /\ p \in Seq(X)
    /\ \A i, j \in DOMAIN p : p[i] = p[j] => i = j
    /\ \A i \in DOMAIN p : p[i] # a /\ \E j \in DOMAIN q : q[j] = p[i]
    /\ \A j \in DOMAIN q : q[j] # a => \E i \in DOMAIN p : p[i] = q[j]

LEMMA TailWithout ==
    ASSUME NEW X, NEW q \in Seq(X), q # <<>>, \A i, j \in DOMAIN q : q[i] = q[j] => i = j
    PROVE  /\ 1 \in DOMAIN q /\ Head(q) = q[1] /\ Head(q) \in X
           /\ Without1(X, q, Tail(q), Head(q))
<1>1. 1 \in DOMAIN q /\ Head(q) = q[1] /\ Head(q) \in X /\ Tail(q) \in Seq(X) /\ Len(Tail(q)) = Len(q) - 1
  OBVIOUS
<1>2. \A i \in DOMAIN Tail(q) : i \in Nat /\ i + 1 \in DOMAIN q /\ i + 1 # 1 /\ Tail(q)[i] = q[i + 1]
  BY <1>1
<1>3. ASSUME NEW j \in DOMAIN q, j # 1
      PROVE  \E i \in DOMAIN Tail(q) : Tail(q)[i] = q[j]
  <2>1. j \in 1..Len(q) /\ Len(q) \in Nat
    OBVIOUS
  <2>2. j - 1 \in 1..(Len(q) - 1) /\ j = (j - 1) + 1
    BY <1>3, <2>1
  <2>3. j - 1 \in DOMAIN Tail(q)
    BY <1>1, <2>1, <2>2
  <2> QED
    BY <1>2, <2>2, <2>3, Zenon
<1>4. ASSUME NEW i \in DOMAIN Tail(q), NEW j \in DOMAIN Tail(q), Tail(q)[i] = Tail(q)[j]
      PROVE  i = j
  BY <1>2, <1>4
<1>5. \A i \in DOMAIN Tail(q) : Tail(q)[i] # Head(q) /\ \E j \in DOMAIN q : q[j] = Tail(q)[i]
  BY <1>1, <1>2, Zenon
<1>6. \A j \in DOMAIN q : q[j] # Head(q) => \E i \in DOMAIN Tail(q) : Tail(q)[i] = q[j]
  BY <1>1, <1>3, Zenon
<1> QED
  BY <1>1, <1>4, <1>5, <1>6, Zenon DEF Without1

LEMMA FrontWithout ==
    ASSUME NEW X, NEW q \in Seq(X), q # <<>>, \A i, j \in DOMAIN q : q[i] = q[j] => i = j
    PROVE  /\ Len(q) \in DOMAIN q /\ q[Len(q)] \in X
           /\ Without1(X, q, SubSeq(q, 1, Len(q) - 1), q[Len(q)])
<1> DEFINE n == Len(q)
           p == SubSeq(q, 1, n - 1)
<1>1. n \in Nat /\ n >= 1 /\ n \in DOMAIN q /\ q[n] \in X /\ DOMAIN q = 1..n
  OBVIOUS
<1>2. p \in Seq(X) /\ DOMAIN p = 1..(n - 1) /\ \A i \in 1..(n - 1) : p[i] = q[i]
  BY <1>1
<1> HIDE DEF n, p
<1>3. \A i \in DOMAIN p : i \in DOMAIN q /\ i # n /\ p[i] = q[i]
  BY <1>1, <1>2
<1>4. \A j \in DOMAIN q : j # n => j \in DOMAIN p /\ p[j] = q[j]
  BY <1>1, <1>2
<1>5. \A i, j \in DOMAIN p : p[i] = p[j] => i = j
  BY <1>3, Zenon
<1>6. \A i \in DOMAIN p : p[i] # q[n] /\ \E j \in DOMAIN q : q[j] = p[i]
  BY <1>1, <1>3
<1>7. \A j \in DOMAIN q : q[j] # q[n] => \E i \in DOMAIN p : p[i] = q[j]
  BY <1>4, Zenon
<1>8. Without1(X, q, p, q[n])
  BY <1>2, <1>5, <1>6, <1>7, Zenon DEF Without1
<1> QED
  BY <1>1, <1>8, Zenon DEF n, p

\* The coroutines with the frame, or the status, of one of them replaced.
StackSet(c, d, a, fr) ==
    /\ d \in [Addr -> Coroutine] /\ d[a].stack = fr /\ d[a].status = c[a].status
    /\ \A b \in Addr \ {a} : d[b] = c[b]

StatusSet(c, d, a, v) ==
    /\ d \in [Addr -> Coroutine] /\ d[a].status = v /\ d[a].stack = c[a].stack
    /\ \A b \in Addr \ {a} : d[b] = c[b]

LEMMA StackIs ==
    ASSUME NEW c \in [Addr -> Coroutine], NEW a \in Addr, NEW fr \in Frames,
           NEW d, d = [c EXCEPT ![a].stack = fr]
    PROVE  StackSet(c, d, a, fr)
BY DEF Coroutine, StackSet

LEMMA StatusIs ==
    ASSUME NEW c \in [Addr -> Coroutine], NEW a \in Addr, NEW v \in SUBSET Flags,
           NEW d, d = [c EXCEPT ![a].status = v]
    PROVE  StatusSet(c, d, a, v)
BY DEF Coroutine, StatusSet

\* A frame fits as long as no socket changes its kind.
LEMMA FitKept ==
    ASSUME NEW S, NEW T, T.sock = S.sock, NEW b, T.co[b] = S.co[b], Fit(S, S.co[b].stack)
    PROVE  Fit(T, T.co[b].stack)
BY Zenon DEF Fit

LEMMA WaitHeld ==
    ASSUME NEW fr, WaitsFor(fr) # 0
    PROVE  WaitsFor(fr) \in Held(fr)
BY Zenon DEF WaitsFor, Held

LEMMA HeldIs ==
    ASSUME NEW fr, NEW f \in Fds, fr.fd = f
    PROVE  /\ fr.pair = 0 => Held(fr) = {f}
           /\ fr.pair \in Fds => Held(fr) = {f} \cup {fr.pair}
BY Zero DEF Held

LEMMA FitFd ==
    ASSUME NEW S, NEW fr, Fit(S, fr)
    PROVE  fr.role = "saver" \/ fr.fd = Listen \/ S.sock[fr.fd].kind = "conn"
BY DEF Fit

\* A descriptor p is opened and then held, or was held and is closed, or keeps
\* its kind; what is left of the invariant is asked of the caller.
SocketOf(S, T, H, G, p) ==
    /\ \A f \in Fds \ {p} : T.sock[f].kind = S.sock[f].kind /\ (f \in G <=> f \in H)
    /\ \/ T.sock[p].kind = S.sock[p].kind /\ (p \in G <=> p \in H)
       \/ S.sock[p].kind = "free" /\ T.sock[p].kind \in {"conn", "pair"} /\ p \in G
       \/ p \in H /\ p # Listen /\ T.sock[p].kind = "free" /\ p \notin G

LEMMA SocketFit ==
    ASSUME NEW S, NEW T, NEW a, NEW H, NEW G, NEW p \in Fds, Rest(S, T), SocketOf(S, T, H, G, p),
           Owned(S, a, H), Places(S, a), NEW b \in Addr \ {a}, S.co[b] # Unused
    PROVE  Fit(T, S.co[b].stack)
<1> DEFINE fr == S.co[b].stack
<1>1. Fit(S, fr) /\ Holds(S, b) \cap H = {}
  BY DEF Places, Owned
<1>2. ASSUME NEW f \in Fds, f \in Holds(S, b), S.sock[f].kind # "free"
      PROVE  T.sock[f].kind = S.sock[f].kind
  BY <1>1, <1>2 DEF SocketOf
<1>3. fr.fd \in Fds => fr.fd \in Holds(S, b)
  BY DEF Holds, Held, Fds
<1>4. fr.pair \in Fds => fr.pair \in Holds(S, b)
  BY DEF Holds, Held, Fds
<1>5. S.sock[fr.fd].kind \in {"conn", "pair"} /\ fr.fd \in Fds => T.sock[fr.fd].kind = S.sock[fr.fd].kind
  BY <1>2, <1>3, Zenon
<1>6. S.sock[fr.pair].kind = "pair" /\ fr.pair \in Fds => T.sock[fr.pair].kind = S.sock[fr.pair].kind
  BY <1>2, <1>4, Zenon
<1> HIDE DEF fr
<1>7. Fit(T, fr)
  BY <1>1, <1>5, <1>6, Zenon DEF Fit
<1> QED
  BY <1>7, Zenon DEF fr

LEMMA SocketOwned ==
    ASSUME NEW S, NEW T, NEW a, NEW H, NEW G, NEW p \in Fds, Rest(S, T), SocketOf(S, T, H, G, p),
           Owned(S, a, H), Places(S, a), Bounded(S, a, H), G \subseteq Fds,
           Cardinality(Conns(T)) + T.sock[Listen].data <= MaxOpen
    PROVE  Owned(T, a, G) /\ Bounded(T, a, G)
<1>1. \A b : Holds(T, b) = Holds(S, b)
  BY DEF Rest, Holds
<1>2. ASSUME NEW b \in Addr \ {a}, S.sock[p].kind = "free"
      PROVE  p \notin Holds(S, b)
  <2>1. CASE S.co[b] = Unused
    BY <2>1, UnusedHolds, Zenon DEF Holds
  <2>2. CASE S.co[b] # Unused
    BY <1>2, <2>2, Zenon DEF Places, Fit, Holds, Held, Bounded, Fds
  <2> QED
    BY <2>1, <2>2
<1>3. \A b \in Addr \ {a} : Holds(S, b) \cap G = {}
  BY <1>2, Zenon DEF Owned, SocketOf
<1>4. \A f \in G : T.sock[f].kind # "free"
  BY Zenon DEF Owned, SocketOf
<1>5. \A f \in Fds \ {p} : Has(T, a, G, f) <=> Has(S, a, H, f)
  BY <1>1, Zenon DEF Has, SocketOf
<1>6. T.sock[p].kind # "free" /\ Has(S, a, H, p) => Has(T, a, G, p)
  BY <1>1 DEF Has, SocketOf
<1>7. S.sock[p].kind = "free" /\ T.sock[p].kind # "free" => p \in G
  BY Zenon DEF SocketOf
<1>8. S.sock[Listen].kind = "listen"
  BY ListenFd DEF Bounded, ListenIs
<1>9. Has(T, a, G, Listen) <=> Has(S, a, H, Listen)
  <2>1. CASE p # Listen
    BY <1>5, <2>1, ListenFd, Zenon DEF ListenIs
  <2>2. CASE p = Listen
    BY <1>1, <1>8, <2>2, Zenon DEF Has, SocketOf
  <2> QED
    BY <2>1, <2>2
<1>10. ASSUME NEW f \in Fds, T.sock[f].kind # "free", S.sock[f].kind # "free" => Has(S, a, H, f)
       PROVE  Has(T, a, G, f)
  <2>1. CASE f # p
    BY <1>5, <1>10, <2>1, Zenon DEF SocketOf
  <2>2. CASE f = p
    BY <1>6, <1>7, <1>10, <2>2, Zenon DEF Has
  <2> QED
    BY <2>1, <2>2, Zenon
<1>11. Owned(T, a, G)
  BY <1>1, <1>3, <1>4, <1>9, <1>10, Zenon DEF Owned
<1>12. ASSUME NEW f \in Fds
       PROVE  T.sock[f].kind = "listen" <=> f = Listen
  <2>1. S.sock[f].kind = "listen" <=> f = Listen
    BY Zenon DEF Bounded
  <2>2. CASE f # p
    BY <2>1, <2>2, Zenon DEF SocketOf
  <2>3. CASE f = p
    BY <2>1, <2>3, <1>8, Zenon DEF SocketOf
  <2> QED
    BY <2>2, <2>3, Zenon
<1>13. ASSUME NEW f \in Fds, T.sock[f].kind = "pair"
       PROVE  Has(T, a, G, f)
  <2>1. S.sock[f].kind \in {"pair", "free"}
    BY <1>13, Zenon DEF SocketOf
  <2>2. S.sock[f].kind # "free" => Has(S, a, H, f)
    BY <2>1, Zenon DEF Bounded
  <2> QED
    BY <1>10, <1>13, <2>2, Zenon
<1>14. Bounded(T, a, G)
  BY <1>12, <1>13 DEF Bounded, Rest
<1> QED
  BY <1>11, <1>14, Zenon

LEMMA SocketStep ==
    ASSUME NEW S, NEW a, NEW H, NEW G, Inv(S, a, H), NEW T, Rec(T), Rest(S, T), T.epoll = S.epoll,
           DOMAIN T.child = {Save, Sync}, \A k \in {Save, Sync} : T.child[k].pair # Listen,
           T.sock \in [Fds -> SocketType], NEW p \in Fds, SocketOf(S, T, H, G, p), G \subseteq Fds,
           Cardinality(Conns(T)) + T.sock[Listen].data <= MaxOpen,
           T.sock[Listen].hup = FALSE,
           \A i \in DOMAIN S.sched.events : S.sched.events[i] = Listen => T.sock[Listen].data > 0
    PROVE  Inv(T, a, G)
<1>1. Typed(T)
  BY Zenon DEF Inv, Typed, Rest
<1>2. Queue(T, a) /\ Busy(T, a)
  <2>1. Queue(T, a)
    BY Zenon DEF Inv, Queue, Rest
  <2>2. Busy(T, a)
    BY Zenon DEF Inv, Busy, Rest
  <2> QED
    BY <2>1, <2>2, Zenon
<1>3. Waiting(T, a)
  <2>1. Waiting(S, a) /\ T.sched = S.sched /\ T.co = S.co
    BY Zenon DEF Inv, Rest
  <2>2. \A f \in DOMAIN S.sched.waiting : WaitsAt(T, S.sched.waiting[f], f)
    BY <2>1, Zenon DEF Waiting, WaitsAt
  <2> QED
    BY <2>1, <2>2, Zenon DEF Waiting
<1>4. Places(T, a)
  <2>1. ASSUME NEW b \in Addr \ {a}, S.co[b] # Unused
        PROVE  Fit(T, S.co[b].stack)
    BY <2>1, SocketFit, Zenon DEF Inv
  <2>2. ASSUME NEW b \in Addr \ {a}, S.co[b] # Unused
        PROVE  InPlace(T, b) /\ S.co[b].status # {"FREE"}
    BY <2>2 DEF Inv, Places, InPlace, Rest
  <2> QED
    BY <2>1, <2>2 DEF Places, Rest
<1>5. Owned(T, a, G) /\ Bounded(T, a, G)
  BY SocketOwned, Zenon DEF Inv
<1>6. Batch(T)
  BY Zenon DEF Inv, Batch, Rest
<1> QED
  BY <1>1, <1>2, <1>3, <1>4, <1>5, <1>6, Zenon DEF Inv

\* Nobody waits for a descriptor that the running coroutine holds.
LEMMA HeldNotAwaited ==
    ASSUME NEW S, NEW a, NEW H, Inv(S, a, H), NEW f \in H
    PROVE  f \notin DOMAIN S.sched.waiting /\ f \notin DOMAIN S.epoll
<1> SUFFICES ASSUME f \in DOMAIN S.sched.waiting
             PROVE  FALSE
  BY Zenon DEF Inv, Typed
<1> DEFINE b == S.sched.waiting[f]
<1>1. b \in Addr \ {a} /\ WaitsFor(S.co[b].stack) = f
  BY DEF Inv, Waiting, WaitsAt
<1> HIDE DEF b
<1>2. H \subseteq Fds /\ \A c \in Addr \ {a} : Holds(S, c) \cap H = {}
  BY Zenon DEF Inv, Owned
<1>3. f # 0
  BY <1>2, Zero, Zenon
<1>4. f \in Holds(S, b)
  BY <1>1, <1>3, WaitHeld, Zenon DEF Holds
<1> QED
  BY <1>1, <1>2, <1>4, Zenon

\* The number that the kernel gives, if there is a free one.
LEMMA MinIs ==
    ASSUME Counting, NEW S, S \subseteq Nat, NEW n \in S
    PROVE  Sets!Min(S) \in S
BY Zenon DEF Counting

LEMMA FreeFdIs ==
    ASSUME Counting, NEW S, NEW g \in Fds, S.sock[g].kind = "free"
    PROVE  FreeFd(S) \in Fds /\ S.sock[FreeFd(S)].kind = "free"
<1> DEFINE F == {f \in 1..MaxFd : S.sock[f].kind = "free"}
<1>1. F \subseteq Nat /\ g \in F
  BY DEF Fds
<1>2. Sets!Min(F) \in F
  <2> HIDE DEF F
  <2> QED BY <1>1, MinIs, Zenon
<1>3. FreeFd(S) = Sets!Min(F)
  BY Zenon DEF FreeFd
<1> QED
  BY <1>2, <1>3 DEF Fds

LEMMA SocketTypes ==
    ASSUME NEW k \in {"free", "listen", "conn", "pair"}
    PROVE  Socket(k) \in SocketType /\ Socket(k).kind = k /\ Socket(k).hup = FALSE
BY CoroutinesAssumption DEF Socket, SocketType

\* The fields of a socket that do not tell which it is.
SocketIs(s, t, fd, r) == t = [s EXCEPT ![fd] = r]

LEMMA SocketKeeps ==
    ASSUME NEW S, NEW a, NEW H, Inv(S, a, H), NEW T, Rec(T), Rest(S, T), T.epoll = S.epoll,
           DOMAIN T.child = {Save, Sync}, \A k \in {Save, Sync} : T.child[k].pair # Listen,
           NEW fd \in Fds, fd # Listen, NEW r \in SocketType, r.kind = S.sock[fd].kind,
           SocketIs(S.sock, T.sock, fd, r)
    PROVE  Inv(T, a, H)
<1>0. T.sock = [S.sock EXCEPT ![fd] = r]
  BY Zenon DEF SocketIs
<1>1. T.sock \in [Fds -> SocketType]
  BY <1>0, Zenon DEF Inv, Typed
<1>2. /\ \A f \in Fds : T.sock[f].kind = S.sock[f].kind
      /\ T.sock[Listen] = S.sock[Listen]
  BY <1>0, ListenFd, Zenon DEF Inv, Typed, ListenIs
<1>3. Conns(T) = Conns(S)
  BY <1>2 DEF Conns
<1>4. SocketOf(S, T, H, H, fd)
  BY <1>2, Zenon DEF SocketOf
<1>5. /\ H \subseteq Fds
      /\ Cardinality(Conns(T)) + T.sock[Listen].data <= MaxOpen
      /\ T.sock[Listen].hup = FALSE
      /\ \A i \in DOMAIN S.sched.events : S.sched.events[i] = Listen => T.sock[Listen].data > 0
  BY <1>2, <1>3 DEF Inv, Owned, Bounded, Batch
<1> QED
  BY <1>1, <1>4, <1>5, SocketStep, Zenon

\* Recv takes what is there.
KindsKept(S, T, a, H) ==
    /\ Runs(T, a, H) /\ Rest(S, T) /\ T.child = S.child
    /\ \A f \in Fds : T.sock[f].kind = S.sock[f].kind

Emptied(S, fd) == [S EXCEPT !.sock[fd].data = 0]

LEMMA DataStep ==
    ASSUME NEW S, NEW a, NEW H, Runs(S, a, H), NEW fd \in H, fd # Listen,
           NEW T, T = Emptied(S, fd)
    PROVE  KindsKept(S, T, a, H)
<1>1. Rec(S) /\ S.sock \in [Fds -> SocketType] /\ fd \in Fds
  BY DEF Runs, Inv, Typed, Owned
<1>2. /\ Rec(T) /\ Rest(S, T) /\ T.epoll = S.epoll /\ T.child = S.child
      /\ T.sock = [S.sock EXCEPT ![fd].data = 0]
  BY <1>1, Zenon DEF Rec, Rest, Emptied
<1> DEFINE r == [S.sock[fd] EXCEPT !.data = 0]
<1>3. r \in SocketType /\ r.kind = S.sock[fd].kind
  BY <1>1, CoroutinesAssumption DEF SocketType
<1>4. SocketIs(S.sock, T.sock, fd, r)
  BY <1>2, Zenon DEF SocketIs
<1> HIDE DEF r
<1>5. DOMAIN T.child = {Save, Sync} /\ \A k \in {Save, Sync} : T.child[k].pair # Listen
  BY <1>2 DEF Runs, Inv, Typed
<1>6. Inv(T, a, H)
  <2>1. Inv(S, a, H)
    BY Zenon DEF Runs
  <2> QED
    BY <1>1, <1>2, <1>3, <1>4, <1>5, <2>1, SocketKeeps, Zenon
<1>7. \A f \in Fds : T.sock[f].kind = S.sock[f].kind
  BY <1>1, <1>3, <1>4, Zenon DEF SocketIs
<1> QED
  BY <1>2, <1>6, <1>7, Zenon DEF Runs, Rest, KindsKept

\* send and sendfile fill the socket.
Filled(S, fd) == [S EXCEPT !.sock[fd].room = FALSE]

LEMMA RoomStep ==
    ASSUME NEW S, NEW a, NEW H, Runs(S, a, H), NEW fd \in H, fd # Listen,
           NEW T, T = Filled(S, fd)
    PROVE  KindsKept(S, T, a, H)
<1>1. Rec(S) /\ S.sock \in [Fds -> SocketType] /\ fd \in Fds
  BY DEF Runs, Inv, Typed, Owned
<1>2. /\ Rec(T) /\ Rest(S, T) /\ T.epoll = S.epoll /\ T.child = S.child
      /\ T.sock = [S.sock EXCEPT ![fd].room = FALSE]
  BY <1>1, Zenon DEF Rec, Rest, Filled
<1> DEFINE r == [S.sock[fd] EXCEPT !.room = FALSE]
<1>3. r \in SocketType /\ r.kind = S.sock[fd].kind
  BY <1>1, Zenon DEF SocketType
<1>4. SocketIs(S.sock, T.sock, fd, r)
  BY <1>2, Zenon DEF SocketIs
<1> HIDE DEF r
<1>5. DOMAIN T.child = {Save, Sync} /\ \A k \in {Save, Sync} : T.child[k].pair # Listen
  BY <1>2 DEF Runs, Inv, Typed
<1>6. Inv(T, a, H)
  <2>1. Inv(S, a, H)
    BY Zenon DEF Runs
  <2> QED
    BY <1>1, <1>2, <1>3, <1>4, <1>5, <2>1, SocketKeeps, Zenon
<1>7. \A f \in Fds : T.sock[f].kind = S.sock[f].kind
  BY <1>1, <1>3, <1>4, Zenon DEF SocketIs
<1> QED
  BY <1>2, <1>6, <1>7 DEF Runs, Rest, KindsKept

\* close: the kernel has nothing registered that it must forget.
HasClosed(S, T, a, G, fd) ==
    /\ Runs(T, a, G) /\ Rest(S, T) /\ T.child = S.child
    /\ \A f \in Fds \ {fd} : T.sock[f] = S.sock[f]

LEMMA CloseStep ==
    ASSUME NEW S, NEW a, NEW H, Runs(S, a, H), NEW fd \in H, fd # Listen,
           NEW T, T = Close(S, fd)
    PROVE  HasClosed(S, T, a, H \ {fd}, fd)
<1>1. Rec(S) /\ S.sock \in [Fds -> SocketType] /\ fd \in Fds /\ Inv(S, a, H) /\ H \subseteq Fds
  BY DEF Runs, Inv, Typed, Owned
<1>2. fd \notin DOMAIN S.epoll
  BY <1>1, HeldNotAwaited, Zenon
<1>3. /\ Rec(T) /\ Rest(S, T) /\ T.child = S.child
      /\ T.sock = [S.sock EXCEPT ![fd] = Socket("free")]
      /\ T.epoll = S.epoll \/ T.epoll = Without(S.epoll, fd)
  BY <1>1, Zenon DEF Rec, Rest, Close
<1>4. Socket("free") \in SocketType /\ Socket("free").kind = "free"
  BY SocketTypes, Zenon
<1>5. /\ T.sock \in [Fds -> SocketType] /\ T.sock[fd].kind = "free" /\ T.sock[Listen] = S.sock[Listen]
      /\ \A f \in Fds \ {fd} : T.sock[f] = S.sock[f]
  BY <1>1, <1>3, <1>4, ListenFd, Zenon DEF ListenIs
<1>6. SocketOf(S, T, H, H \ {fd}, fd)
  BY <1>5 DEF SocketOf
<1>7. Conns(T) \subseteq Conns(S) /\ Conns(S) \subseteq Fds
  BY <1>5 DEF Conns
<1>8. Cardinality(Conns(T)) <= Cardinality(Conns(S)) /\ Cardinality(Conns(T)) \in Nat /\ Cardinality(Conns(S)) \in Nat
  BY <1>1, <1>7, Zenon DEF Inv, Bounded, Counting
<1>9. /\ Cardinality(Conns(T)) + T.sock[Listen].data <= MaxOpen
      /\ T.sock[Listen].hup = FALSE
      /\ \A i \in DOMAIN S.sched.events : S.sched.events[i] = Listen => T.sock[Listen].data > 0
  <2>1. /\ Cardinality(Conns(S)) + S.sock[Listen].data <= MaxOpen /\ S.sock[Listen].data \in Nat
        /\ S.sock[Listen].hup = FALSE
        /\ \A i \in DOMAIN S.sched.events : S.sched.events[i] = Listen => S.sock[Listen].data > 0
    BY <1>1, ListenFd DEF Inv, Bounded, Batch, SocketType, ListenIs
  <2>2. MaxOpen \in Nat
    BY CoroutinesAssumption
  <2>3. Cardinality(Conns(S)) + S.sock[Listen].data <= MaxOpen /\ S.sock[Listen].data \in Nat
    BY <2>1, Zenon
  <2>4. Cardinality(Conns(T)) + S.sock[Listen].data <= MaxOpen
    BY <1>8, <2>2, <2>3
  <2> QED
    BY <1>5, <2>1, <2>4, Zenon
<1>10. T.epoll = S.epoll
  <2> DEFINE D == DOMAIN S.epoll
  <2> SUFFICES Without(S.epoll, fd) = S.epoll
    BY <1>3, Zenon
  <2>1. S.epoll = [x \in DOMAIN S.epoll |-> S.epoll[x]]
    BY <1>1 DEF Inv, Typed
  <2>2. DOMAIN S.epoll \ {fd} = DOMAIN S.epoll
    BY <1>2, Zenon
  <2> QED
    BY <2>1, <2>2, Zenon DEF Without
<1>11. DOMAIN T.child = {Save, Sync} /\ \A k \in {Save, Sync} : T.child[k].pair # Listen
  BY <1>1, <1>3, Zenon DEF Inv, Typed
<1>12. H \ {fd} \subseteq Fds
  BY <1>1
<1>13. Inv(T, a, H \ {fd})
  BY <1>1, <1>3, <1>5, <1>6, <1>9, <1>10, <1>11, <1>12, SocketStep, Zenon
<1> QED
  BY <1>3, <1>5, <1>13, Zenon DEF Runs, Rest, HasClosed

\* socketpair and fork, when there is a free descriptor.
HasForked(S, T, a, H, p) ==
    /\ Runs(T, a, H \cup {p}) /\ Rest(S, T)
    /\ p \in Fds /\ p \notin H /\ p # Listen /\ S.sock[p].kind = "free" /\ T.sock[p].kind = "pair"
    /\ \A f \in Fds \ {p} : T.sock[f] = S.sock[f]

LEMMA ForkStep ==
    ASSUME NEW S, NEW a, NEW H, Runs(S, a, H), NEW g \in Fds, S.sock[g].kind = "free",
           NEW k \in {Save, Sync}, NEW T, T = Forked(S, k)
    PROVE  HasForked(S, T, a, H, FreeFd(S))
<1> DEFINE p == FreeFd(S)
           c == [pair |-> p, fds |-> Open(S)]
<1>1. Rec(S) /\ S.sock \in [Fds -> SocketType] /\ Inv(S, a, H) /\ H \subseteq Fds
  BY DEF Runs, Inv, Typed, Owned
<1>2. p \in Fds /\ S.sock[p].kind = "free"
  BY FreeFdIs, Zenon DEF Runs, Inv, Bounded
<1>3. T = [S EXCEPT !.sock[p] = Socket("pair"), !.child[k] = c, !.forks = S.forks + 1]
  BY Zenon DEF Forked
<1>4. c.pair = p
  OBVIOUS
<1> HIDE DEF p, c
<1>5. /\ Rec(T) /\ Rest(S, T) /\ T.epoll = S.epoll /\ T.child = [S.child EXCEPT ![k] = c]
      /\ T.sock = [S.sock EXCEPT ![p] = Socket("pair")]
  BY <1>1, <1>3, Zenon DEF Rec, Rest
<1>6. Socket("pair") \in SocketType /\ Socket("pair").kind = "pair"
  BY SocketTypes, Zenon
<1>7. p # Listen /\ p \notin H
  BY <1>1, <1>2, ListenFd, Zenon DEF Inv, Bounded, Owned, ListenIs
<1>8. /\ T.sock \in [Fds -> SocketType] /\ T.sock[p].kind = "pair" /\ T.sock[Listen] = S.sock[Listen]
      /\ \A f \in Fds \ {p} : T.sock[f] = S.sock[f]
  BY <1>1, <1>2, <1>5, <1>6, <1>7, ListenFd, Zenon DEF ListenIs
<1>9. SocketOf(S, T, H, H \cup {p}, p)
  BY <1>2, <1>8, Zenon DEF SocketOf
<1>10. Conns(T) = Conns(S)
  BY <1>2, <1>8, Zenon DEF Conns
<1>11. /\ Cardinality(Conns(T)) + T.sock[Listen].data <= MaxOpen
       /\ T.sock[Listen].hup = FALSE
       /\ \A i \in DOMAIN S.sched.events : S.sched.events[i] = Listen => T.sock[Listen].data > 0
  BY <1>1, <1>8, <1>10, Zenon DEF Inv, Bounded, Batch
<1>12. DOMAIN T.child = {Save, Sync} /\ \A j \in {Save, Sync} : T.child[j].pair # Listen
  BY <1>1, <1>4, <1>5, <1>7, Zenon DEF Inv, Typed
<1>13. H \cup {p} \subseteq Fds
  BY <1>1, <1>2, Zenon
<1>14. Inv(T, a, H \cup {p})
  BY <1>1, <1>2, <1>5, <1>8, <1>9, <1>11, <1>12, <1>13, SocketStep, Zenon
<1>15. Runs(T, a, H \cup {p})
  BY <1>5, <1>14, Zenon DEF Runs, Rest
<1> QED
  BY <1>2, <1>5, <1>7, <1>8, <1>15, Zenon DEF p, HasForked

\* accept, after nty_poll_inner: a connection that waited gets a descriptor.
Accepted(S, p) == [S EXCEPT !.sock[Listen].data = @ - 1, !.sock[p] = Socket("conn")]

HasAccepted(S, T, a, p) ==
    /\ Runs(T, a, {Listen, p}) /\ Rest(S, T) /\ p # Listen
    /\ T.sock[p].kind = "conn" /\ T.sock[Listen].kind = "listen"

LEMMA AcceptStep ==
    ASSUME NEW S, NEW a, Runs(S, a, {Listen}), S.sock[Listen].data > 0,
           NEW p \in Fds, S.sock[p].kind = "free",
           NEW T, T = Accepted(S, p)
    PROVE  HasAccepted(S, T, a, p)
<1>1. Rec(S) /\ S.sock \in [Fds -> SocketType] /\ Inv(S, a, {Listen}) /\ Listen \in Fds
  BY ListenFd, Zenon DEF Runs, Inv, Typed, ListenIs
<1>2. S.sock[Listen].kind = "listen" /\ p # Listen
  BY <1>1 DEF Inv, Bounded
<1>3. /\ Rec(T) /\ Rest(S, T) /\ T.epoll = S.epoll /\ T.child = S.child
      /\ T.sock = [[S.sock EXCEPT ![Listen].data = S.sock[Listen].data - 1] EXCEPT ![p] = Socket("conn")]
  BY <1>1, Zenon DEF Rec, Rest, Accepted
<1>4. Socket("conn") \in SocketType /\ Socket("conn").kind = "conn"
  BY SocketTypes
<1> DEFINE r == [S.sock[Listen] EXCEPT !.data = S.sock[Listen].data - 1]
<1>5. /\ r \in SocketType /\ r.kind = "listen" /\ r.data = S.sock[Listen].data - 1
      /\ r.hup = S.sock[Listen].hup
  BY <1>1, <1>2, CoroutinesAssumption DEF SocketType
<1>6. T.sock = [[S.sock EXCEPT ![Listen] = r] EXCEPT ![p] = Socket("conn")]
  BY <1>3, Zenon
<1> HIDE DEF r
<1>7. /\ T.sock \in [Fds -> SocketType] /\ T.sock[p].kind = "conn" /\ T.sock[Listen] = r
      /\ \A f \in Fds \ {p, Listen} : T.sock[f] = S.sock[f]
  BY <1>1, <1>2, <1>4, <1>5, <1>6, Zenon
<1>8. \A f \in Fds \ {p} : T.sock[f].kind = S.sock[f].kind
  BY <1>2, <1>5, <1>7, Zenon
<1>9. SocketOf(S, T, {Listen}, {Listen, p}, p)
  BY <1>7, <1>8, Zenon DEF SocketOf
<1>10. Conns(T) = Conns(S) \cup {p} /\ p \notin Conns(S) /\ Conns(S) \subseteq Fds
  BY <1>7, <1>8 DEF Conns
<1>11. Cardinality(Conns(T)) = Cardinality(Conns(S)) + 1 /\ Cardinality(Conns(S)) \in Nat
  BY <1>1, <1>10, Zenon DEF Inv, Bounded, Counting
<1>12. Cardinality(Conns(T)) + T.sock[Listen].data <= MaxOpen
  <2>1. Cardinality(Conns(S)) + S.sock[Listen].data <= MaxOpen /\ S.sock[Listen].data \in Nat
    <3>1. S.sock[Listen] \in SocketType /\ Cardinality(Conns(S)) + S.sock[Listen].data <= MaxOpen
      BY <1>1, ListenFd, Zenon DEF Inv, Typed, Bounded, ListenIs
    <3> QED
      BY <3>1 DEF SocketType
  <2> QED
    BY <2>1, <1>5, <1>7, <1>11, CoroutinesAssumption
<1>13. T.sock[Listen].hup = FALSE
  BY <1>1, <1>5, <1>7, Zenon DEF Inv, Batch
<1>14. \A i \in DOMAIN S.sched.events : S.sched.events[i] = Listen => T.sock[Listen].data > 0
  <2>1. Listen \notin DOMAIN S.sched.waiting
    BY <1>1, HeldNotAwaited, Zenon
  <2> QED
    BY <1>1, <2>1, Zenon DEF Inv, Batch
<1>15. DOMAIN T.child = {Save, Sync} /\ \A j \in {Save, Sync} : T.child[j].pair # Listen
  BY <1>1, <1>3 DEF Inv, Typed
<1>16. {Listen, p} \subseteq Fds
  BY <1>1
<1>17. Inv(T, a, {Listen, p})
  BY <1>1, <1>3, <1>7, <1>9, <1>12, <1>13, <1>14, <1>15, <1>16, SocketStep, Zenon
<1>18. Runs(T, a, {Listen, p})
  BY <1>3, <1>17, Zenon DEF Runs, Rest
<1> QED
  BY <1>2, <1>3, <1>5, <1>7, <1>18, Zenon DEF HasAccepted

-----------------------------------------------------------------------------
(* There is always a descriptor and an address to be had.                   *)

\* The only descriptor that savers other than a wait for.
SaverFd(S, a, g) == \A b \in Addr \ {a} : S.co[b].stack.role = "saver" => S.co[b].stack.fd = g

LEMMA OneSaverFd ==
    ASSUME NEW S, NEW a, NEW H, Inv(S, a, H)
    PROVE  \E g : SaverFd(S, a, g)
<1>1. CASE \E b \in Addr \ {a} : S.co[b].stack.role = "saver"
  <2>1. PICK b \in Addr \ {a} : S.co[b].stack.role = "saver"
    BY <1>1, Zenon
  <2>2. SaverFd(S, a, S.co[b].stack.fd)
    BY <2>1 DEF Inv, Bounded, SaverFd
  <2> QED
    BY <2>2
<1>2. CASE ~ \E b \in Addr \ {a} : S.co[b].stack.role = "saver"
  BY <1>2 DEF SaverFd
<1> QED
  BY <1>1, <1>2

\* What is open is the listening socket, a connection, or one of two pairs.
LEMMA OpenOnes ==
    ASSUME NEW S, NEW a, NEW H, Inv(S, a, H), NEW g, SaverFd(S, a, g),
           \A f \in H : S.sock[f].kind = "pair" => f = g
    PROVE  \E h : \A f \in Fds : S.sock[f].kind # "free" => f \in Conns(S) \cup {Listen, g, h}
<1>1. ASSUME NEW b \in Addr \ {a}, NEW f \in Fds, f \in Holds(S, b), S.sock[f].kind = "pair"
      PROVE  f = g \/ (S.co[b].stack.at = "child" /\ f = S.co[b].stack.pair)
  <2>1. S.co[b] # Unused
    BY <1>1 DEF Holds, Held, Unused, NoFrame, Frame, Fds
  <2>2. Fit(S, S.co[b].stack)
    BY <2>1, Zenon DEF Inv, Places
  <2>3. f = S.co[b].stack.fd \/ f = S.co[b].stack.pair
    BY <1>1, Zenon DEF Holds, Held
  <2>4. S.sock[Listen].kind = "listen" /\ f # 0
    BY ListenFd DEF Inv, Bounded, ListenIs, Fds
  <2>5. CASE S.co[b].stack.role = "saver"
    BY <2>2, <2>3, <2>4, <2>5, Zenon DEF Fit, SaverFd
  <2>6. CASE S.co[b].stack.role # "saver"
    BY <1>1, <2>2, <2>3, <2>4, <2>6, Zenon DEF Fit
  <2> QED
    BY <2>5, <2>6, Zenon
<1>2. ASSUME NEW h, \A b \in Addr \ {a} : S.co[b].stack.at = "child" => S.co[b].stack.pair = h,
             NEW f \in Fds, S.sock[f].kind # "free"
      PROVE  f \in Conns(S) \cup {Listen, g, h}
  <2>1. S.sock[f].kind \in {"listen", "conn", "pair"}
    BY <1>2 DEF Inv, Typed, SocketType
  <2>2. CASE S.sock[f].kind = "pair"
    <3>1. Has(S, a, H, f)
      BY <2>2, Zenon DEF Inv, Bounded
    <3> QED
      BY <1>1, <1>2, <2>2, <3>1, Zenon DEF Has
  <2> QED
    BY <2>1, <2>2, Zenon DEF Inv, Bounded, Conns
<1>3. CASE \E b \in Addr \ {a} : S.co[b].stack.at = "child"
  <2>1. PICK b \in Addr \ {a} : S.co[b].stack.at = "child"
    BY <1>3, Zenon
  <2> DEFINE h == S.co[b].stack.pair
  <2>2. \A c \in Addr \ {a} : S.co[c].stack.at = "child" => S.co[c].stack.pair = h
    BY <2>1 DEF Inv, Bounded
  <2> HIDE DEF h
  <2>3. \A f \in Fds : S.sock[f].kind # "free" => f \in Conns(S) \cup {Listen, g, h}
    BY <1>2, <2>2, Zenon
  <2> QED
    BY <2>3
<1>4. CASE ~ \E b \in Addr \ {a} : S.co[b].stack.at = "child"
  BY <1>2, <1>4, Zenon
<1> QED
  BY <1>3, <1>4

LEMMA FreeThere ==
    ASSUME NEW S, NEW a, NEW H, Inv(S, a, H), NEW g, SaverFd(S, a, g),
           \A f \in H : S.sock[f].kind = "pair" => f = g
    PROVE  \E f \in Fds : S.sock[f].kind = "free"
<1> SUFFICES ASSUME \A f \in Fds : S.sock[f].kind # "free"
             PROVE  FALSE
  BY Zenon
<1>1. PICK h : \A f \in Fds : S.sock[f].kind # "free" => f \in Conns(S) \cup {Listen, g, h}
  BY OpenOnes
<1>2. Conns(S) \subseteq Fds /\ Fds \subseteq Conns(S) \cup {Listen, g, h}
  BY <1>1 DEF Conns
<1>3. Cardinality(Conns(S)) \in Nat /\ MaxFd <= Cardinality(Conns(S)) + 3
  BY <1>2, Zenon DEF Inv, Bounded, Counting
<1>4. Cardinality(Conns(S)) <= MaxOpen
  <2>1. Cardinality(Conns(S)) + S.sock[Listen].data <= MaxOpen /\ S.sock[Listen].data \in Nat
    BY ListenFd DEF Inv, Bounded, Typed, SocketType, ListenIs
  <2> QED
    BY <2>1, <1>3, Summand, Zenon
<1> QED
  BY <1>3, <1>4, CoroutinesAssumption

\* Each coroutine that does not run has a descriptor of its own: there are no
\* more of them than listening socket, connections and a saver's pair, less
\* the one that the running one has.
LEMMA AddressThere ==
    ASSUME NEW S, NEW a \in Addr, NEW H, Inv(S, a, H), NEW g, SaverFd(S, a, g),
           NEW x \in H, x \in Conns(S) \cup {Listen, g}
    PROVE  \E n \in Addr : S.co[n] = Unused
<1> SUFFICES ASSUME \A n \in Addr : S.co[n] # Unused
             PROVE  FALSE
  OBVIOUS
<1> DEFINE D == Addr \ {a}
           B == Conns(S) \cup {Listen, g}
           C == B \ {x}
           F == [b \in D |-> S.co[b].stack.fd]
<1>1. ASSUME NEW b \in D
      PROVE  S.co[b].stack.fd \in C /\ S.co[b].stack.fd \in Holds(S, b)
  <2>1. Fit(S, S.co[b].stack)
    BY Zenon DEF Inv, Places
  <2>2. S.co[b].stack.fd \in Fds
    BY <2>1, ListenFd, Zenon DEF Fit, ListenIs
  <2>3. S.co[b].stack.fd \in Holds(S, b)
    BY <2>2, Zero, Zenon DEF Holds, Held
  <2>4. S.co[b].stack.fd # x
    BY <2>3, Zenon DEF Inv, Owned
  <2>5. S.co[b].stack.fd \in B
    <3>1. CASE S.co[b].stack.role = "saver"
      BY <3>1, Zenon DEF SaverFd
    <3>2. \/ S.co[b].stack.role = "saver" \/ S.co[b].stack.fd = Listen
          \/ S.sock[S.co[b].stack.fd].kind = "conn"
      BY <2>1, FitFd, Zenon
    <3> QED
      BY <2>2, <3>1, <3>2, Zenon DEF Conns
  <2> QED
    BY <2>3, <2>4, <2>5, Zenon
<1>2. F \in [D -> C]
  BY <1>1, Zenon
<1>3. ASSUME NEW b \in D, NEW c \in D, F[b] = F[c]
      PROVE  b = c
  <2>1. F[b] \in Holds(S, b) /\ F[c] \in Holds(S, c)
    BY <1>1, Zenon
  <2>2. b # c => Holds(S, b) \cap Holds(S, c) = {}
    BY Zenon DEF Inv, Owned
  <2> QED
    BY <1>3, <2>1, <2>2, Zenon
<1>4. Conns(S) \subseteq Fds
  BY DEF Conns
<1> HIDE DEF F
<1>5. Cardinality(Conns(S)) \in Nat /\ MaxCo - 1 <= Cardinality(Conns(S)) + 1
  <2>1. Counting
    BY Zenon DEF Inv, Bounded
  <2> QED
    BY <1>2, <1>3, <1>4, <2>1, Zenon DEF Counting
<1>6. Cardinality(Conns(S)) <= MaxOpen
  <2>1. Cardinality(Conns(S)) + S.sock[Listen].data <= MaxOpen /\ S.sock[Listen].data \in Nat
    BY ListenFd DEF Inv, Bounded, Typed, SocketType, ListenIs
  <2> QED
    BY <2>1, <1>5, Summand, Zenon
<1> QED
  BY <1>5, <1>6, CoroutinesAssumption

-----------------------------------------------------------------------------
(* Calls that put the running coroutine, or a new one, in a place.          *)

HasCreated(S, T, a, G) ==
    Runs(T, a, G) /\ Keeps(S, T) /\ T.co[a] = S.co[a] /\ T.sock = S.sock

\* nty_coroutine_create: the new coroutine takes over a descriptor.
LEMMA CreateStep ==
    ASSUME NEW S, NEW a, NEW H, Runs(S, a, H), NEW fr \in Frames, Fit(S, fr), fr.at = "start",
           fr.pair = 0, fr.fd \in H,
           fr.role = "saver" => \A b \in Addr \ {a} : S.co[b].stack.role # "saver",
           \E n \in Addr : S.co[n] = Unused,
           NEW T, T = nty_coroutine_create(S, fr)
    PROVE  HasCreated(S, T, a, H \ {fr.fd})
<1> DEFINE n == Sets!Min({b \in 1..MaxCo : S.co[b] = Unused})
           G == H \ {fr.fd}
<1>1. n \in Addr /\ S.co[n] = Unused
  <2> DEFINE U == {b \in 1..MaxCo : S.co[b] = Unused}
  <2>1. U \subseteq Nat /\ \E m : m \in U
    BY DEF Addr
  <2>2. Sets!Min(U) \in U
    <3> HIDE DEF U
    <3> QED BY <2>1, MinIs, Zenon DEF Runs, Inv, Bounded
  <2> QED
    BY <2>2, Zenon DEF Addr
<1>2. /\ Inv(S, a, H) /\ a \in Addr /\ S.sched.busy = 0 /\ S.co[a].status \in {{}, {"READY"}}
  BY Zenon DEF Runs
<1>3. Rec(S) /\ S.co \in [Addr -> Coroutine]
  BY <1>2, Zenon DEF Inv, Typed
<1> HIDE DEF n, G
<1>4. Created(S, T, n, fr)
  <2>1. n = Sets!Min({b \in 1..MaxCo : S.co[b] = Unused})
    BY Zenon DEF n
  <2> QED
    BY <1>1, <1>3, <2>1, CreateIs, Zenon
<1>5. T.co[n].status = {"NEW"} /\ T.co[n].stack = fr
  BY <1>4 DEF Created
<1>6. \A b \in Addr \ {n} : T.co[b] = S.co[b]
  BY <1>4, Zenon DEF Created
<1>7. /\ T.sock = S.sock /\ T.epoll = S.epoll /\ T.sched.waiting = S.sched.waiting
      /\ T.sched.busy = S.sched.busy
  BY <1>4, Zenon DEF Created
<1>8. n # a
  BY <1>1, <1>2, UnusedHolds, Zenon
<1>9. S.sched.ready \in Seq(Addr)
  BY <1>2, Zenon DEF Inv, Typed
<1>10. Typed(T)
  <2>1. Typed(S)
    BY <1>2, Zenon DEF Inv
  <2>2. AppendedTo(Addr, S.sched.ready, Append(S.sched.ready, n), n)
    BY <1>1, <1>9, AppendIs, Zenon
  <2>3. Append(S.sched.ready, n) \in Seq(Addr)
    BY <2>2, Zenon DEF AppendedTo
  <2> QED
    BY <1>4, <2>1, <2>3, Zenon DEF Typed, Created
<1>11. /\ DOMAIN T.sched.ready = DOMAIN S.sched.ready \cup {Len(S.sched.ready) + 1}
       /\ Len(S.sched.ready) + 1 \notin DOMAIN S.sched.ready
       /\ \A i \in DOMAIN S.sched.ready : T.sched.ready[i] = S.sched.ready[i] /\ S.sched.ready[i] \in Addr
       /\ T.sched.ready[Len(S.sched.ready) + 1] = n
  <2>1. T.sched.ready = Append(S.sched.ready, n)
    BY <1>4, Zenon DEF Created
  <2>2. AppendedTo(Addr, S.sched.ready, T.sched.ready, n)
    BY <1>1, <1>9, <2>1, AppendIs, Zenon
  <2> QED
    BY <2>2, Zenon DEF AppendedTo
<1> DEFINE m == Len(S.sched.ready) + 1
<1> HIDE DEF m
<1>12. \A i \in DOMAIN S.sched.ready : S.sched.ready[i] # n
  BY <1>1, <1>2, UnusedHolds, Zenon DEF Inv, Queue
<1>13. Queue(T, a)
  <2>1. ASSUME NEW i \in DOMAIN S.sched.ready
        PROVE  /\ T.sched.ready[i] = S.sched.ready[i] /\ T.co[T.sched.ready[i]] = S.co[S.sched.ready[i]]
               /\ T.sched.ready[i] # n
    <3>1. T.sched.ready[i] = S.sched.ready[i] /\ S.sched.ready[i] \in Addr /\ S.sched.ready[i] # n
      BY <1>11, <1>12, Zenon
    <3>2. T.co[S.sched.ready[i]] = S.co[S.sched.ready[i]]
      BY <1>6, <3>1
    <3> QED
      BY <3>1, <3>2, Zenon
  <2>2. T.sched.ready[m] = n /\ DOMAIN T.sched.ready = DOMAIN S.sched.ready \cup {m}
    BY <1>11, Zenon DEF m
  <2>3. Queue(S, a)
    BY <1>2, Zenon DEF Inv
  <2>4. \A i, j \in DOMAIN T.sched.ready : T.sched.ready[i] = T.sched.ready[j] => i = j
    BY <2>1, <2>2, <2>3 DEF Queue
  <2>5. ASSUME NEW i \in DOMAIN S.sched.ready
        PROVE  /\ T.sched.ready[i] # a
               /\ T.co[T.sched.ready[i]].status = {"NEW"} /\ T.co[T.sched.ready[i]].stack.at = "start"
    BY <2>1, <2>3, Zenon DEF Queue
  <2> QED
    BY <2>2, <2>4, <2>5, <1>5, <1>8, Zenon DEF Queue
<1>14. Waiting(T, a)
  <2>1. ASSUME NEW f \in DOMAIN S.sched.waiting
        PROVE  S.sched.waiting[f] \in Addr \ {a} /\ S.sched.waiting[f] # n /\ WaitsAt(S, S.sched.waiting[f], f)
    <3>1. S.sched.waiting[f] \in Addr \ {a} /\ WaitsAt(S, S.sched.waiting[f], f)
      BY <1>2, Zenon DEF Inv, Waiting
    <3>2. S.co[S.sched.waiting[f]].stack.at \in Waits
      BY <3>1, Zenon DEF WaitsAt
    <3> QED
      BY <1>1, <3>1, <3>2, UnusedHolds, Zenon DEF Waits
  <2>2. ASSUME NEW f \in DOMAIN S.sched.waiting
        PROVE  WaitsAt(T, S.sched.waiting[f], f)
    <3>1. T.co[S.sched.waiting[f]] = S.co[S.sched.waiting[f]]
      BY <1>6, <2>1, Zenon
    <3> QED
      BY <2>1, <3>1, <1>7, Zenon DEF WaitsAt
  <2> QED
    BY <2>1, <2>2, <1>7, Zenon DEF Waiting
<1>15. Busy(T, a)
  BY <1>2, <1>4, Zenon DEF Busy, Created
<1>16. Places(T, a)
  <2>1. Fit(T, fr) /\ InPlace(T, n)
    <3>1. Fit(T, fr)
      BY <1>7, Zenon DEF Fit
    <3>2. \E i \in DOMAIN T.sched.ready : T.sched.ready[i] = n
      <4>1. m \in DOMAIN T.sched.ready /\ T.sched.ready[m] = n
        BY <1>11, Zenon DEF m
      <4> QED
        BY <4>1
    <3>3. fr.at \notin Waits /\ fr.at # "sendfile"
      BY DEF Waits
    <3>4. InPlace(T, n)
      BY <1>5, <3>2, <3>3, Zenon DEF InPlace
    <3> QED
      BY <3>1, <3>4
  <2>2. ASSUME NEW b \in Addr \ {a}, b # n, S.co[b] # Unused
        PROVE  Fit(T, S.co[b].stack) /\ InPlace(T, b) /\ S.co[b].status # {"FREE"}
    <3>1. Fit(S, S.co[b].stack) /\ InPlace(S, b) /\ S.co[b].status # {"FREE"}
      BY <1>2, <2>2, Zenon DEF Inv, Places
    <3>2. T.co[b] = S.co[b]
      BY <1>6, <2>2
    <3>3. Fit(T, S.co[b].stack)
      BY <3>1, <1>7, Zenon DEF Fit
    <3>4. InPlace(T, b)
      <4>1. S.co[b].stack.at = "start" => \E i \in DOMAIN T.sched.ready : T.sched.ready[i] = b
        BY <3>1, <1>11 DEF InPlace
      <4> QED
        BY <3>1, <3>2, <4>1, <1>7, Zenon DEF InPlace
    <3> QED
      BY <3>1, <3>3, <3>4, Zenon
  <2> QED
    <3>1. ASSUME NEW b \in Addr \ {a}, T.co[b] # Unused
          PROVE  Fit(T, T.co[b].stack) /\ InPlace(T, b) /\ T.co[b].status # {"FREE"}
      <4>1. CASE b = n
        BY <2>1, <1>5, <4>1, Zenon
      <4>2. CASE b # n
        BY <2>2, <1>6, <3>1, <4>2, Zenon
      <4> QED
        BY <4>1, <4>2, Zenon
    <3> QED
      BY <3>1, Zenon DEF Places
<1>17. Holds(T, n) = {fr.fd} /\ Holds(S, n) = {} /\ \A b \in Addr \ {n} : Holds(T, b) = Holds(S, b)
  <2>1. fr.fd # 0
    BY <1>2, Zero, Zenon DEF Inv, Owned
  <2>2. Held(fr) = {fr.fd}
    BY <2>1 DEF Held
  <2> QED
    BY <1>1, <1>5, <1>6, <2>2, UnusedHolds, Zenon DEF Holds
<1>18. \A f : Has(T, a, G, f) <=> Has(S, a, H, f)
  BY <1>1, <1>8, <1>17, Zenon DEF Has, G
<1>19. Owned(T, a, G)
  <2>1. Owned(S, a, H)
    BY <1>2, Zenon DEF Inv
  <2>2. \A b \in Addr \ {a} : Holds(S, b) \cap H = {}
    BY <2>1, Zenon DEF Owned
  <2>3. \A b, c \in Addr \ {a} : b # c => Holds(T, b) \cap Holds(T, c) = {}
    BY <2>1, <2>2, <1>17 DEF Owned
  <2>4. \A b \in Addr \ {a} : Holds(T, b) \cap G = {}
    BY <2>2, <1>17, Zenon DEF G
  <2>5. G \subseteq Fds /\ \A f \in G : T.sock[f].kind # "free"
    BY <2>1, <1>7, Zenon DEF Owned, G
  <2>6. Has(T, a, G, Listen) => \A f \in Fds : T.sock[f].kind # "free" => Has(T, a, G, f)
    BY <2>1, <1>7, <1>18, Zenon DEF Owned
  <2> QED
    BY <2>3, <2>4, <2>5, <2>6, Zenon DEF Owned
<1>20. Bounded(T, a, G)
  <2>1. Bounded(S, a, H)
    BY <1>2, Zenon DEF Inv
  <2>2. Conns(T) = Conns(S)
    BY <1>7, Zenon DEF Conns
  <2>3. \A b, c \in Addr \ {a} : T.co[b].stack.role = "saver" /\ T.co[c].stack.role = "saver" => b = c
    <3>1. \A b, c \in Addr \ {a} : S.co[b].stack.role = "saver" /\ S.co[c].stack.role = "saver" => b = c
      BY <2>1, Zenon DEF Bounded
    <3> QED
      BY <1>5, <1>6, <3>1
  <2>4. \A b, c \in Addr \ {a} : T.co[b].stack.at = "child" /\ T.co[c].stack.at = "child" => b = c
    <3>1. \A b, c \in Addr \ {a} : S.co[b].stack.at = "child" /\ S.co[c].stack.at = "child" => b = c
      BY <2>1, Zenon DEF Bounded
    <3> QED
      BY <1>5, <1>6, <3>1
  <2> QED
    BY <2>1, <2>2, <2>3, <2>4, <1>7, <1>18, Zenon DEF Bounded
<1>21. Batch(T)
  <2>1. Batch(S)
    BY <1>2, Zenon DEF Inv
  <2>2. T.sched.events = S.sched.events
    BY <1>4, Zenon DEF Created
  <2> QED
    BY <1>7, <2>1, <2>2 DEF Batch
<1>22. Inv(T, a, G)
  BY <1>10, <1>13, <1>14, <1>15, <1>16, <1>19, <1>20, <1>21, Zenon DEF Inv
<1>23. T.co[a] = S.co[a]
  BY <1>2, <1>4, <1>8, Zenon DEF Created
<1>24. Keeps(S, T)
  BY <1>4, <1>11, Zenon DEF Keeps, Created
<1> QED
  BY <1>2, <1>4, <1>22, <1>23, <1>24, Zenon DEF Runs, G, Created, HasCreated

\* Only a's entry of the table changes.
Others(S, T, a) == T.sock = S.sock /\ \A b \in Addr \ {a} : T.co[b] = S.co[b]

\* There is no second saver, and no second reader that waits for a child.
Alone(S, a, fr) ==
    /\ fr.role = "saver" => \A b \in Addr \ {a} : S.co[b].stack.role # "saver"
    /\ fr.at = "child" => \A b \in Addr \ {a} : S.co[b].stack.at # "child"

\* The running coroutine stops with a frame that has what it held.
LEMMA StopOwned ==
    ASSUME NEW S, NEW a \in Addr, NEW H, Owned(S, a, H), Bounded(S, a, H), NEW T, Others(S, T, a),
           NEW fr, T.co[a].stack = fr, H = Held(fr), Alone(S, a, fr)
    PROVE  Owned(T, 0, {}) /\ Bounded(T, 0, {})
<1>1. 0 \notin Addr /\ Addr \ {0} = Addr
  BY Zero
<1>2. Holds(T, a) = H /\ \A b \in Addr \ {a} : Holds(T, b) = Holds(S, b)
  BY Zenon DEF Holds, Others
<1>3. \A f : Has(T, 0, {}, f) <=> Has(S, a, H, f)
  BY <1>1, <1>2, Zenon DEF Has
<1>4. T.sock = S.sock
  BY Zenon DEF Others
<1>5. \A b, c \in Addr : b # c => Holds(T, b) \cap Holds(T, c) = {}
  BY <1>2, Zenon DEF Owned
<1>6. Has(T, 0, {}, Listen) => \A f \in Fds : T.sock[f].kind # "free" => Has(T, 0, {}, f)
  BY <1>3, <1>4, Zenon DEF Owned
<1>7. Owned(T, 0, {})
  BY <1>1, <1>5, <1>6, Zenon DEF Owned
<1>8. \A b \in Addr \ {a} : T.co[b].stack = S.co[b].stack
  BY Zenon DEF Others
<1>9. \A b, c \in Addr : T.co[b].stack.role = "saver" /\ T.co[c].stack.role = "saver" => b = c
  BY <1>8, Zenon DEF Bounded, Alone
<1>10. \A b, c \in Addr : T.co[b].stack.at = "child" /\ T.co[c].stack.at = "child" => b = c
  BY <1>8, Zenon DEF Bounded, Alone
<1>11. Conns(T) = Conns(S)
  BY <1>4, Zenon DEF Conns
<1>12. Bounded(T, 0, {})
  BY <1>1, <1>3, <1>4, <1>9, <1>10, <1>11, Zenon DEF Bounded
<1> QED
  BY <1>7, <1>12, Zenon

\* The queue does not have the running coroutine.
LEMMA QueueSame ==
    ASSUME NEW S, NEW T, NEW a, Queue(S, a), S.sched.ready \in Seq(Addr),
           T.sched.ready = S.sched.ready, \A b \in Addr \ {a} : T.co[b] = S.co[b]
    PROVE  Queue(T, 0)
<1>1. \A i \in DOMAIN S.sched.ready : S.sched.ready[i] \in Addr
  OBVIOUS
<1>2. 0 \notin Addr
  BY DEF Addr
<1>3. \A i \in DOMAIN S.sched.ready : S.sched.ready[i] # a
  BY Zenon DEF Queue
<1>4. \A i \in DOMAIN S.sched.ready : T.co[S.sched.ready[i]] = S.co[S.sched.ready[i]]
  BY <1>1, <1>3, Zenon
<1>5. \A i \in DOMAIN S.sched.ready : S.sched.ready[i] # 0
  BY <1>1, <1>2, Zenon
<1>6. \A i \in DOMAIN S.sched.ready : /\ T.co[S.sched.ready[i]].status = {"NEW"}
                                      /\ T.co[S.sched.ready[i]].stack.at = "start"
  BY <1>4, Zenon DEF Queue
<1>7. \A i, j \in DOMAIN S.sched.ready : S.sched.ready[i] = S.sched.ready[j] => i = j
  BY Zenon DEF Queue
<1> QED
  BY <1>5, <1>6, <1>7, Zenon DEF Queue

\* Nobody stops waiting for a descriptor with an event.
LEMMA BatchSame ==
    ASSUME NEW S, NEW T, Batch(S), T.sched.events = S.sched.events, T.sock = S.sock,
           \A f \in DOMAIN S.sched.waiting : f \in DOMAIN T.sched.waiting
    PROVE  Batch(T)
<1>1. \A i \in DOMAIN S.sched.events : S.sched.events[i] \in DOMAIN T.sched.waiting
  BY Zenon DEF Batch
<1>2. \A i \in DOMAIN S.sched.events : S.sched.events[i] = Listen => S.sock[Listen].data > 0
  BY Zenon DEF Batch
<1>3. \A i, j \in DOMAIN S.sched.events : S.sched.events[i] = S.sched.events[j] => i = j
  BY Zenon DEF Batch
<1>4. S.sock[Listen].hup = FALSE
  BY Zenon DEF Batch
<1> QED
  BY <1>1, <1>2, <1>3, <1>4, Zenon DEF Batch

\* nty_poll_inner makes the running coroutine wait for one of its descriptors.
LEMMA YieldStep ==
    ASSUME NEW S, NEW a, NEW H, Runs(S, a, H), NEW fr \in Frames, Fit(S, fr), fr.at \in Waits,
           H = Held(fr), NEW fd, fd = WaitsFor(fr),
           NEW ev, ev = IF fr.at = "send" THEN "out" ELSE "in", Alone(S, a, fr),
           NEW T, T = PollYield(S, a, fr, fd, ev)
    PROVE  Stopped(S, T)
<1>1. /\ Inv(S, a, H) /\ a \in Addr /\ S.sched.busy = 0 /\ S.co[a].status \in {{}, {"READY"}}
  BY Zenon DEF Runs
<1>2. Rec(S) /\ S.co \in [Addr -> Coroutine] /\ S.asserted = FALSE /\ DOMAIN S.epoll = DOMAIN S.sched.waiting
  BY <1>1, Zenon DEF Inv, Typed
<1>3. fd \in H /\ fd \in Fds
  BY ListenFd DEF Fit, WaitsFor, Held, Waits, Fds, ListenIs, Listen
<1>4. fd \notin DOMAIN S.sched.waiting /\ fd \notin DOMAIN S.epoll
  BY <1>1, <1>3, HeldNotAwaited, Zenon
<1>5. "WAIT_READ" \notin S.co[a].status
  BY <1>1
<1>6. Yielded(S, T, a, fr, fd, ev)
  BY <1>1, <1>2, <1>4, <1>5, PollYieldIs, Zenon
<1>7. Others(S, T, a) /\ T.co[a].stack = fr
  BY <1>6, Zenon DEF Others, Yielded
<1>8. Owned(T, 0, {}) /\ Bounded(T, 0, {})
  <2>1. Owned(S, a, H) /\ Bounded(S, a, H)
    BY <1>1, Zenon DEF Inv
  <2> QED
    BY <1>1, <1>7, <2>1, StopOwned, Zenon
<1>9. 0 \notin Addr /\ Addr \ {0} = Addr
  BY Zero
<1>10. T.sched.ready = S.sched.ready /\ T.sched.busy = S.sched.busy
  BY <1>6, Zenon DEF Yielded
<1>11. Typed(T)
  <2>1. Typed(S)
    BY <1>1, Zenon DEF Inv
  <2>2. /\ Rec(T) /\ T.co \in [Addr -> Coroutine] /\ T.sock \in [Fds -> SocketType] /\ T.asserted = FALSE
        /\ T.sched.ready \in Seq(Addr) /\ T.sched.events \in Seq(Fds)
        /\ T.sched.last \in 0..MaxCo /\ T.sched.busy \in 0..MaxCo
        /\ T.sched.phase \in {"ready", "epoll", "events"}
    BY <1>6, <2>1, Zenon DEF Typed, Yielded
  <2>3. DOMAIN T.child = {Save, Sync} /\ \A k \in {Save, Sync} : T.child[k].pair # Listen
    BY <1>6, <2>1, Zenon DEF Typed, Yielded
  <2>4. /\ DOMAIN S.sched.waiting \subseteq Fds /\ T.epoll = [f \in DOMAIN T.epoll |-> T.epoll[f]]
        /\ DOMAIN T.epoll = DOMAIN S.epoll \cup {fd}
        /\ DOMAIN T.sched.waiting = DOMAIN S.sched.waiting \cup {fd}
    BY <1>6, <2>1, Zenon DEF Typed, Yielded
  <2>5. DOMAIN T.sched.waiting \subseteq Fds /\ DOMAIN T.epoll = DOMAIN T.sched.waiting
    BY <1>2, <1>3, <2>4, Zenon
  <2> QED
    BY <2>2, <2>3, <2>4, <2>5, Zenon DEF Typed
<1>12. Queue(T, 0)
  <2>1. S.sched.ready \in Seq(Addr) /\ Queue(S, a)
    BY <1>1, Zenon DEF Inv, Typed
  <2> QED
    BY <1>7, <1>10, <2>1, QueueSame, Zenon DEF Others
<1>13. Waiting(T, 0)
  <2>1. WaitsAt(T, a, fd)
    BY <1>6, <1>7, Zenon DEF WaitsAt, Yielded
  <2>2. ASSUME NEW f \in DOMAIN S.sched.waiting
        PROVE  T.sched.waiting[f] \in Addr /\ WaitsAt(T, T.sched.waiting[f], f)
    <3>1. S.sched.waiting[f] \in Addr \ {a} /\ WaitsAt(S, S.sched.waiting[f], f)
      BY <1>1 DEF Inv, Waiting
    <3>2. T.sched.waiting[f] = S.sched.waiting[f] /\ T.epoll[f] = S.epoll[f]
      BY <1>2, <1>6, Zenon DEF Yielded
    <3>3. T.co[S.sched.waiting[f]] = S.co[S.sched.waiting[f]]
      BY <1>7, <3>1, Zenon DEF Others
    <3> QED
      BY <3>1, <3>2, <3>3, Zenon DEF WaitsAt
  <2>3. DOMAIN T.sched.waiting = DOMAIN S.sched.waiting \cup {fd} /\ T.sched.waiting[fd] = a
    BY <1>6, Zenon DEF Yielded
  <2> QED
    BY <1>1, <1>9, <2>1, <2>2, <2>3, Zenon DEF Waiting
<1>14. Busy(T, 0)
  BY <1>1, <1>10, Zenon DEF Busy
<1>15. Places(T, 0)
  <2>1. Fit(T, fr)
    BY <1>7, Zenon DEF Others, Fit
  <2>2. InPlace(T, a)
    <3>1. T.sched.waiting[fd] = a /\ fd \in DOMAIN T.sched.waiting
      BY <1>6, Zenon DEF Yielded
    <3>2. fr.at # "start" /\ fr.at # "sendfile"
      BY Zenon DEF Waits
    <3> QED
      BY <1>7, <3>1, <3>2, Zenon DEF InPlace
  <2>3. T.co[a].status # {"FREE"}
    BY <1>1, <1>6, Zenon DEF Yielded
  <2>4. ASSUME NEW b \in Addr \ {a}, S.co[b] # Unused
        PROVE  Fit(T, S.co[b].stack) /\ InPlace(T, b) /\ S.co[b].status # {"FREE"}
    <3>1. Fit(S, S.co[b].stack) /\ InPlace(S, b) /\ S.co[b].status # {"FREE"}
      BY <1>1, <2>4, Zenon DEF Inv, Places
    <3>2. T.co[b] = S.co[b] /\ T.sock = S.sock
      BY <1>7, Zenon DEF Others
    <3>3. Fit(T, S.co[b].stack)
      BY <3>1, <3>2, Zenon DEF Fit
    <3>4. \A f \in DOMAIN S.sched.waiting : f \in DOMAIN T.sched.waiting /\ T.sched.waiting[f] = S.sched.waiting[f]
      BY <1>6, Zenon DEF Yielded
    <3>5. InPlace(T, b)
      BY <3>1, <3>2, <3>4, <1>10, Zenon DEF InPlace
    <3> QED
      BY <3>1, <3>3, <3>5, Zenon
  <2>5. ASSUME NEW b \in Addr, T.co[b] # Unused
        PROVE  Fit(T, T.co[b].stack) /\ InPlace(T, b) /\ T.co[b].status # {"FREE"}
    <3>1. CASE b = a
      BY <1>7, <2>1, <2>2, <2>3, <3>1, Zenon
    <3>2. CASE b # a
      BY <1>7, <2>4, <2>5, <3>2, Zenon DEF Others
    <3> QED
      BY <3>1, <3>2, Zenon
  <2> QED
    BY <2>5, Zenon DEF Places
<1>16. Batch(T)
  <2>1. Batch(S)
    BY <1>1, Zenon DEF Inv
  <2>2. /\ T.sched.events = S.sched.events /\ T.sock = S.sock
        /\ DOMAIN T.sched.waiting = DOMAIN S.sched.waiting \cup {fd}
    BY <1>6, Zenon DEF Yielded
  <2> QED
    BY <2>1, <2>2, BatchSame, Zenon
<1>17. Inv(T, 0, {})
  BY <1>8, <1>11, <1>12, <1>13, <1>14, <1>15, <1>16, Zenon DEF Inv
<1>18. Keeps(S, T)
  BY <1>6, Zenon DEF Keeps, Yielded
<1> QED
  BY <1>17, <1>18, Zenon DEF Stopped

\* The running coroutine ends, without a descriptor, or with that to listen.
LEMMA ExitStep ==
    ASSUME NEW S, NEW a, NEW H, Runs(S, a, H), H = {} \/ Listen \in H,
           \A f \in H : S.sock[f].kind # "pair",
           NEW T, T = Exit(S, a)
    PROVE  Stopped(S, T)
<1>1. Inv(S, a, H) /\ a \in Addr /\ S.sched.busy = 0
  BY DEF Runs
<1>2. Rec(S) /\ S.co \in [Addr -> Coroutine] /\ S.sched.ready \in Seq(Addr)
  BY <1>1, Zenon DEF Inv, Typed
<1>3. /\ Typed(S) /\ Queue(S, a) /\ Waiting(S, a) /\ Places(S, a)
      /\ Owned(S, a, H) /\ Bounded(S, a, H) /\ Batch(S)
  BY <1>1, Zenon DEF Inv
<1>4. Unused \in Coroutine
  BY UnusedHolds
<1>5. T = [S EXCEPT !.co[a] = Unused]
  BY Zenon DEF Exit
<1>6. /\ Rec(T) /\ T.asserted = S.asserted /\ T.sock = S.sock /\ T.child = S.child
      /\ T.epoll = S.epoll /\ T.sched = S.sched
      /\ T.co \in [Addr -> Coroutine] /\ T.co[a] = Unused
      /\ \A b \in Addr \ {a} : T.co[b] = S.co[b]
  <2>1. Put(S, T, a, Unused)
    BY <1>1, <1>2, <1>4, <1>5, PutIs, Zenon
  <2> QED
    BY <2>1 DEF Put
<1>7. 0 \notin Addr /\ Addr \ {0} = Addr
  BY Zero
<1>8. Typed(T)
  BY <1>3, <1>6, Zenon DEF Typed
<1>9. Queue(T, 0)
  BY <1>2, <1>3, <1>6, QueueSame, Zenon
<1>10. Waiting(T, 0)
  <2>1. ASSUME NEW f \in DOMAIN S.sched.waiting
        PROVE  S.sched.waiting[f] \in Addr /\ WaitsAt(T, S.sched.waiting[f], f)
    <3>1. S.sched.waiting[f] \in Addr \ {a} /\ WaitsAt(S, S.sched.waiting[f], f)
      BY <1>3, Zenon DEF Waiting
    <3>2. T.co[S.sched.waiting[f]] = S.co[S.sched.waiting[f]]
      BY <1>6, <3>1, Zenon
    <3> QED
      BY <1>6, <3>1, <3>2, Zenon DEF WaitsAt
  <2> QED
    BY <1>6, <1>7, <2>1, Zenon DEF Waiting
<1>11. Busy(T, 0)
  BY <1>1, <1>6 DEF Busy
<1>12. Places(T, 0)
  <2>1. ASSUME NEW b \in Addr, T.co[b] # Unused
        PROVE  Fit(T, T.co[b].stack) /\ InPlace(T, b) /\ T.co[b].status # {"FREE"}
    <3>1. b \in Addr \ {a} /\ T.co[b] = S.co[b]
      BY <1>6, <2>1
    <3>2. Fit(S, S.co[b].stack) /\ InPlace(S, b) /\ S.co[b].status # {"FREE"}
      BY <1>3, <2>1, <3>1, Zenon DEF Places
    <3>3. InPlace(T, b)
      BY <1>6, <3>1, <3>2, Zenon DEF InPlace
    <3> QED
      <4>1. Fit(T, T.co[b].stack)
        BY <1>6, <3>1, <3>2, FitKept, Zenon
      <4> QED
        BY <3>1, <3>2, <3>3, <4>1, Zenon
  <2> QED
    BY <1>7, <2>1, Zenon DEF Places
<1>13. Holds(T, a) = {} /\ \A b \in Addr \ {a} : Holds(T, b) = Holds(S, b)
  BY <1>6, UnusedHolds, Zenon DEF Holds
<1>14. \A f : Has(T, 0, {}, f) <=> \E b \in Addr \ {a} : f \in Holds(S, b)
  BY <1>7, <1>13, Zenon DEF Has
<1>15. Owned(T, 0, {})
  <2>1. \A b, c \in Addr : b # c => Holds(T, b) \cap Holds(T, c) = {}
    BY <1>3, <1>13, Zenon DEF Owned
  <2>2. ASSUME Has(T, 0, {}, Listen), NEW f \in Fds, T.sock[f].kind # "free"
        PROVE  Has(T, 0, {}, f)
    <3>1. Listen \notin H
      BY <1>3, <1>14, <2>2, Zenon DEF Owned
    <3>2. H = {}
      BY <3>1, Zenon
    <3>3. Has(S, a, H, Listen) /\ S.sock[f].kind # "free"
      BY <1>6, <1>14, <2>2, Zenon DEF Has
    <3>4. Has(S, a, H, f)
      BY <1>3, <3>3, Zenon DEF Owned
    <3> QED
      BY <1>14, <3>2, <3>4, Zenon DEF Has
  <2> QED
    BY <1>7, <2>1, <2>2, Zenon DEF Owned
<1>16. Bounded(T, 0, {})
  <2>1. Conns(T) = Conns(S) /\ T.sock = S.sock
    BY <1>6, Zenon DEF Conns
  <2>2. \A f \in Fds : T.sock[f].kind = "pair" => Has(T, 0, {}, f)
    BY <1>3, <1>14, <2>1, Zenon DEF Bounded, Has
  <2>3. T.co[a].stack.role # "saver" /\ T.co[a].stack.at # "child"
    BY <1>6, UnusedHolds, Zenon
  <2>4. \A b, c \in Addr : T.co[b].stack.role = "saver" /\ T.co[c].stack.role = "saver" => b = c
    <3>1. \A b, c \in Addr \ {a} : S.co[b].stack.role = "saver" /\ S.co[c].stack.role = "saver" => b = c
      BY <1>3, Zenon DEF Bounded
    <3> QED
      BY <1>6, <2>3, <3>1
  <2>5. \A b, c \in Addr : T.co[b].stack.at = "child" /\ T.co[c].stack.at = "child" => b = c
    <3>1. \A b, c \in Addr \ {a} : S.co[b].stack.at = "child" /\ S.co[c].stack.at = "child" => b = c
      BY <1>3, Zenon DEF Bounded
    <3> QED
      BY <1>6, <2>3, <3>1
  <2> QED
    BY <1>3, <1>7, <2>1, <2>2, <2>4, <2>5, Zenon DEF Bounded
<1>17. Batch(T)
  BY <1>3, <1>6, BatchSame, Zenon
<1>18. Inv(T, 0, {})
  BY <1>8, <1>9, <1>10, <1>11, <1>12, <1>15, <1>16, <1>17, Zenon DEF Inv
<1>19. Keeps(S, T)
  BY <1>6, Zenon DEF Keeps
<1> QED
  BY <1>18, <1>19, Zenon DEF Stopped

\* sendfile's loop: the running coroutine keeps the thread.
KeepsThread(S, a, fr) == [S EXCEPT !.sched.busy = a, !.co[a].stack = fr]

LEMMA BusyStep ==
    ASSUME NEW S, NEW a, NEW H, Runs(S, a, H), NEW fr \in Frames, fr.role = "reader", fr.pair = 0,
           fr.at = "sendfile", Fit(S, fr), H = Held(fr),
           NEW T, T = KeepsThread(S, a, fr)
    PROVE  Stopped(S, T)
<1>1. Inv(S, a, H) /\ a \in Addr /\ S.sched.busy = 0 /\ S.co[a].status \in {{}, {"READY"}}
  BY DEF Runs
<1>2. Rec(S) /\ S.co \in [Addr -> Coroutine] /\ S.sched.ready \in Seq(Addr)
  BY <1>1, Zenon DEF Inv, Typed
<1>3. /\ Typed(S) /\ Queue(S, a) /\ Waiting(S, a) /\ Places(S, a)
      /\ Owned(S, a, H) /\ Bounded(S, a, H) /\ Batch(S)
  BY <1>1, Zenon DEF Inv
<1>4. /\ Rec(T) /\ T.asserted = S.asserted /\ T.sock = S.sock /\ T.child = S.child
      /\ T.epoll = S.epoll /\ T.sched = [S.sched EXCEPT !.busy = a]
      /\ T.co = [S.co EXCEPT ![a].stack = fr]
  BY <1>2, Zenon DEF Rec, KeepsThread
<1>5. /\ T.sched.ready = S.sched.ready /\ T.sched.waiting = S.sched.waiting
      /\ T.sched.phase = S.sched.phase /\ T.sched.last = S.sched.last
      /\ T.sched.events = S.sched.events /\ T.sched.busy = a
  BY <1>2, <1>4, Zenon DEF Rec
<1>6. /\ T.co \in [Addr -> Coroutine] /\ T.co[a].stack = fr /\ T.co[a].status = S.co[a].status
      /\ \A b \in Addr \ {a} : T.co[b] = S.co[b]
  <2>1. StackSet(S.co, T.co, a, fr)
    BY <1>1, <1>2, <1>4, StackIs, Zenon
  <2> QED
    BY <2>1, Zenon DEF StackSet
<1>7. 0 \notin Addr /\ Addr \ {0} = Addr /\ a \in 0..MaxCo
  BY <1>1 DEF Addr
<1>8. Typed(T)
  BY <1>3, <1>4, <1>5, <1>6, <1>7, Zenon DEF Typed
<1>9. Queue(T, 0)
  BY <1>2, <1>3, <1>5, <1>6, QueueSame, Zenon
<1>10. Waiting(T, 0)
  <2>1. ASSUME NEW f \in DOMAIN S.sched.waiting
        PROVE  S.sched.waiting[f] \in Addr /\ WaitsAt(T, S.sched.waiting[f], f)
    <3>1. S.sched.waiting[f] \in Addr \ {a} /\ WaitsAt(S, S.sched.waiting[f], f)
      BY <1>3, Zenon DEF Waiting
    <3>2. T.co[S.sched.waiting[f]] = S.co[S.sched.waiting[f]]
      BY <1>6, <3>1, Zenon
    <3> QED
      BY <1>4, <3>1, <3>2, Zenon DEF WaitsAt
  <2> QED
    BY <1>5, <1>7, <2>1, Zenon DEF Waiting
<1>11. Busy(T, 0)
  BY <1>5, <1>6, Zenon DEF Busy
<1>12. Places(T, 0)
  <2>1. ASSUME NEW b \in Addr \ {a}, T.co[b] # Unused
        PROVE  Fit(T, T.co[b].stack) /\ InPlace(T, b) /\ T.co[b].status # {"FREE"}
    <3>1. T.co[b] = S.co[b]
      BY <1>6
    <3>2. Fit(S, S.co[b].stack) /\ InPlace(S, b) /\ S.co[b].status # {"FREE"}
      BY <1>3, <2>1, <3>1, Zenon DEF Places
    <3>3. S.co[b].stack.at # "sendfile"
      BY <1>1, <1>7, <3>2, Zenon DEF InPlace
    <3>4. InPlace(T, b)
      BY <1>5, <3>1, <3>2, <3>3, Zenon DEF InPlace
    <3> QED
      <4>1. Fit(T, T.co[b].stack)
        BY <1>4, <3>1, <3>2, FitKept, Zenon
      <4> QED
        BY <3>1, <3>2, <3>4, <4>1, Zenon
  <2>2. Fit(T, T.co[a].stack) /\ InPlace(T, a) /\ T.co[a].status # {"FREE"}
    <3>1. Fit(T, T.co[a].stack)
      BY <1>1, <1>4, <1>6, Zenon DEF Fit
    <3>2. InPlace(T, a)
      BY <1>1, <1>5, <1>6, Zenon DEF InPlace, Waits
    <3> QED
      BY <1>1, <1>6, <3>1, <3>2, Zenon
  <2> QED
    BY <1>7, <2>1, <2>2, Zenon DEF Places
<1>13. Others(S, T, a) /\ Alone(S, a, fr)
  BY <1>4, <1>6 DEF Others, Alone
<1>14. Owned(T, 0, {}) /\ Bounded(T, 0, {})
  BY <1>1, <1>3, <1>6, <1>13, StopOwned, Zenon
<1>15. Batch(T)
  <2>1. T.sched.events = S.sched.events /\ T.sock = S.sock /\ T.sched.waiting = S.sched.waiting /\ Batch(S)
    BY <1>3, <1>4, <1>5, Zenon
  <2> QED
    BY <2>1, BatchSame
<1>16. Inv(T, 0, {})
  BY <1>8, <1>9, <1>10, <1>11, <1>12, <1>14, <1>15, Zenon DEF Inv
<1>17. Keeps(S, T)
  BY <1>5, Zenon DEF Keeps
<1> QED
  BY <1>16, <1>17, Zenon DEF Stopped

-----------------------------------------------------------------------------
(* A coroutine is taken from its place and runs.                            *)

Taken(S, T, a) ==
    /\ Rec(T) /\ T.asserted = S.asserted /\ T.sock = S.sock /\ T.child = S.child
    /\ T.co \in [Addr -> Coroutine] /\ T.co[a].status \in {{}, {"READY"}}
    /\ \A b \in Addr \ {a} : T.co[b] = S.co[b]
    /\ T.sched.busy = 0 /\ S.sched.busy \in {0, a}
    /\ T.sched.phase = S.sched.phase /\ T.sched.last = S.sched.last

\* The coroutine is in the ready queue no more.
TakenReady(S, T, a) == Without1(Addr, S.sched.ready, T.sched.ready, a)

\* Nor does it wait for a descriptor: v and d are what is left of the waiters w
\* and of what epoll has, e.
WaitLeft(w, e, v, d, a) ==
    /\ DOMAIN v \subseteq DOMAIN w /\ DOMAIN d = DOMAIN v
    /\ d = [f \in DOMAIN d |-> d[f]]
    /\ \A f \in DOMAIN v : v[f] = w[f] /\ d[f] = e[f] /\ w[f] # a
    /\ \A f \in DOMAIN w : w[f] # a => f \in DOMAIN v

TakenWait(S, T, a) == WaitLeft(S.sched.waiting, S.epoll, T.sched.waiting, T.epoll, a)

\* The events p are some of q and have waiters.
EventsLeft(q, p, W) ==
    /\ p \in Seq(Fds)
    /\ \A i, j \in DOMAIN p : p[i] = p[j] => i = j
    /\ \A i \in DOMAIN p : p[i] \in W /\ \E j \in DOMAIN q : q[j] = p[i]

TakenEvents(S, T) == EventsLeft(S.sched.events, T.sched.events, DOMAIN T.sched.waiting)

\* What is known of the coroutine that runs.
Entered(S, T, a) ==
    /\ Runs(T, a, Held(S.co[a].stack)) /\ Alone(T, a, S.co[a].stack) /\ Fit(T, S.co[a].stack)
    /\ S.co[a].stack \in Frames /\ S.co[a].stack.role # "none"

LEMMA EnterStep ==
    ASSUME NEW S, Inv(S, 0, {}), NEW a \in Addr, S.co[a] # Unused, NEW T,
           Taken(S, T, a), TakenReady(S, T, a), TakenWait(S, T, a), TakenEvents(S, T)
    PROVE  Entered(S, T, a)
<1> DEFINE fr == S.co[a].stack
           H == Held(fr)
<1>1. 0 \notin Addr /\ Addr \ {0} = Addr
  BY Zero
<1>2. /\ Typed(S) /\ Queue(S, 0) /\ Waiting(S, 0) /\ Places(S, 0)
      /\ Owned(S, 0, {}) /\ Bounded(S, 0, {}) /\ Batch(S)
  BY Zenon DEF Inv
<1>3. Fit(S, fr) /\ fr \in Frames
  BY <1>1, <1>2, Zenon DEF Places, Typed, Coroutine
<1>4. fr.role # "none"
  BY <1>3, Zenon DEF Fit
<1>5. T.sock = S.sock /\ (\A b \in Addr \ {a} : T.co[b] = S.co[b]) /\ T.sched.busy = 0
  BY Zenon DEF Taken
<1>6. Fit(T, fr)
  BY <1>3, <1>5, Zenon DEF Fit
<1>7. Alone(T, a, fr)
  BY <1>1, <1>2, <1>5, Zenon DEF Alone, Bounded
<1>8. Typed(T)
  <2>1. /\ Rec(T) /\ T.co \in [Addr -> Coroutine] /\ T.sock \in [Fds -> SocketType] /\ T.asserted = FALSE
        /\ T.sched.ready \in Seq(Addr) /\ T.sched.events \in Seq(Fds)
        /\ T.sched.last \in 0..MaxCo /\ T.sched.phase \in {"ready", "epoll", "events"}
    BY <1>2, Zenon DEF Typed, Taken, TakenReady, Without1, TakenEvents, EventsLeft
  <2>2. T.sched.busy \in 0..MaxCo
    BY <1>5, CoroutinesAssumption
  <2>3. DOMAIN T.child = {Save, Sync} /\ \A k \in {Save, Sync} : T.child[k].pair # Listen
    BY <1>2, Zenon DEF Typed, Taken
  <2>4. /\ DOMAIN T.sched.waiting \subseteq Fds /\ T.epoll = [f \in DOMAIN T.epoll |-> T.epoll[f]]
        /\ DOMAIN T.epoll = DOMAIN T.sched.waiting
    BY <1>2, Zenon DEF Typed, TakenWait, WaitLeft
  <2> QED
    BY <2>1, <2>2, <2>3, <2>4, Zenon DEF Typed
<1>9. Queue(T, a)
  <2>1. ASSUME NEW i \in DOMAIN T.sched.ready
        PROVE  /\ T.sched.ready[i] # a /\ T.co[T.sched.ready[i]].status = {"NEW"}
               /\ T.co[T.sched.ready[i]].stack.at = "start"
    <3>1. T.sched.ready[i] # a /\ T.sched.ready[i] \in Addr
      <4>1. T.sched.ready \in Seq(Addr) /\ T.sched.ready[i] # a
        BY Zenon DEF TakenReady, Without1
      <4> QED
        BY <4>1, InSeq, Zenon
    <3>2. PICK j \in DOMAIN S.sched.ready : S.sched.ready[j] = T.sched.ready[i]
      BY Zenon DEF TakenReady, Without1
    <3>3. S.co[T.sched.ready[i]].status = {"NEW"} /\ S.co[T.sched.ready[i]].stack.at = "start"
      BY <1>2, <3>2, Zenon DEF Queue
    <3> QED
      BY <1>5, <3>1, <3>3, Zenon
  <2>2. \A i, j \in DOMAIN T.sched.ready : T.sched.ready[i] = T.sched.ready[j] => i = j
    BY Zenon DEF TakenReady, Without1
  <2> QED
    BY <2>1, <2>2, Zenon DEF Queue
<1>10. Waiting(T, a)
  <2>1. ASSUME NEW f \in DOMAIN T.sched.waiting
        PROVE  T.sched.waiting[f] \in Addr \ {a} /\ WaitsAt(T, T.sched.waiting[f], f)
    <3>1. /\ f \in DOMAIN S.sched.waiting /\ T.sched.waiting[f] = S.sched.waiting[f]
          /\ T.epoll[f] = S.epoll[f] /\ S.sched.waiting[f] # a
      BY DEF TakenWait, WaitLeft
    <3>2. S.sched.waiting[f] \in Addr /\ WaitsAt(S, S.sched.waiting[f], f)
      BY <1>1, <1>2, <3>1, Zenon DEF Waiting
    <3>3. T.co[S.sched.waiting[f]] = S.co[S.sched.waiting[f]]
      BY <1>5, <3>1, <3>2, Zenon
    <3>4. WaitsAt(T, S.sched.waiting[f], f)
      BY <3>1, <3>2, <3>3, Zenon DEF WaitsAt
    <3> QED
      BY <3>1, <3>2, <3>4, Zenon
  <2> QED
    BY <2>1, Zenon DEF Waiting
<1>11. Busy(T, a)
  BY <1>5, Zenon DEF Busy
<1>12. Places(T, a)
  <2>1. ASSUME NEW b \in Addr \ {a}, T.co[b] # Unused
        PROVE  Fit(T, T.co[b].stack) /\ InPlace(T, b) /\ T.co[b].status # {"FREE"}
    <3>1. T.co[b] = S.co[b]
      BY <1>5
    <3>2. Fit(S, S.co[b].stack) /\ InPlace(S, b) /\ S.co[b].status # {"FREE"}
      BY <1>1, <1>2, <2>1, <3>1, Zenon DEF Places
    <3>3. S.co[b].stack.at # "sendfile"
      BY <1>1, <3>2, Zenon DEF InPlace, Taken
    <3>4. ASSUME S.co[b].stack.at = "start"
          PROVE  \E i \in DOMAIN T.sched.ready : T.sched.ready[i] = b
      <4>1. PICK j \in DOMAIN S.sched.ready : S.sched.ready[j] = b
        BY <3>2, <3>4, Zenon DEF InPlace
      <4> QED
        BY <4>1 DEF TakenReady, Without1
    <3>5. ASSUME S.co[b].stack.at \in Waits
          PROVE  /\ WaitsFor(S.co[b].stack) \in DOMAIN T.sched.waiting
                 /\ T.sched.waiting[WaitsFor(S.co[b].stack)] = b
      <4>1. /\ WaitsFor(S.co[b].stack) \in DOMAIN S.sched.waiting
            /\ S.sched.waiting[WaitsFor(S.co[b].stack)] = b
        BY <3>2, <3>5, Zenon DEF InPlace
      <4> QED
        BY <4>1 DEF TakenWait, WaitLeft
    <3>6. InPlace(T, b)
      BY <3>1, <3>3, <3>4, <3>5, Zenon DEF InPlace
    <3>7. Fit(T, T.co[b].stack)
      BY <1>5, <3>1, <3>2, FitKept, Zenon
    <3> QED
      BY <3>1, <3>2, <3>6, <3>7, Zenon
  <2> QED
    BY <2>1, Zenon DEF Places
<1>13. \A b \in Addr \ {a} : Holds(T, b) = Holds(S, b)
  BY <1>5, Zenon DEF Holds
<1>14. H = Holds(S, a)
  BY Zenon DEF Holds
<1>15. H \subseteq Fds /\ \A f \in H : S.sock[f].kind # "free"
  <2>1. Listen \in Fds /\ S.sock[Listen].kind = "listen"
    BY <1>2, ListenFd, Zenon DEF Bounded, ListenIs
  <2>2. CASE fr.role = "server"
    BY <1>3, <2>1, <2>2, Zenon DEF Held, Fit
  <2>3. CASE fr.role # "server"
    <3>1. /\ fr.fd \in Fds /\ S.sock[fr.fd].kind \in {"conn", "pair"}
          /\ fr.pair = 0 \/ (fr.pair \in Fds /\ S.sock[fr.pair].kind = "pair")
      BY <1>3, <2>3, Zenon DEF Fit
    <3> QED
      BY <3>1, Zenon DEF Held
  <2> QED
    BY <2>2, <2>3, Zenon
<1> HIDE DEF H
<1>16. \A f : Has(T, a, H, f) <=> Has(S, 0, {}, f)
  BY <1>1, <1>13, <1>14, Zenon DEF Has
<1>17. Owned(T, a, H)
  <2>1. \A b, c \in Addr \ {a} : b # c => Holds(T, b) \cap Holds(T, c) = {}
    BY <1>1, <1>2, <1>13, Zenon DEF Owned
  <2>2. \A b \in Addr \ {a} : Holds(T, b) \cap H = {}
    BY <1>1, <1>2, <1>13, <1>14, Zenon DEF Owned
  <2>3. Has(T, a, H, Listen) => \A f \in Fds : T.sock[f].kind # "free" => Has(T, a, H, f)
    BY <1>2, <1>5, <1>16, Zenon DEF Owned
  <2> QED
    BY <1>5, <1>15, <2>1, <2>2, <2>3, Zenon DEF Owned
<1>18. Bounded(T, a, H)
  <2>1. Conns(T) = Conns(S)
    BY <1>5, Zenon DEF Conns
  <2>2. /\ \A b, c \in Addr \ {a} : T.co[b].stack.role = "saver" /\ T.co[c].stack.role = "saver" => b = c
        /\ \A b, c \in Addr \ {a} : T.co[b].stack.at = "child" /\ T.co[c].stack.at = "child" => b = c
    BY <1>1, <1>2, <1>5, Zenon DEF Bounded
  <2>3. \A f \in Fds : T.sock[f].kind = "pair" => Has(T, a, H, f)
    BY <1>2, <1>5, <1>16, Zenon DEF Bounded
  <2> QED
    BY <1>2, <1>5, <2>1, <2>2, <2>3, Zenon DEF Bounded
<1>19. Batch(T)
  <2>1. \A i \in DOMAIN T.sched.events : T.sched.events[i] = Listen => S.sock[Listen].data > 0
    BY <1>2, Zenon DEF Batch, TakenEvents, EventsLeft
  <2>2. S.sock[Listen].hup = FALSE
    BY <1>2, Zenon DEF Batch
  <2> QED
    BY <1>5, <2>1, <2>2, Zenon DEF Batch, TakenEvents, EventsLeft
<1>20. Inv(T, a, H)
  BY <1>8, <1>9, <1>10, <1>11, <1>12, <1>17, <1>18, <1>19, Zenon DEF Inv
<1>21. Runs(T, a, H)
  BY <1>5, <1>20, Zenon DEF Runs, Taken
<1> QED
  BY <1>3, <1>4, <1>6, <1>7, <1>21, Zenon DEF Entered, H

\* The coroutine at the head of the ready queue.
Dequeued(S) == [S EXCEPT !.sched.ready = Tail(@)]

Initialised(S, a) == [S EXCEPT !.co[a].status = {"READY"}]

EnteredReady(S, R, T, a) ==
    /\ Entered(S, T, a) /\ S.co[a].stack.at = "start" /\ S.co[a].status = {"NEW"} /\ a \in Addr
    /\ R.co = S.co
    /\ T.sched.ready = Tail(S.sched.ready) /\ T.sched.events = S.sched.events
    /\ T.sched.phase = S.sched.phase /\ T.sched.last = S.sched.last

LEMMA EnterReady ==
    ASSUME NEW S, Inv(S, 0, {}), S.sched.ready # <<>>, S.sched.busy = 0,
           NEW a, a = Head(S.sched.ready),
           NEW R, R = Dequeued(S), NEW T, T = Initialised(R, a)
    PROVE  EnteredReady(S, R, T, a)
<1>1. Typed(S) /\ Queue(S, 0) /\ Waiting(S, 0) /\ Batch(S)
  BY Zenon DEF Inv
<1>2. Rec(S) /\ S.sched.ready \in Seq(Addr) /\ S.co \in [Addr -> Coroutine]
  BY <1>1, Zenon DEF Typed
<1>3. a \in Addr /\ 1 \in DOMAIN S.sched.ready /\ a = S.sched.ready[1] /\ Without1(Addr, S.sched.ready, Tail(S.sched.ready), a)
  <2>1. \A i, j \in DOMAIN S.sched.ready : S.sched.ready[i] = S.sched.ready[j] => i = j
    BY <1>1, Zenon DEF Queue
  <2> QED
    BY <1>2, <2>1, TailWithout, Zenon
<1>4. S.co[a].stack.at = "start" /\ S.co[a].status = {"NEW"}
  BY <1>1, <1>3, Zenon DEF Queue
<1>5. S.co[a] # Unused
  BY <1>4, UnusedHolds, Zenon
<1>6. /\ Rec(T) /\ T.asserted = S.asserted /\ T.sock = S.sock /\ T.child = S.child /\ T.epoll = S.epoll
      /\ T.sched = [S.sched EXCEPT !.ready = Tail(S.sched.ready)]
      /\ T.co = [S.co EXCEPT ![a].status = {"READY"}] /\ R.co = S.co
  <2>1. /\ Rec(R) /\ R.asserted = S.asserted /\ R.sock = S.sock /\ R.child = S.child /\ R.epoll = S.epoll
        /\ R.sched = [S.sched EXCEPT !.ready = Tail(S.sched.ready)] /\ R.co = S.co
    BY <1>2, Zenon DEF Rec, Dequeued
  <2>2. /\ Rec(T) /\ T.asserted = R.asserted /\ T.sock = R.sock /\ T.child = R.child /\ T.epoll = R.epoll
        /\ T.sched = R.sched /\ T.co = [R.co EXCEPT ![a].status = {"READY"}]
    BY <2>1, Zenon DEF Rec, Initialised
  <2> QED
    BY <2>1, <2>2, Zenon
<1>7. /\ T.sched.ready = Tail(S.sched.ready) /\ T.sched.waiting = S.sched.waiting
      /\ T.sched.events = S.sched.events /\ T.sched.busy = S.sched.busy
      /\ T.sched.phase = S.sched.phase /\ T.sched.last = S.sched.last
  BY <1>2, <1>6, Zenon DEF Rec
<1>8. /\ T.co \in [Addr -> Coroutine] /\ T.co[a].status = {"READY"}
      /\ \A b \in Addr \ {a} : T.co[b] = S.co[b]
  <2>1. /\ T.co = [S.co EXCEPT ![a].status = {"READY"}] /\ S.co \in [Addr -> Coroutine] /\ a \in Addr
    BY <1>2, <1>3, <1>6, Zenon
  <2>2. {"READY"} \in SUBSET Flags
    BY Zenon DEF Flags
  <2>3. StatusSet(S.co, T.co, a, {"READY"})
    BY <2>1, <2>2, StatusIs, Zenon
  <2> QED
    BY <2>3, Zenon DEF StatusSet
<1>9. Taken(S, T, a)
  BY <1>6, <1>7, <1>8, Zenon DEF Taken
<1>10. TakenReady(S, T, a)
  BY <1>3, <1>7, Zenon DEF TakenReady
<1>11. TakenWait(S, T, a)
  <2>1. ASSUME NEW f \in DOMAIN S.sched.waiting
        PROVE  S.sched.waiting[f] # a
    <3>1. S.co[S.sched.waiting[f]].stack.at \in Waits
      BY <1>1, Zenon DEF Waiting, WaitsAt
    <3> QED
      BY <1>4, <3>1, Zenon DEF Waits
  <2>2. S.epoll = [f \in DOMAIN S.epoll |-> S.epoll[f]] /\ DOMAIN S.epoll = DOMAIN S.sched.waiting
    BY <1>1, Zenon DEF Typed
  <2> QED
    <3>1. WaitLeft(S.sched.waiting, S.epoll, S.sched.waiting, S.epoll, a)
      BY <2>1, <2>2, Zenon DEF WaitLeft
    <3> QED
      BY <1>6, <1>7, <3>1, Zenon DEF TakenWait
<1>12. TakenEvents(S, T)
  <2>1. S.sched.events \in Seq(Fds)
    BY <1>1, Zenon DEF Typed
  <2>2. \A i, j \in DOMAIN S.sched.events : S.sched.events[i] = S.sched.events[j] => i = j
    BY <1>1, Zenon DEF Batch
  <2>3. \A i \in DOMAIN S.sched.events : S.sched.events[i] \in DOMAIN S.sched.waiting
    BY <1>1, Zenon DEF Batch
  <2> QED
    <3>1. EventsLeft(S.sched.events, S.sched.events, DOMAIN S.sched.waiting)
      BY <2>1, <2>2, <2>3, Zenon DEF EventsLeft
    <3> QED
      BY <1>7, <3>1, Zenon DEF TakenEvents
<1>13. Entered(S, T, a)
  BY <1>3, <1>5, <1>9, <1>10, <1>11, <1>12, EnterStep, Zenon
<1> QED
  BY <1>3, <1>4, <1>6, <1>7, <1>13, Zenon DEF EnteredReady

LastEvent(S, f) == S.sched.events # <<>> /\ f = S.sched.events[Len(S.sched.events)]

EventsBefore(S) == SubSeq(S.sched.events, 1, Len(S.sched.events) - 1)

\* The coroutine that waits for the last event of the batch: its status is
\* reset, to FDEOF when the peer is gone, and nty_poll_inner goes on in it.
Woken(S, E, a, v) ==
    /\ Rec(E) /\ E.asserted = S.asserted /\ E.sock = S.sock /\ E.child = S.child /\ E.epoll = S.epoll
    /\ E.sched.ready = S.sched.ready /\ E.sched.waiting = S.sched.waiting
    /\ E.sched.events = EventsBefore(S) /\ E.sched.busy = S.sched.busy
    /\ E.sched.phase = S.sched.phase /\ E.sched.last = S.sched.last
    /\ StatusSet(S.co, E.co, a, v)

LEMMA WokenIs ==
    ASSUME NEW S, Rec(S), S.co \in [Addr -> Coroutine], NEW f, NEW a \in Addr, a = S.sched.waiting[f],
           NEW E, E = [nty_schedule_search_wait(S, f) EXCEPT !.sched.events = EventsBefore(S)]
    PROVE  Woken(S, E, a, {})
<1> DEFINE R == [S EXCEPT !.co[a].status = {}]
           rest == EventsBefore(S)
<1> HIDE DEF rest
<1>1. /\ Rec(R) /\ R.asserted = S.asserted /\ R.sock = S.sock /\ R.child = S.child /\ R.epoll = S.epoll
      /\ R.sched = S.sched /\ R.co = [S.co EXCEPT ![a].status = {}]
  BY Zenon DEF Rec
<1>2. E = [R EXCEPT !.sched.events = rest]
  BY Zenon DEF nty_schedule_search_wait, rest
<1> HIDE DEF R
<1>3. /\ Rec(E) /\ E.asserted = R.asserted /\ E.sock = R.sock /\ E.child = R.child /\ E.epoll = R.epoll
      /\ E.sched = [R.sched EXCEPT !.events = rest] /\ E.co = R.co
  BY <1>1, <1>2, Zenon DEF Rec
<1>4. /\ E.sched.ready = S.sched.ready /\ E.sched.waiting = S.sched.waiting
      /\ E.sched.events = rest /\ E.sched.busy = S.sched.busy
      /\ E.sched.phase = S.sched.phase /\ E.sched.last = S.sched.last
  <2>1. E.sched = [S.sched EXCEPT !.events = rest]
    BY <1>1, <1>3, Zenon
  <2> QED
    BY <2>1, Zenon DEF Rec
<1>5. StatusSet(S.co, E.co, a, {})
  <2>1. E.co = [S.co EXCEPT ![a].status = {}] /\ {} \in SUBSET Flags
    BY <1>1, <1>3, Zenon
  <2> QED
    BY <2>1, StatusIs, Zenon
<1> QED
  BY <1>1, <1>3, <1>4, <1>5, Zenon DEF Woken, rest

\* EPOLLHUP sets FDEOF in the status that nty_schedule_search_wait has reset.
LEMMA WokenEof ==
    ASSUME NEW S, NEW a \in Addr, NEW R, Woken(S, R, a, {}),
           NEW E, E = [R EXCEPT !.co[a].status = @ \cup {"FDEOF"}]
    PROVE  Woken(S, E, a, {"FDEOF"})
<1> DEFINE v == {"FDEOF"}
<1>1. Rec(R) /\ StatusSet(S.co, R.co, a, {})
  BY Zenon DEF Woken
<1>2. R.co \in [Addr -> Coroutine] /\ R.co[a].status \cup v = v
  BY <1>1, Zenon DEF StatusSet
<1>3. v \in SUBSET Flags
  BY DEF Flags
<1> HIDE DEF v
<1>4. /\ Rec(E) /\ E.asserted = R.asserted /\ E.sock = R.sock /\ E.child = R.child /\ E.epoll = R.epoll
      /\ E.sched = R.sched /\ E.co = [R.co EXCEPT ![a].status = R.co[a].status \cup v]
  BY <1>1, Zenon DEF Rec, v
<1>5. StatusSet(R.co, E.co, a, v)
  BY <1>2, <1>3, <1>4, StatusIs, Zenon
<1>6. StatusSet(S.co, E.co, a, v)
  BY <1>1, <1>5, Zenon DEF StatusSet
<1> QED
  BY <1>4, <1>6, Zenon DEF Woken, v

EnteredEvent(S, E, T, a, f, v) ==
    /\ Entered(S, T, a) /\ f \in DOMAIN S.sched.waiting /\ a \in Addr
    /\ S.co[a].stack.at \in Waits /\ f = WaitsFor(S.co[a].stack)
    /\ f = Listen => S.sock[Listen].data > 0
    /\ E.sock = S.sock /\ T.sock = E.sock
    /\ E.co[a].status = v /\ E.co[a].stack = S.co[a].stack
    /\ T.sched.ready = S.sched.ready /\ T.sched.phase = S.sched.phase /\ T.sched.last = S.sched.last
    /\ T.sched.events = EventsBefore(S)

LEMMA EnterEvent ==
    ASSUME NEW S, Inv(S, 0, {}), S.sched.busy = 0, NEW f, LastEvent(S, f),
           NEW a, a = S.sched.waiting[f], NEW v \in SUBSET Flags,
           NEW E, Woken(S, E, a, v), NEW T, T = PollDone(E, f)
    PROVE  EnteredEvent(S, E, T, a, f, v)
<1> DEFINE rest == EventsBefore(S)
<1>1. Typed(S) /\ Queue(S, 0) /\ Waiting(S, 0) /\ Places(S, 0) /\ Batch(S)
  BY Zenon DEF Inv
<1>2. /\ Rec(S) /\ S.sched.ready \in Seq(Addr) /\ S.co \in [Addr -> Coroutine] /\ S.sched.events \in Seq(Fds)
      /\ S.epoll = [g \in DOMAIN S.epoll |-> S.epoll[g]] /\ DOMAIN S.epoll = DOMAIN S.sched.waiting
  BY <1>1, Zenon DEF Typed
<1>3. Len(S.sched.events) \in DOMAIN S.sched.events /\ Without1(Fds, S.sched.events, rest, f)
  <2>1. \A i, j \in DOMAIN S.sched.events : S.sched.events[i] = S.sched.events[j] => i = j
    BY <1>1, Zenon DEF Batch
  <2> QED
    BY <1>2, <2>1, FrontWithout, Zenon DEF LastEvent, EventsBefore
<1>4. f \in DOMAIN S.sched.waiting /\ (f = Listen => S.sock[Listen].data > 0)
  BY <1>1, <1>3, Zenon DEF Batch, LastEvent
<1>5. 0 \notin Addr /\ Addr \ {0} = Addr
  BY Zero
<1>6. a \in Addr /\ WaitsAt(S, a, f)
  BY <1>1, <1>4, <1>5, Zenon DEF Waiting
<1>7. S.co[a].stack.at \in Waits /\ WaitsFor(S.co[a].stack) = f
  BY <1>6, Zenon DEF WaitsAt
<1>8. S.co[a] # Unused
  BY <1>7, UnusedHolds, Zenon DEF Waits
<1> HIDE DEF rest
<1>9. Rec(E) /\ E.asserted = S.asserted /\ E.sock = S.sock /\ E.child = S.child /\ E.epoll = S.epoll
  BY Zenon DEF Woken
<1>10. /\ E.sched.ready = S.sched.ready /\ E.sched.waiting = S.sched.waiting
       /\ E.sched.events = rest /\ E.sched.busy = S.sched.busy
       /\ E.sched.phase = S.sched.phase /\ E.sched.last = S.sched.last
  BY Zenon DEF Woken, rest
<1>11. /\ E.co \in [Addr -> Coroutine] /\ E.co[a].status = v /\ E.co[a].stack = S.co[a].stack
       /\ \A b \in Addr \ {a} : E.co[b] = S.co[b]
  BY Zenon DEF Woken, StatusSet
<1>12. Done(E, T, a, f)
  BY <1>6, <1>9, <1>10, <1>11, PollDoneIs, Zenon
<1>13. Taken(S, T, a)
  <2>1. \A b \in Addr \ {a} : T.co[b] = S.co[b]
    <3>1. \A b \in Addr \ {a} : T.co[b] = E.co[b]
      BY <1>12, Zenon DEF Done
    <3> QED
      BY <1>11, <3>1, Zenon
  <2> QED
    <3>1. /\ Rec(T) /\ T.asserted = E.asserted /\ T.sock = E.sock /\ T.child = E.child
          /\ T.co \in [Addr -> Coroutine] /\ T.co[a].status = {}
          /\ T.sched.busy = E.sched.busy /\ T.sched.phase = E.sched.phase /\ T.sched.last = E.sched.last
      BY <1>12, Zenon DEF Done
    <3> QED
      BY <1>9, <1>10, <2>1, <3>1, Zenon DEF Taken
<1>14. T.sched.ready = S.sched.ready /\ T.sched.phase = S.sched.phase /\ T.sched.last = S.sched.last
  BY <1>10, <1>12, Zenon DEF Done
<1>15. TakenReady(S, T, a)
  <2>1. ASSUME NEW i \in DOMAIN S.sched.ready
        PROVE  S.sched.ready[i] # a
    <3>1. S.co[S.sched.ready[i]].stack.at = "start"
      BY <1>1, Zenon DEF Queue
    <3> QED
      BY <1>7, <3>1, Zenon DEF Waits
  <2>2. \A i, j \in DOMAIN S.sched.ready : S.sched.ready[i] = S.sched.ready[j] => i = j
    BY <1>1, Zenon DEF Queue
  <2>3. Without1(Addr, S.sched.ready, S.sched.ready, a)
    BY <1>2, <2>1, <2>2, Zenon DEF Without1
  <2> QED
    BY <1>14, <2>3, Zenon DEF TakenReady
<1>16. /\ DOMAIN T.epoll = DOMAIN S.epoll \ {f} /\ DOMAIN T.sched.waiting = DOMAIN S.sched.waiting \ {f}
       /\ T.epoll = [g \in DOMAIN T.epoll |-> T.epoll[g]]
  BY <1>9, <1>10, <1>12, Zenon DEF Done
<1>17. \A g \in DOMAIN S.sched.waiting \ {f} : T.sched.waiting[g] = S.sched.waiting[g]
  <2>1. \A g \in DOMAIN E.sched.waiting \ {f} : T.sched.waiting[g] = E.sched.waiting[g]
    BY <1>12, Zenon DEF Done
  <2> QED
    BY <1>10, <2>1, Zenon
<1>18. \A g \in DOMAIN S.epoll \ {f} : T.epoll[g] = S.epoll[g]
  <2>1. \A g \in DOMAIN E.epoll \ {f} : T.epoll[g] = E.epoll[g]
    BY <1>12, Zenon DEF Done
  <2> QED
    BY <1>9, <2>1, Zenon
<1>19. TakenWait(S, T, a)
  <2> DEFINE w == S.sched.waiting
             u == T.sched.waiting
             e == S.epoll
             d == T.epoll
  <2>1. ASSUME NEW g \in DOMAIN w \ {f}
        PROVE  w[g] # a
    <3>1. WaitsAt(S, w[g], g)
      BY <1>1, <1>5, Zenon DEF Waiting
    <3>2. WaitsFor(S.co[w[g]].stack) = g
      BY <3>1, Zenon DEF WaitsAt
    <3> QED
      BY <1>7, <3>2, Zenon
  <2>2. w[f] = a /\ DOMAIN e = DOMAIN w /\ DOMAIN d = DOMAIN e \ {f} /\ DOMAIN u = DOMAIN w \ {f}
    BY <1>2, <1>16, Zenon
  <2>3. d = [g \in DOMAIN d |-> d[g]]
    BY <1>16, Zenon
  <2>4. (\A g \in DOMAIN w \ {f} : u[g] = w[g]) /\ \A g \in DOMAIN e \ {f} : d[g] = e[g]
    BY <1>17, <1>18, Zenon
  <2> HIDE DEF w, u, e, d
  <2>5. DOMAIN u \subseteq DOMAIN w /\ DOMAIN d = DOMAIN u
    BY <2>2, Zenon
  <2>6. ASSUME NEW g \in DOMAIN u
        PROVE  u[g] = w[g] /\ d[g] = e[g] /\ w[g] # a
    BY <2>1, <2>2, <2>4, Zenon
  <2>7. ASSUME NEW g \in DOMAIN w, w[g] # a
        PROVE  g \in DOMAIN u
    BY <2>2, <2>7, Zenon
  <2>8. WaitLeft(w, e, u, d, a)
    BY <2>3, <2>5, <2>6, <2>7, Zenon DEF WaitLeft
  <2> QED
    BY <2>8, Zenon DEF TakenWait, w, u, e, d
<1>20. T.sched.events = rest
  BY <1>10, <1>12, Zenon DEF Done
<1>21. TakenEvents(S, T)
  <2>1. ASSUME NEW i \in DOMAIN rest
        PROVE  rest[i] \in DOMAIN T.sched.waiting /\ \E j \in DOMAIN S.sched.events : S.sched.events[j] = rest[i]
    <3>1. rest[i] # f /\ \E j \in DOMAIN S.sched.events : S.sched.events[j] = rest[i]
      BY <1>3, Zenon DEF Without1
    <3>2. rest[i] \in DOMAIN S.sched.waiting
      BY <1>1, <3>1, Zenon DEF Batch
    <3> QED
      BY <1>16, <3>1, <3>2, Zenon
  <2>2. rest \in Seq(Fds) /\ \A i, j \in DOMAIN rest : rest[i] = rest[j] => i = j
    BY <1>3, Zenon DEF Without1
  <2>3. EventsLeft(S.sched.events, rest, DOMAIN T.sched.waiting)
    BY <2>1, <2>2, Zenon DEF EventsLeft
  <2> QED
    BY <1>20, <2>3, Zenon DEF TakenEvents
<1>22. Entered(S, T, a)
  BY <1>6, <1>8, <1>13, <1>15, <1>19, <1>21, EnterStep, Zenon
<1>23. T.sock = E.sock
  BY <1>12, Zenon DEF Done
<1> QED
  BY <1>4, <1>6, <1>7, <1>9, <1>11, <1>14, <1>20, <1>22, <1>23, Zenon DEF rest, EnteredEvent

\* The coroutine in sendfile's loop.
Resumed(S) == [S EXCEPT !.sched.busy = 0]

EnteredBusy(S, T, a) ==
    /\ Entered(S, T, a) /\ a \in Addr /\ S.co[a].stack.at = "sendfile"
    /\ T.sched.ready = S.sched.ready /\ T.sched.events = S.sched.events
    /\ T.sched.phase = S.sched.phase /\ T.sched.last = S.sched.last

LEMMA EnterBusy ==
    ASSUME NEW S, Inv(S, 0, {}), S.sched.busy # 0, NEW a, a = S.sched.busy, NEW T, T = Resumed(S)
    PROVE  EnteredBusy(S, T, a)
<1>1. Typed(S) /\ Queue(S, 0) /\ Waiting(S, 0) /\ Busy(S, 0) /\ Places(S, 0) /\ Batch(S)
  BY Zenon DEF Inv
<1>2. /\ Rec(S) /\ S.sched.ready \in Seq(Addr) /\ S.co \in [Addr -> Coroutine] /\ S.sched.events \in Seq(Fds)
      /\ S.epoll = [g \in DOMAIN S.epoll |-> S.epoll[g]] /\ DOMAIN S.epoll = DOMAIN S.sched.waiting
  BY <1>1, Zenon DEF Typed
<1>3. a \in Addr
  BY <1>1 DEF Typed, Addr
<1>4. S.co[a].stack.at = "sendfile"
  BY <1>1, Zenon DEF Busy
<1>5. S.co[a] # Unused
  BY <1>4, UnusedHolds, Zenon
<1>6. Addr \ {0} = Addr
  BY DEF Addr
<1>7. S.co[a].status \in {{}, {"READY"}}
  BY <1>1, <1>3, <1>4, <1>5, <1>6, Zenon DEF Places, InPlace
<1>8. /\ Rec(T) /\ T.asserted = S.asserted /\ T.sock = S.sock /\ T.child = S.child /\ T.epoll = S.epoll
      /\ T.sched = [S.sched EXCEPT !.busy = 0] /\ T.co = S.co
  BY <1>2, Zenon DEF Rec, Resumed
<1>9. /\ T.sched.ready = S.sched.ready /\ T.sched.waiting = S.sched.waiting
      /\ T.sched.events = S.sched.events /\ T.sched.busy = 0
      /\ T.sched.phase = S.sched.phase /\ T.sched.last = S.sched.last
  BY <1>2, <1>8, Zenon DEF Rec
<1>10. Taken(S, T, a)
  BY <1>2, <1>7, <1>8, <1>9, Zenon DEF Taken
<1>11. TakenReady(S, T, a)
  <2>1. ASSUME NEW i \in DOMAIN S.sched.ready
        PROVE  S.sched.ready[i] # a
    <3>1. S.co[S.sched.ready[i]].stack.at = "start"
      BY <1>1, Zenon DEF Queue
    <3> QED
      BY <1>4, <3>1, Zenon
  <2>2. \A i, j \in DOMAIN S.sched.ready : S.sched.ready[i] = S.sched.ready[j] => i = j
    BY <1>1, Zenon DEF Queue
  <2>3. Without1(Addr, S.sched.ready, S.sched.ready, a)
    BY <1>2, <2>1, <2>2, Zenon DEF Without1
  <2> QED
    BY <1>9, <2>3, Zenon DEF TakenReady
<1>12. TakenWait(S, T, a)
  <2>1. ASSUME NEW f \in DOMAIN S.sched.waiting
        PROVE  S.sched.waiting[f] # a
    <3>1. S.co[S.sched.waiting[f]].stack.at \in Waits
      BY <1>1, Zenon DEF Waiting, WaitsAt
    <3> QED
      BY <1>4, <3>1 DEF Waits
  <2>2. WaitLeft(S.sched.waiting, S.epoll, S.sched.waiting, S.epoll, a)
    BY <1>2, <2>1, Zenon DEF WaitLeft
  <2> QED
    BY <1>8, <1>9, <2>2, Zenon DEF TakenWait
<1>13. TakenEvents(S, T)
  <2>1. \A i, j \in DOMAIN S.sched.events : S.sched.events[i] = S.sched.events[j] => i = j
    BY <1>1, Zenon DEF Batch
  <2>2. \A i \in DOMAIN S.sched.events : S.sched.events[i] \in DOMAIN S.sched.waiting
    BY <1>1, Zenon DEF Batch
  <2>3. EventsLeft(S.sched.events, S.sched.events, DOMAIN S.sched.waiting)
    BY <1>2, <2>1, <2>2, Zenon DEF EventsLeft
  <2> QED
    BY <1>9, <2>3, Zenon DEF TakenEvents
<1>14. Entered(S, T, a)
  BY <1>3, <1>5, <1>10, <1>11, <1>12, <1>13, EnterStep, Zenon
<1> QED
  BY <1>3, <1>4, <1>9, <1>14, Zenon DEF EnteredBusy

=============================================================================
