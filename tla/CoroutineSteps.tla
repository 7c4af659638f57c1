--------------------------- MODULE CoroutineSteps ---------------------------
(***************************************************************************)
(* Each action of Coroutines preserves the invariant CoInv, from what       *)
(* CoroutineCalls shows of the calls that it consists of.                   *)
(***************************************************************************)
EXTENDS CoroutineCalls

\* The time the prover may take for a leaf; a few milliseconds are the rule.
USE SMTT(20)

-----------------------------------------------------------------------------
(* The functions of the coroutines, from a resume to the next yield.        *)

LEMMA KeepsRest ==
    ASSUME NEW S, NEW R, Rest(S, R)
    PROVE  Keeps(S, R)
BY Zenon DEF Rest, Keeps

\* What happened before the coroutine stopped.
LEMMA StoppedAfter ==
    ASSUME NEW S, NEW R, NEW T, Keeps(S, R), Stopped(R, T)
    PROVE  Stopped(S, T)
<1>1. Keeps(R, T) /\ Inv(T, 0, {})
  BY Zenon DEF Stopped
<1>2. \A i \in DOMAIN S.sched.ready : i \in DOMAIN T.sched.ready /\ T.sched.ready[i] = S.sched.ready[i]
  BY <1>1, Zenon DEF Keeps
<1> QED
  BY <1>1, <1>2, Zenon DEF Keeps, Stopped

\* A reader, or a saver, that runs and holds its one descriptor.
Works(S, a, fr) ==
    /\ Runs(S, a, {fr.fd}) /\ Alone(S, a, fr)
    /\ fr \in Frames /\ fr.pair = 0 /\ fr.fd \in Fds
    /\ \/ fr.role = "reader" /\ S.sock[fr.fd].kind = "conn"
       \/ fr.role = "saver" /\ S.sock[fr.fd].kind = "pair"

LEMMA FdNotListen ==
    ASSUME NEW S, NEW a, NEW H, Runs(S, a, H), NEW f \in Fds, S.sock[f].kind \in {"conn", "pair", "free"}
    PROVE  f # Listen
<1>1. Bounded(S, a, H)
  BY Zenon DEF Runs, Inv
<1> QED
  BY <1>1 DEF Bounded

\* The frame at another place.
LEMMA FrameAt ==
    ASSUME NEW fr \in Frames, NEW x \in {"start", "accept", "recv", "send", "child", "ready", "sendfile"},
           NEW nf, nf = [fr EXCEPT !.at = x]
    PROVE  nf \in Frames /\ nf.at = x /\ nf.role = fr.role /\ nf.fd = fr.fd /\ nf.pair = fr.pair
BY DEF Frames

LEMMA RecvAgainStep ==
    ASSUME NEW S, NEW a, NEW fr, Works(S, a, fr), NEW T, T = RecvAgain(S, a, fr)
    PROVE  Stopped(S, T)
<1> DEFINE nf == [fr EXCEPT !.at = "recv"]
<1>1. /\ Runs(S, a, {fr.fd}) /\ Alone(S, a, fr) /\ fr \in Frames /\ fr.pair = 0 /\ fr.fd \in Fds
      /\ \/ fr.role = "reader" /\ S.sock[fr.fd].kind = "conn"
         \/ fr.role = "saver" /\ S.sock[fr.fd].kind = "pair"
  BY DEF Works
<1>2. nf \in Frames /\ nf.at = "recv" /\ nf.role = fr.role /\ nf.fd = fr.fd /\ nf.pair = fr.pair
  BY <1>1, FrameAt
<1>3. T = PollYield(S, a, nf, fr.fd, "in")
  BY Zenon DEF RecvAgain
<1> HIDE DEF nf
<1>4. Fit(S, nf)
  BY <1>1, <1>2, Zenon DEF Fit
<1>5. Held(nf) = {fr.fd}
  BY <1>1, <1>2 DEF Held, Fds
<1>6. nf.at \in Waits /\ WaitsFor(nf) = fr.fd
  BY <1>2, Zenon DEF Waits, WaitsFor
<1>7. Alone(S, a, nf)
  BY <1>1, <1>2, Zenon DEF Alone
<1>8. "in" = IF nf.at = "send" THEN "out" ELSE "in"
  BY <1>2
<1> QED
  BY <1>1, <1>2, <1>3, <1>4, <1>5, <1>6, <1>7, <1>8, YieldStep, Zenon


\* The peer's buffer is full.
LEMMA WorksRoom ==
    ASSUME NEW S, NEW a, NEW fr, Works(S, a, fr),
           NEW R, R = Filled(S, fr.fd)
    PROVE  Works(R, a, fr) /\ Keeps(S, R) /\ R.co = S.co
<1>1. Runs(S, a, {fr.fd}) /\ fr.fd \in Fds /\ S.sock[fr.fd].kind \in {"conn", "pair"}
  BY Zenon DEF Works
<1>2. fr.fd # Listen
  BY <1>1, FdNotListen, Zenon
<1>3. fr.fd \in {fr.fd}
  BY Zenon
<1>4. Runs(R, a, {fr.fd}) /\ Rest(S, R) /\ \A f \in Fds : R.sock[f].kind = S.sock[f].kind
  <2>1. KindsKept(S, R, a, {fr.fd})
    BY <1>1, <1>2, <1>3, RoomStep, Zenon
  <2> QED
    BY <2>1, Zenon DEF KindsKept
<1>5. R.co = S.co
  BY <1>4, Zenon DEF Rest
<1>6. Alone(R, a, fr)
  BY <1>5, Zenon DEF Works, Alone
<1>7. Works(R, a, fr)
  BY <1>1, <1>4, <1>6, Zenon DEF Works
<1> QED
  BY <1>4, <1>5, <1>7, KeepsRest, Zenon

\* send, and the wait for room in the middle of it.
LEMMA ReplyStep ==
    ASSUME NEW S, NEW a, NEW fr, Works(S, a, fr), fr.role = "reader", NEW T \in Reply(S, a, fr)
    PROVE  Stopped(S, T)
<1> DEFINE R == Filled(S, fr.fd)
           nf == [fr EXCEPT !.at = "send"]
<1>1. T = RecvAgain(S, a, fr) \/ T = PollYield(R, a, nf, fr.fd, "out")
  BY Zenon DEF Reply, Filled
<1>2. CASE T = RecvAgain(S, a, fr)
  BY <1>2, RecvAgainStep, Zenon
<1>3. Works(R, a, fr) /\ Keeps(S, R)
  BY WorksRoom, Zenon
<1>4. fr \in Frames /\ fr.pair = 0 /\ fr.fd \in Fds
  BY Zenon DEF Works
<1>5. nf \in Frames /\ nf.at = "send" /\ nf.role = fr.role /\ nf.fd = fr.fd /\ nf.pair = fr.pair
  BY <1>4, FrameAt
<1> HIDE DEF nf, R
<1>6. CASE T = PollYield(R, a, nf, fr.fd, "out")
  <2>1. Runs(R, a, {fr.fd}) /\ R.sock[fr.fd].kind = "conn" /\ Alone(R, a, fr)
    BY <1>3 DEF Works
  <2>2. Fit(R, nf)
    BY <1>4, <1>5, <2>1, Zenon DEF Fit
  <2>3. Held(nf) = {fr.fd}
    BY <1>4, <1>5 DEF Held, Fds
  <2>4. nf.at \in Waits /\ WaitsFor(nf) = fr.fd
    BY <1>5, Zenon DEF Waits, WaitsFor
  <2>5. Alone(R, a, nf)
    BY <1>5, <2>1, Zenon DEF Alone
  <2>6. "out" = IF nf.at = "send" THEN "out" ELSE "in"
    BY <1>5
  <2>7. Stopped(R, T)
    BY <1>5, <1>6, <2>1, <2>2, <2>3, <2>4, <2>5, <2>6, YieldStep, Zenon
  <2> QED
    BY <1>3, <2>7, StoppedAfter, Zenon
<1> QED
  BY <1>1, <1>2, <1>6

\* The function returns: its descriptor is closed and the coroutine freed.
LEMMA EndStep ==
    ASSUME NEW S, NEW a, NEW fd \in Fds, Runs(S, a, {fd}), S.sock[fd].kind \in {"conn", "pair"},
           NEW T, T = Exit(Close(S, fd), a)
    PROVE  Stopped(S, T)
<1> DEFINE R == Close(S, fd)
<1>1. fd # Listen
  BY FdNotListen, Zenon
<1>2. fd \in {fd} /\ {fd} \ {fd} = {}
  OBVIOUS
<1>3. Runs(R, a, {fd} \ {fd}) /\ Rest(S, R)
  <2>1. HasClosed(S, R, a, {fd} \ {fd}, fd)
    BY <1>1, <1>2, CloseStep, Zenon
  <2> QED
    BY <2>1, Zenon DEF HasClosed
<1>4. T = Exit(R, a)
  BY Zenon
<1> DEFINE H == {fd} \ {fd}
<1> HIDE DEF R
<1>5. Runs(R, a, H) /\ H = {} /\ \A f \in H : R.sock[f].kind # "pair"
  BY <1>2, <1>3, Zenon
<1> HIDE DEF H
<1>6. Stopped(R, T)
  BY <1>4, <1>5, ExitStep, Zenon
<1> QED
  BY <1>3, <1>6, KeepsRest, StoppedAfter, Zenon

\* The rest of the answer is sent, or the client is gone.
LEMMA RepliedStep ==
    ASSUME NEW S, NEW a, NEW fr, Works(S, a, fr), NEW T \in Replied(S, a, fr)
    PROVE  Stopped(S, T)
<1>1. Runs(S, a, {fr.fd}) /\ fr.fd \in Fds /\ S.sock[fr.fd].kind \in {"conn", "pair"}
  BY Zenon DEF Works
<1>2. T = RecvAgain(S, a, fr) \/ T = Exit(Close(S, fr.fd), a)
  BY DEF Replied
<1>3. CASE T = RecvAgain(S, a, fr)
  BY <1>3, RecvAgainStep, Zenon
<1>4. CASE T = Exit(Close(S, fr.fd), a)
  BY <1>1, <1>4, EndStep, Zenon
<1> QED
  BY <1>2, <1>3, <1>4, Zenon

\* kvs_master_send_file.
LEMMA SendfileStep ==
    ASSUME NEW S, NEW a, NEW fr, Works(S, a, fr), fr.role = "reader",
           NEW T \in Sendfile(S, a, fr)
    PROVE  Stopped(S, T)
<1> DEFINE R == Filled(S, fr.fd)
           nf == [fr EXCEPT !.at = "sendfile"]
           B == [S EXCEPT !.sock[fr.fd].room = FALSE, !.sched.busy = a, !.co[a].stack = nf]
<1>1. /\ Runs(S, a, {fr.fd}) /\ fr.fd \in Fds /\ S.sock[fr.fd].kind \in {"conn", "pair"}
      /\ fr \in Frames /\ fr.pair = 0
  BY Zenon DEF Works
<1>2. T = Exit(Close(S, fr.fd), a) \/ T = B \/ T = RecvAgain(S, a, fr)
  <2>1. Sendfile(S, a, fr) = IF S.sock[fr.fd].hup THEN {Exit(Close(S, fr.fd), a)} ELSE {B, RecvAgain(S, a, fr)}
    BY Zenon DEF Sendfile
  <2> HIDE DEF B
  <2> QED
    BY <2>1
<1>3. CASE T = RecvAgain(S, a, fr)
  BY <1>3, RecvAgainStep, Zenon
<1>4. CASE T = Exit(Close(S, fr.fd), a)
  BY <1>1, <1>4, EndStep, Zenon
<1>5. Works(R, a, fr) /\ Keeps(S, R) /\ R.co = S.co
  BY WorksRoom, Zenon
<1>6. nf \in Frames /\ nf.at = "sendfile" /\ nf.role = fr.role /\ nf.fd = fr.fd /\ nf.pair = fr.pair
  BY <1>1, FrameAt
<1>7. CASE T = B
  <2>1. T = KeepsThread(R, a, nf)
    BY <1>7, Zenon DEF KeepsThread, Filled
  <2> HIDE DEF R, nf, B
  <2>2. Runs(R, a, {fr.fd}) /\ R.sock[fr.fd].kind = "conn"
    BY <1>5 DEF Works
  <2>3. Fit(R, nf)
    BY <1>1, <1>6, <2>2, Zenon DEF Fit
  <2>4. Held(nf) = {fr.fd}
    BY <1>1, <1>6 DEF Held, Fds
  <2>5. nf.role = "reader" /\ nf.pair = 0 /\ nf \in Frames /\ nf.at = "sendfile"
    BY <1>1, <1>5, <1>6, Zenon
  <2>6. Stopped(R, T)
    BY <2>1, <2>2, <2>3, <2>4, <2>5, BusyStep, Zenon
  <2> QED
    BY <1>5, <2>6, StoppedAfter, Zenon
<1> QED
  BY <1>2, <1>3, <1>4, <1>7, Zenon


\* What a client sent is read.
LEMMA WorksData ==
    ASSUME NEW S, NEW a, NEW fr, Works(S, a, fr), NEW R, R = Emptied(S, fr.fd)
    PROVE  Works(R, a, fr) /\ Keeps(S, R) /\ R.co = S.co
<1>1. Runs(S, a, {fr.fd}) /\ fr.fd \in Fds /\ S.sock[fr.fd].kind \in {"conn", "pair"}
  BY Zenon DEF Works
<1>2. fr.fd # Listen
  BY <1>1, FdNotListen, Zenon
<1>3. fr.fd \in {fr.fd}
  BY Zenon
<1>4. Runs(R, a, {fr.fd}) /\ Rest(S, R) /\ \A f \in Fds : R.sock[f].kind = S.sock[f].kind
  <2>1. KindsKept(S, R, a, {fr.fd})
    BY <1>1, <1>2, <1>3, DataStep, Zenon
  <2> QED
    BY <2>1, Zenon DEF KindsKept
<1>5. R.co = S.co
  BY <1>4, Zenon DEF Rest
<1>6. Alone(R, a, fr)
  BY <1>5, Zenon DEF Works, Alone
<1>7. Works(R, a, fr)
  BY <1>1, <1>4, <1>6, Zenon DEF Works
<1> QED
  BY <1>4, <1>5, <1>7, KeepsRest, Zenon

\* A coroutine that is not in use is neither a saver nor waits for a child.
LEMMA NotRunning ==
    ASSUME NEW S, NEW a, NEW H, Runs(S, a, H)
    PROVE  /\ ~Running(S, Save) => \A b \in Addr \ {a} : S.co[b].stack.role # "saver"
           /\ ~Running(S, Sync) => \A b \in Addr \ {a} : S.co[b].stack.at # "child"
<1>1. Places(S, a)
  BY Zenon DEF Runs, Inv
<1>2. ASSUME NEW b \in Addr \ {a}, S.co[b].stack.role = "saver" \/ S.co[b].stack.at = "child"
      PROVE  b \in Alive(S)
  <2>1. S.co[b] # Unused
    BY <1>2, UnusedHolds
  <2>2. S.co[b].status # {"FREE"}
    BY <1>1, <2>1, Zenon DEF Places
  <2> QED
    BY <2>2, Zenon DEF Alive, Addr
<1>3. ASSUME NEW b \in Addr \ {a}, S.co[b].stack.role = "saver"
      PROVE  Running(S, Save)
  BY <1>2, <1>3, Zenon DEF Running, Save
<1>4. ASSUME NEW b \in Addr \ {a}, S.co[b].stack.at = "child"
      PROVE  Running(S, Sync)
  BY <1>2, <1>4, Zenon DEF Running, Save, Sync
<1> QED
  BY <1>3, <1>4


LEMMA FrameIs ==
    ASSUME NEW role \in {"reader", "saver"}, NEW f \in Fds, NEW fr, fr = Frame(role, "start", f, 0)
    PROVE  fr \in Frames /\ fr.role = role /\ fr.at = "start" /\ fr.fd = f /\ fr.pair = 0
BY CoroutinesAssumption DEF Frame, Frames, Fds

FrameOf(fr, role, at, fd, pair) ==
    fr \in Frames /\ fr.role = role /\ fr.at = at /\ fr.fd = fd /\ fr.pair = pair

LEMMA FrameWith ==
    ASSUME NEW fr \in Frames, NEW x \in {"child", "ready"}, NEW p \in 0..MaxFd,
           NEW nf, nf = [fr EXCEPT !.at = x, !.pair = p]
    PROVE  FrameOf(nf, fr.role, x, fr.fd, p)
<1> DEFINE m == [fr EXCEPT !.at = x]
<1>1. m \in Frames /\ m.at = x /\ m.role = fr.role /\ m.fd = fr.fd /\ m.pair = fr.pair
  BY FrameAt
<1>2. nf = [m EXCEPT !.pair = p]
  BY Zenon
<1> HIDE DEF m
<1>3. nf \in Frames /\ nf.at = m.at /\ nf.role = m.role /\ nf.fd = m.fd /\ nf.pair = p
  BY <1>1, <1>2, Zenon DEF Frames
<1> QED
  BY <1>1, <1>3 DEF FrameOf

ForksHolding(S, R, a, fd) ==
    /\ HasForked(S, R, a, {fd}, FreeFd(S)) /\ FreeFd(S) # fd
    /\ R.sock[fd].kind = S.sock[fd].kind /\ R.co = S.co /\ Keeps(S, R)
    /\ \E n \in Addr : R.co[n] = Unused

\* A fork by a coroutine that holds fd: there is a descriptor for the pair, and
\* there is room for a coroutine that waits for the child.
LEMMA ForkHolding ==
    ASSUME NEW S, NEW a, NEW fd \in Fds, Runs(S, a, {fd}), NEW g, SaverFd(S, a, g),
           S.sock[fd].kind = "conn" \/ (S.sock[fd].kind = "pair" /\ fd = g),
           NEW k \in {Save, Sync}, NEW R, R = Forked(S, k)
    PROVE  ForksHolding(S, R, a, fd)
<1> DEFINE p == FreeFd(S)
<1>1. Inv(S, a, {fd}) /\ a \in Addr
  BY Zenon DEF Runs
<1>2. \A f \in {fd} : S.sock[f].kind = "pair" => f = g
  BY Zenon
<1>3. PICK h \in Fds : S.sock[h].kind = "free"
  BY <1>1, <1>2, FreeThere
<1>4. HasForked(S, R, a, {fd}, p)
  BY <1>3, ForkStep, Zenon
<1> HIDE DEF p
<1>5. p # fd /\ Rest(S, R) /\ Runs(R, a, {fd} \cup {p}) /\ R.sock[fd] = S.sock[fd]
  BY <1>4 DEF HasForked
<1>6. R.co = S.co
  BY <1>5, Zenon DEF Rest
<1>7. Inv(R, a, {fd} \cup {p}) /\ SaverFd(R, a, g)
  BY <1>5, <1>6, Zenon DEF Runs, SaverFd
<1>8. fd \in {fd} \cup {p} /\ fd \in Conns(R) \cup {Listen, g}
  BY <1>5 DEF Conns
<1>9. \E n \in Addr : R.co[n] = Unused
  BY <1>1, <1>7, <1>8, AddressThere, Zenon
<1>10. Keeps(S, R)
  BY <1>5, KeepsRest, Zenon
<1> QED
  BY <1>4, <1>5, <1>6, <1>9, <1>10, Zenon DEF p, ForksHolding

\* SAVE: the saver gets the pair, and the reader answers.
LEMMA SaveStep ==
    ASSUME NEW S, NEW a, NEW fr, Works(S, a, fr), fr.role = "reader", fr.at # "child", ~Running(S, Save),
           NEW T \in Reply(nty_coroutine_create(Forked(S, Save), Frame("saver", "start", FreeFd(S), 0)), a, fr)
    PROVE  Stopped(S, T)
<1> DEFINE p == FreeFd(S)
           R == Forked(S, Save)
           nf == Frame("saver", "start", p, 0)
           C == nty_coroutine_create(R, nf)
<1>1. Runs(S, a, {fr.fd}) /\ fr.fd \in Fds /\ S.sock[fr.fd].kind = "conn" /\ fr \in Frames /\ fr.pair = 0
  BY Zenon DEF Works
<1>2. \A b \in Addr \ {a} : S.co[b].stack.role # "saver"
  BY <1>1, NotRunning, Zenon
<1>3. SaverFd(S, a, 0)
  BY <1>2, Zenon DEF SaverFd
<1>4. Save \in {Save, Sync}
  BY Zenon
<1>5. /\ HasForked(S, R, a, {fr.fd}, p) /\ p # fr.fd
      /\ R.sock[fr.fd].kind = S.sock[fr.fd].kind /\ R.co = S.co /\ Keeps(S, R)
      /\ \E n \in Addr : R.co[n] = Unused
  <2>1. ForksHolding(S, R, a, fr.fd)
    BY <1>1, <1>3, <1>4, ForkHolding, Zenon
  <2> QED
    BY <2>1, Zenon DEF ForksHolding
<1>6. T \in Reply(C, a, fr)
  BY Zenon
<1> HIDE DEF p, R
<1>7. Runs(R, a, {fr.fd} \cup {p}) /\ p \in Fds /\ R.sock[p].kind = "pair"
  BY <1>5, Zenon DEF HasForked
<1>8. nf \in Frames /\ nf.role = "saver" /\ nf.at = "start" /\ nf.fd = p /\ nf.pair = 0
  BY <1>7, FrameIs
<1> HIDE DEF nf
<1>9. Fit(R, nf)
  BY <1>7, <1>8, Zenon DEF Fit
<1>10. nf.fd \in {fr.fd} \cup {p} /\ ({fr.fd} \cup {p}) \ {nf.fd} = {fr.fd}
  BY <1>5, <1>8
<1>11. \A b \in Addr \ {a} : R.co[b].stack.role # "saver"
  BY <1>2, <1>5, Zenon
<1>12. HasCreated(R, C, a, ({fr.fd} \cup {p}) \ {nf.fd})
  BY <1>5, <1>7, <1>8, <1>9, <1>10, <1>11, CreateStep, Zenon
<1> HIDE DEF C
<1>13. Runs(C, a, {fr.fd}) /\ Keeps(R, C) /\ C.sock = R.sock
  BY <1>10, <1>12, Zenon DEF HasCreated
<1>14. Works(C, a, fr)
  <2>1. Alone(C, a, fr)
    BY Zenon DEF Alone
  <2> QED
    BY <1>1, <1>5, <1>13, <2>1, Zenon DEF Works
<1>15. Stopped(C, T)
  BY <1>6, <1>14, ReplyStep, Zenon
<1>16. Stopped(R, T)
  BY <1>13, <1>15, StoppedAfter, Zenon
<1> QED
  BY <1>5, <1>16, StoppedAfter, Zenon

\* SYNC: the reader waits for its child.
LEMMA SyncStep ==
    ASSUME NEW S, NEW a, NEW fr, Works(S, a, fr), fr.role = "reader", ~Running(S, Sync),
           NEW T, T = PollYield(Forked(S, Sync), a, [fr EXCEPT !.at = "child", !.pair = FreeFd(S)], FreeFd(S), "in")
    PROVE  Stopped(S, T)
<1> DEFINE p == FreeFd(S)
           R == Forked(S, Sync)
           nf == [fr EXCEPT !.at = "child", !.pair = p]
<1>1. Runs(S, a, {fr.fd}) /\ fr.fd \in Fds /\ S.sock[fr.fd].kind = "conn" /\ fr \in Frames /\ fr.pair = 0
  BY DEF Works
<1>2. \A b \in Addr \ {a} : S.co[b].stack.at # "child"
  BY <1>1, NotRunning, Zenon
<1>3. PICK g : SaverFd(S, a, g)
  BY <1>1, OneSaverFd DEF Runs
<1>4. Sync \in {Save, Sync}
  BY Zenon
<1>5. /\ HasForked(S, R, a, {fr.fd}, p) /\ p # fr.fd
      /\ R.sock[fr.fd].kind = S.sock[fr.fd].kind /\ R.co = S.co /\ Keeps(S, R)
  <2>1. ForksHolding(S, R, a, fr.fd)
    BY <1>1, <1>3, <1>4, ForkHolding, Zenon
  <2> QED
    BY <2>1, Zenon DEF ForksHolding
<1>6. T = PollYield(R, a, nf, p, "in")
  BY Zenon
<1> HIDE DEF p, R
<1>7. Runs(R, a, {fr.fd} \cup {p}) /\ p \in Fds /\ R.sock[p].kind = "pair"
  BY <1>5, Zenon DEF HasForked
<1>8. nf \in Frames /\ nf.role = "reader" /\ nf.at = "child" /\ nf.fd = fr.fd /\ nf.pair = p
  <2>1. p \in 0..MaxFd
    BY <1>7 DEF Fds
  <2> QED
    <3>1. FrameOf(nf, fr.role, "child", fr.fd, p)
      BY <1>1, <2>1, FrameWith, Zenon
    <3> QED
      BY <3>1, Zenon DEF FrameOf
<1> HIDE DEF nf
<1>9. Fit(R, nf)
  BY <1>1, <1>5, <1>7, <1>8, Zenon DEF Fit
<1>10. {fr.fd} \cup {p} = Held(nf)
  BY <1>1, <1>7, <1>8, HeldIs, Zenon
<1>11. Alone(R, a, nf)
  BY <1>2, <1>5, <1>8, Zenon DEF Alone
<1>12. nf.at \in Waits /\ p = WaitsFor(nf) /\ "in" = IF nf.at = "send" THEN "out" ELSE "in"
  BY <1>8 DEF Waits, WaitsFor
<1>13. Stopped(R, T)
  BY <1>6, <1>7, <1>8, <1>9, <1>10, <1>11, <1>12, YieldStep, Zenon
<1> QED
  BY <1>5, <1>13, StoppedAfter, Zenon

LEMMA CommandsStep ==
    ASSUME NEW S, NEW a, NEW fr, Works(S, a, fr), fr.role = "reader", fr.at # "child",
           NEW T \in Commands(S, a, fr)
    PROVE  Stopped(S, T)
<1> DEFINE X == Reply(nty_coroutine_create(Forked(S, Save), Frame("saver", "start", FreeFd(S), 0)), a, fr)
           y == PollYield(Forked(S, Sync), a, [fr EXCEPT !.at = "child", !.pair = FreeFd(S)], FreeFd(S), "in")
           z == Exit(Close(S, fr.fd), a)
<1>1. Commands(S, a, fr) = Reply(S, a, fr) \cup {z}
                             \cup (IF S.forks < MaxForks /\ ~Running(S, Save) THEN X ELSE {})
                             \cup (IF S.forks < MaxForks /\ ~Running(S, Sync) THEN {y} ELSE {})
  BY Zenon DEF Commands
<1> HIDE DEF X, y, z
<1>2. \/ T \in Reply(S, a, fr) \/ T = z
      \/ ~Running(S, Save) /\ T \in X
      \/ ~Running(S, Sync) /\ T = y
  BY <1>1
<1>3. CASE T \in Reply(S, a, fr)
  BY <1>3, ReplyStep, Zenon
<1>4. CASE T = z
  <2>1. Runs(S, a, {fr.fd}) /\ fr.fd \in Fds /\ S.sock[fr.fd].kind \in {"conn", "pair"}
    BY Zenon DEF Works
  <2> QED
    BY <1>4, <2>1, EndStep, Zenon DEF z
<1>5. CASE ~Running(S, Save) /\ T \in X
  BY <1>5, SaveStep, Zenon DEF X
<1>6. CASE ~Running(S, Sync) /\ T = y
  BY <1>6, SyncStep, Zenon DEF y
<1> QED
  BY <1>2, <1>3, <1>4, <1>5, <1>6, Zenon


\* server, at its first accept.
LEMMA ServerStart ==
    ASSUME NEW S, NEW a, NEW fr, FrameOf(fr, "server", "start", Listen, 0), Runs(S, a, {Listen}),
           NEW T \in RunServer(S, a, fr)
    PROVE  Stopped(S, T)
<1> DEFINE nf == [fr EXCEPT !.at = "accept"]
<1>1. fr \in Frames /\ fr.role = "server" /\ fr.at = "start" /\ fr.fd = Listen /\ fr.pair = 0
  BY Zenon DEF FrameOf
<1>2. RunServer(S, a, fr) = {PollYield(S, a, nf, Listen, "in")}
  BY <1>1, Zenon DEF RunServer
<1>3. nf \in Frames /\ nf.at = "accept" /\ nf.role = fr.role /\ nf.fd = fr.fd /\ nf.pair = fr.pair
  BY <1>1, FrameAt
<1> HIDE DEF nf
<1>4. T = PollYield(S, a, nf, Listen, "in")
  BY <1>2, Zenon
<1>5. Fit(S, nf)
  BY <1>1, <1>3, Zenon DEF Fit
<1>6. {Listen} = Held(nf)
  BY <1>1, <1>3 DEF Held, Listen
<1>7. Alone(S, a, nf)
  BY <1>1, <1>3, Zenon DEF Alone
<1>8. nf.at \in Waits /\ Listen = WaitsFor(nf) /\ "in" = IF nf.at = "send" THEN "out" ELSE "in"
  BY <1>1, <1>3, Zenon DEF Waits, WaitsFor
<1> QED
  BY <1>3, <1>4, <1>5, <1>6, <1>7, <1>8, YieldStep, Zenon

\* server, from accept to accept, or to its end.
LEMMA ServerStep ==
    ASSUME NEW E, NEW a, NEW fr, FrameOf(fr, "server", "accept", Listen, 0),
           NEW S, S = PollDone(E, Listen), S.sock = E.sock, Runs(S, a, {Listen}), S.sock[Listen].data > 0,
           NEW T \in RunServer(E, a, fr)
    PROVE  Stopped(S, T)
<1> DEFINE p == FreeFd(E)
           A == Accept(E)
           nf == Frame("reader", "start", p, 0)
           C == nty_coroutine_create(A, nf)
<1>1. fr \in Frames /\ fr.role = "server" /\ fr.at = "accept" /\ fr.fd = Listen /\ fr.pair = 0
  BY Zenon DEF FrameOf
<1>2. T = PollYield(C, a, fr, Listen, "in") \/ T = Exit(A, a)
  <2>1. RunServer(E, a, fr) = {PollYield(C, a, fr, Listen, "in")}
                                \cup (IF "nomem" \in Faults THEN {Exit(A, a)} ELSE {})
    BY <1>1, Zenon DEF RunServer
  <2> HIDE DEF A, C
  <2> QED
    BY <2>1, Zenon
<1>3. A = Accepted(S, p)
  BY Zenon DEF Accept, Accepted
<1>4. p \in Fds /\ S.sock[p].kind = "free"
  <2>1. Inv(S, a, {Listen}) /\ S.sock[Listen].kind = "listen"
    <3>1. Inv(S, a, {Listen}) /\ Bounded(S, a, {Listen})
      BY Zenon DEF Runs, Inv
    <3> QED
      BY <3>1, ListenFd, Zenon DEF Bounded, ListenIs
  <2>2. PICK g : SaverFd(S, a, g)
    BY <2>1, OneSaverFd, Zenon
  <2>3. \A f \in {Listen} : S.sock[f].kind = "pair" => f = g
    BY <2>1, Zenon
  <2>4. \E f \in Fds : S.sock[f].kind = "free"
    BY <2>1, <2>2, <2>3, FreeThere, Zenon
  <2> QED
    BY <2>1, <2>4, FreeFdIs, Zenon DEF Runs, Inv, Bounded
<1> HIDE DEF p, A
<1>5. HasAccepted(S, A, a, p)
  BY <1>3, <1>4, AcceptStep, Zenon
<1>6. /\ Runs(A, a, {Listen, p}) /\ Rest(S, A) /\ p # Listen
      /\ A.sock[p].kind = "conn" /\ A.sock[Listen].kind = "listen"
  BY <1>5, Zenon DEF HasAccepted
<1>7. Keeps(S, A)
  BY <1>6, KeepsRest, Zenon
<1>8. CASE T = Exit(A, a)
  <2>1. /\ {Listen, p} = {} \/ Listen \in {Listen, p}
        /\ \A f \in {Listen, p} : A.sock[f].kind # "pair"
    BY <1>6, Zenon
  <2>2. Stopped(A, T)
    BY <1>6, <1>8, <2>1, ExitStep
  <2> QED
    BY <1>7, <2>2, StoppedAfter, Zenon
<1>9. CASE T = PollYield(C, a, fr, Listen, "in")
  <2>1. nf \in Frames /\ nf.role = "reader" /\ nf.at = "start" /\ nf.fd = p /\ nf.pair = 0
    BY <1>4, FrameIs
  <2> HIDE DEF nf
  <2>2. Fit(A, nf)
    BY <1>4, <1>6, <2>1, Zenon DEF Fit
  <2>3. nf.fd \in {Listen, p} /\ {Listen, p} \ {nf.fd} = {Listen}
    BY <1>6, <2>1, Zenon
  <2>4. \E n \in Addr : A.co[n] = Unused
    <3>1. Inv(A, a, {Listen, p}) /\ a \in Addr
      BY <1>6, Zenon DEF Runs
    <3>2. PICK g : SaverFd(A, a, g)
      BY <3>1, OneSaverFd, Zenon
    <3>3. Listen \in {Listen, p} /\ Listen \in Conns(A) \cup {Listen, g}
      BY Zenon
    <3> QED
      BY <3>1, <3>2, <3>3, AddressThere, Zenon
  <2>5. nf.role # "saver"
    BY <2>1
  <2>6. HasCreated(A, C, a, {Listen, p} \ {nf.fd})
    BY <1>6, <2>1, <2>2, <2>3, <2>4, <2>5, CreateStep, Zenon
  <2> HIDE DEF C
  <2>7. Runs(C, a, {Listen}) /\ Keeps(A, C)
    BY <2>3, <2>6, Zenon DEF HasCreated
  <2>8. Fit(C, fr)
    BY <1>1, Zenon DEF Fit
  <2>9. {Listen} = Held(fr)
    BY <1>1 DEF Held, Listen
  <2>10. Alone(C, a, fr)
    BY <1>1, Zenon DEF Alone
  <2>11. fr.at \in Waits /\ Listen = WaitsFor(fr) /\ "in" = IF fr.at = "send" THEN "out" ELSE "in"
    BY <1>1 DEF Waits, WaitsFor
  <2>12. Stopped(C, T)
    BY <1>1, <1>9, <2>7, <2>8, <2>9, <2>10, <2>11, YieldStep, Zenon
  <2>13. Stopped(A, T)
    BY <2>7, <2>12, StoppedAfter, Zenon
  <2> QED
    BY <1>7, <2>13, StoppedAfter, Zenon
<1> QED
  BY <1>2, <1>8, <1>9, Zenon


\* server_reader and kvs_save_child_done, at their first recv.
LEMMA ReaderStart ==
    ASSUME NEW S, NEW a, NEW fr, Works(S, a, fr), fr.at = "start",
           NEW T, \/ fr.role = "reader" /\ T \in RunReader(S, a, fr)
                  \/ fr.role = "saver" /\ T \in RunSaver(S, a, fr)
    PROVE  Stopped(S, T)
<1>1. T = RecvAgain(S, a, fr)
  <2>1. CASE fr.role = "reader" /\ T \in RunReader(S, a, fr)
    <3>1. RunReader(S, a, fr) = {RecvAgain(S, a, fr)}
      BY Zenon DEF RunReader
    <3> QED
      BY <2>1, <3>1, Zenon
  <2>2. CASE fr.role = "saver" /\ T \in RunSaver(S, a, fr)
    <3>1. RunSaver(S, a, fr) = {RecvAgain(S, a, fr)}
      BY Zenon DEF RunSaver
    <3> QED
      BY <2>2, <3>1, Zenon
  <2> QED
    BY <2>1, <2>2, Zenon
<1> QED
  BY <1>1, RecvAgainStep, Zenon

\* server_reader after a wait for its client.
LEMMA ReaderStep ==
    ASSUME NEW E, NEW a, NEW fr, fr.role = "reader", fr.at \in {"recv", "send", "ready"},
           NEW S, S = PollDone(E, fr.fd), Works(S, a, fr),
           NEW T \in RunReader(E, a, fr)
    PROVE  Stopped(S, T)
<1> DEFINE R == Recv(E, fr.fd)
           z == Exit(Close(R, fr.fd), a)
<1>1. R = Emptied(S, fr.fd)
  BY Zenon DEF Recv, Emptied
<1>2. \/ fr.at = "recv" /\ (T \in Commands(R, a, fr) \/ T = z)
      \/ fr.at = "send" /\ T \in Replied(S, a, fr)
      \/ fr.at = "ready" /\ (T \in Sendfile(R, a, fr) \/ T = z)
  <2>1. CASE fr.at = "recv"
    <3>1. RunReader(E, a, fr) = IF E.sock[fr.fd].data > 0 THEN Commands(R, a, fr) ELSE {z}
      BY <2>1, Zenon DEF RunReader
    <3> HIDE DEF R, z
    <3> QED
      BY <2>1, <3>1, Zenon
  <2>2. CASE fr.at = "send"
    <3>1. RunReader(E, a, fr) = Replied(S, a, fr)
      BY <2>2, Zenon DEF RunReader
    <3> QED
      BY <2>2, <3>1, Zenon
  <2>3. CASE fr.at = "ready"
    <3>1. RunReader(E, a, fr) = (IF E.sock[fr.fd].data > 0 THEN Sendfile(R, a, fr) ELSE {}) \cup {z}
      BY <2>3, Zenon DEF RunReader
    <3> HIDE DEF R, z
    <3> QED
      BY <2>3, <3>1, Zenon
  <2> QED
    BY <2>1, <2>2, <2>3, Zenon
<1> HIDE DEF R
<1>3. Works(R, a, fr) /\ Keeps(S, R)
  BY <1>1, WorksData, Zenon
<1>4. CASE T = z
  <2>1. Runs(R, a, {fr.fd}) /\ fr.fd \in Fds /\ R.sock[fr.fd].kind \in {"conn", "pair"}
    BY <1>3, Zenon DEF Works
  <2>2. Stopped(R, T)
    BY <1>4, <2>1, EndStep, Zenon
  <2> QED
    BY <1>3, <2>2, StoppedAfter, Zenon
<1> HIDE DEF z
<1>5. CASE fr.at = "recv" /\ T \in Commands(R, a, fr)
  <2>1. fr.at # "child"
    BY <1>5
  <2>2. Stopped(R, T)
    BY <1>3, <1>5, <2>1, CommandsStep, Zenon
  <2> QED
    BY <1>3, <2>2, StoppedAfter, Zenon
<1>6. CASE fr.at = "send" /\ T \in Replied(S, a, fr)
  BY <1>6, RepliedStep, Zenon
<1>7. CASE fr.at = "ready" /\ T \in Sendfile(R, a, fr)
  <2>1. Stopped(R, T)
    BY <1>3, <1>7, SendfileStep, Zenon
  <2> QED
    BY <1>3, <2>1, StoppedAfter, Zenon
<1> QED
  BY <1>2, <1>4, <1>5, <1>6, <1>7, Zenon

LEMMA FramePair ==
    ASSUME NEW fr \in Frames, NEW nf, nf = [fr EXCEPT !.pair = 0]
    PROVE  FrameOf(nf, fr.role, fr.at, fr.fd, 0)
BY CoroutinesAssumption DEF Frames, FrameOf

\* kvs_master_full_sync after the wait for its child: the pair is closed.
LEMMA ChildStep ==
    ASSUME NEW E, NEW a, NEW fr, fr.role = "reader", fr.at = "child", fr \in Frames,
           NEW S, S = PollDone(E, fr.pair), Runs(S, a, Held(fr)), Fit(S, fr), Alone(S, a, fr),
           NEW T \in RunReader(E, a, fr)
    PROVE  Stopped(S, T)
<1> DEFINE q == fr.pair
           R == Recv(E, q)
           C == Close(R, q)
           rf == [fr EXCEPT !.at = "ready", !.pair = 0]
           nf == [fr EXCEPT !.pair = 0]
           z == Exit(Close(C, fr.fd), a)
<1>1. R = Emptied(S, q)
  BY Zenon DEF Recv, Emptied
<1>2. T = PollYield(C, a, rf, fr.fd, "in") \/ T \in Reply(C, a, nf) \/ T = z
  <2>1. RunReader(E, a, fr) = IF E.sock[q].data > 0 THEN {PollYield(C, a, rf, fr.fd, "in")} \cup Reply(C, a, nf)
                              ELSE {z}
    BY Zenon DEF RunReader
  <2> HIDE DEF R, C, rf, nf, z
  <2> QED
    BY <2>1, Zenon
<1>3. FrameOf(rf, fr.role, "ready", fr.fd, 0) /\ FrameOf(nf, fr.role, fr.at, fr.fd, 0)
  <2>1. 0 \in 0..MaxFd
    BY CoroutinesAssumption
  <2>2. FrameOf(rf, fr.role, "ready", fr.fd, 0)
    BY <2>1, FrameWith, Zenon
  <2>3. FrameOf(nf, fr.role, fr.at, fr.fd, 0)
    BY FramePair, Zenon
  <2> QED
    BY <2>2, <2>3, Zenon
<1> HIDE DEF rf, nf
<1>4. /\ fr.fd \in Fds /\ S.sock[fr.fd].kind = "conn" /\ fr.pair \in Fds /\ S.sock[fr.pair].kind = "pair"
  BY Zenon DEF Fit
<1>5. Held(fr) = {fr.fd, q} /\ fr.fd # q /\ q \in Held(fr) /\ Held(fr) \ {q} = {fr.fd}
  BY <1>4 DEF Held, Fds
<1>6. q # Listen
  BY <1>4, FdNotListen, Zenon
<1>7. KindsKept(S, R, a, Held(fr))
  BY <1>1, <1>5, <1>6, DataStep, Zenon
<1> HIDE DEF R
<1>8. Runs(R, a, Held(fr)) /\ Rest(S, R) /\ R.sock[fr.fd].kind = "conn"
  BY <1>4, <1>7, Zenon DEF KindsKept
<1>9. Runs(C, a, Held(fr) \ {q}) /\ Rest(R, C) /\ C.sock[fr.fd] = R.sock[fr.fd]
  <2>1. /\ Runs(C, a, Held(fr) \ {q}) /\ Rest(R, C) /\ C.child = R.child
        /\ \A f \in Fds \ {q} : C.sock[f] = R.sock[f]
    <3>1. HasClosed(R, C, a, Held(fr) \ {q}, q)
      BY <1>5, <1>6, <1>8, CloseStep, Zenon
    <3> QED
      BY <3>1, Zenon DEF HasClosed
  <2> HIDE DEF C
  <2> QED
    BY <1>4, <1>5, <2>1, Zenon
<1> HIDE DEF C
<1>10. Runs(C, a, {fr.fd}) /\ C.sock[fr.fd].kind = "conn" /\ C.co = S.co
  BY <1>5, <1>8, <1>9, Zenon DEF Rest
<1>11. ASSUME Stopped(C, T)
       PROVE  Stopped(S, T)
  <2>1. Keeps(R, C) /\ Keeps(S, R)
    BY <1>8, <1>9, KeepsRest, Zenon
  <2>2. Stopped(R, T)
    BY <1>11, <2>1, StoppedAfter, Zenon
  <2> QED
    BY <2>1, <2>2, StoppedAfter, Zenon
<1>12. Alone(C, a, nf) /\ Alone(C, a, rf)
  BY <1>3, <1>10, Zenon DEF Alone, FrameOf
<1>13. CASE T = PollYield(C, a, rf, fr.fd, "in")
  <2>1. rf \in Frames /\ rf.role = "reader" /\ rf.at = "ready" /\ rf.fd = fr.fd /\ rf.pair = 0
    BY <1>3, Zenon DEF FrameOf
  <2>2. Fit(C, rf)
    BY <1>4, <1>10, <2>1, Zenon DEF Fit
  <2>3. {fr.fd} = Held(rf)
    BY <1>4, <2>1, HeldIs, Zenon
  <2>4. rf.at \in Waits /\ fr.fd = WaitsFor(rf) /\ "in" = IF rf.at = "send" THEN "out" ELSE "in"
    BY <2>1 DEF Waits, WaitsFor
  <2>5. Stopped(C, T)
    BY <1>10, <1>12, <1>13, <2>1, <2>2, <2>3, <2>4, YieldStep, Zenon
  <2> QED
    BY <1>11, <2>5, Zenon
<1>14. CASE T \in Reply(C, a, nf)
  <2>1. nf \in Frames /\ nf.role = "reader" /\ nf.fd = fr.fd /\ nf.pair = 0
    BY <1>3, Zenon DEF FrameOf
  <2>2. Works(C, a, nf)
    BY <1>4, <1>10, <1>12, <2>1, Zenon DEF Works
  <2>3. Stopped(C, T)
    BY <1>14, <2>1, <2>2, ReplyStep, Zenon
  <2> QED
    BY <1>11, <2>3
<1>15. CASE T = z
  <2>1. Stopped(C, T)
    BY <1>4, <1>10, <1>15, EndStep, Zenon
  <2> QED
    BY <1>11, <2>1
<1> QED
  BY <1>2, <1>13, <1>14, <1>15, Zenon


\* kvs_save_child_done after the wait for its child, and the fork of the SAVE
\* that was put off.
LEMMA SaverStep ==
    ASSUME NEW E, NEW a, NEW fr, fr.role = "saver", fr.at = "recv",
           NEW S, S = PollDone(E, fr.fd), Works(S, a, fr),
           NEW T \in RunSaver(E, a, fr)
    PROVE  Stopped(S, T)
<1> DEFINE R == Recv(E, fr.fd)
           F == Forked(R, Save)
           p == FreeFd(R)
           nf == Frame("saver", "start", p, 0)
           C == nty_coroutine_create(F, nf)
<1>1. R = Emptied(S, fr.fd)
  BY Zenon DEF Recv, Emptied
<1>2. T = Exit(Close(R, fr.fd), a) \/ T = Exit(Close(C, fr.fd), a)
  <2>1. RunSaver(E, a, fr) = {Exit(Close(R, fr.fd), a)}
                               \cup (IF E.sock[fr.fd].data > 0 /\ R.forks < MaxForks THEN {Exit(Close(C, fr.fd), a)} ELSE {})
    BY Zenon DEF RunSaver
  <2> HIDE DEF R, C
  <2> QED
    BY <2>1
<1> HIDE DEF R
<1>3. Works(R, a, fr) /\ Keeps(S, R)
  BY <1>1, WorksData, Zenon
<1>4. Runs(R, a, {fr.fd}) /\ fr.fd \in Fds /\ R.sock[fr.fd].kind = "pair" /\ Alone(R, a, fr)
  BY <1>3, Zenon DEF Works
<1>5. CASE T = Exit(Close(R, fr.fd), a)
  <2>1. Stopped(R, T)
    BY <1>4, <1>5, EndStep, Zenon
  <2> QED
    BY <1>3, <2>1, StoppedAfter, Zenon
<1>6. CASE T = Exit(Close(C, fr.fd), a)
  <2>1. \A b \in Addr \ {a} : R.co[b].stack.role # "saver"
    BY <1>4, Zenon DEF Alone
  <2>2. SaverFd(R, a, fr.fd)
    BY <2>1, Zenon DEF SaverFd
  <2>3. Save \in {Save, Sync}
    BY Zenon
  <2>4. /\ HasForked(R, F, a, {fr.fd}, p) /\ p # fr.fd
        /\ F.sock[fr.fd].kind = R.sock[fr.fd].kind /\ F.co = R.co /\ Keeps(R, F)
        /\ \E n \in Addr : F.co[n] = Unused
    <3>1. ForksHolding(R, F, a, fr.fd)
      BY <1>4, <2>2, <2>3, ForkHolding, Zenon
    <3> QED
      BY <3>1, Zenon DEF ForksHolding
  <2> HIDE DEF F, p
  <2>5. Runs(F, a, {fr.fd} \cup {p}) /\ p \in Fds /\ F.sock[p].kind = "pair"
    BY <2>4, Zenon DEF HasForked
  <2>6. nf \in Frames /\ nf.role = "saver" /\ nf.at = "start" /\ nf.fd = p /\ nf.pair = 0
    BY <2>5, FrameIs
  <2> HIDE DEF nf
  <2>7. Fit(F, nf)
    BY <2>5, <2>6, Zenon DEF Fit
  <2>8. nf.fd \in {fr.fd} \cup {p} /\ ({fr.fd} \cup {p}) \ {nf.fd} = {fr.fd}
    BY <2>4, <2>6, Zenon
  <2>9. \A b \in Addr \ {a} : F.co[b].stack.role # "saver"
    BY <2>1, <2>4, Zenon
  <2>10. HasCreated(F, C, a, ({fr.fd} \cup {p}) \ {nf.fd})
    BY <2>4, <2>5, <2>6, <2>7, <2>8, <2>9, CreateStep, Zenon
  <2> HIDE DEF C
  <2>11. Runs(C, a, {fr.fd}) /\ Keeps(F, C) /\ C.sock = F.sock
    BY <2>8, <2>10, Zenon DEF HasCreated
  <2>12. C.sock[fr.fd].kind = "pair"
    BY <1>4, <2>4, <2>11, Zenon
  <2>13. Stopped(C, T)
    BY <1>4, <1>6, <2>11, <2>12, EndStep, Zenon
  <2>14. Stopped(F, T)
    BY <2>11, <2>13, StoppedAfter, Zenon
  <2>15. Stopped(R, T)
    BY <2>4, <2>14, StoppedAfter, Zenon
  <2> QED
    BY <1>3, <2>15, StoppedAfter, Zenon
<1> QED
  BY <1>2, <1>5, <1>6, Zenon

\* The frame of a reader or saver that is not waiting for a child.
LEMMA EnteredWorks ==
    ASSUME NEW S, NEW T, NEW a, Entered(S, T, a), S.co[a].stack.role # "server", S.co[a].stack.at # "child"
    PROVE  Works(T, a, S.co[a].stack) /\ S.co[a].stack.role \in {"reader", "saver"}
<1> DEFINE fr == S.co[a].stack
<1>1. Runs(T, a, Held(fr)) /\ Alone(T, a, fr) /\ Fit(T, fr) /\ fr \in Frames
  BY Zenon DEF Entered
<1>2. fr.role # "server" /\ fr.at # "child"
  BY Zenon
<1> HIDE DEF fr
<1>3. /\ fr.pair = 0 /\ fr.fd \in Fds
      /\ \/ fr.role = "reader" /\ T.sock[fr.fd].kind = "conn"
         \/ fr.role = "saver" /\ T.sock[fr.fd].kind = "pair"
  BY <1>1, <1>2, Zenon DEF Fit
<1>4. Held(fr) = {fr.fd}
  BY <1>3 DEF Held, Fds
<1>5. Works(T, a, fr) /\ fr.role \in {"reader", "saver"}
  BY <1>1, <1>3, <1>4, Zenon DEF Works
<1> QED
  BY <1>5, Zenon DEF fr

\* Listen is what server holds.
LEMMA EnteredServer ==
    ASSUME NEW S, NEW T, NEW a, Entered(S, T, a), S.co[a].stack.role = "server"
    PROVE  /\ Runs(T, a, {Listen}) /\ S.co[a].stack.at \in {"start", "accept"}
           /\ FrameOf(S.co[a].stack, "server", S.co[a].stack.at, Listen, 0)
<1> DEFINE fr == S.co[a].stack
<1>1. Runs(T, a, Held(fr)) /\ Fit(T, fr) /\ fr \in Frames
  BY Zenon DEF Entered
<1>2. fr.role = "server"
  BY Zenon
<1> HIDE DEF fr
<1>3. fr.pair = 0 /\ fr.fd = Listen /\ fr.at \in {"start", "accept"}
  BY <1>1, <1>2, Zenon DEF Fit
<1>4. Held(fr) = {Listen}
  BY <1>3 DEF Held, Listen
<1>5. Runs(T, a, {Listen}) /\ fr.at \in {"start", "accept"} /\ FrameOf(fr, "server", fr.at, Listen, 0)
  BY <1>1, <1>2, <1>3, <1>4, Zenon DEF FrameOf
<1> QED
  BY <1>5, Zenon DEF fr


-----------------------------------------------------------------------------
(* nty_coroutine_resume, from each place.                                   *)

LEMMA ResumeReady ==
    ASSUME NEW S, Inv(S, 0, {}), S.sched.ready # <<>>, S.sched.busy = 0,
           NEW a, a = Head(S.sched.ready), NEW U \in nty_coroutine_resume(Dequeued(S), a)
    PROVE  \E T : EnteredReady(S, Dequeued(S), T, a) /\ Stopped(T, U)
<1> DEFINE R == Dequeued(S)
           T == Initialised(R, a)
           fr == S.co[a].stack
<1>1. EnteredReady(S, R, T, a)
  BY EnterReady, Zenon
<1>2. Entered(S, T, a) /\ fr.at = "start" /\ S.co[a].status = {"NEW"} /\ R.co = S.co
  BY <1>1, Zenon DEF EnteredReady
<1>3. "NEW" \in R.co[a].status /\ R.co[a].stack = fr
  BY <1>2, Zenon
<1>4. nty_coroutine_resume(R, a) = CASE fr.role = "server" -> RunServer(T, a, fr)
                                     [] fr.role = "reader" -> RunReader(T, a, fr)
                                     [] fr.role = "saver"  -> RunSaver(T, a, fr)
  BY <1>3, Zenon DEF nty_coroutine_resume, Initialised
<1> HIDE DEF R, T, fr
<1>5. U \in nty_coroutine_resume(R, a)
  BY Zenon DEF R
<1>6. CASE fr.role = "server"
  <2>1. Runs(T, a, {Listen}) /\ FrameOf(fr, "server", "start", Listen, 0)
    BY <1>2, <1>6, EnteredServer, Zenon DEF fr
  <2>2. U \in RunServer(T, a, fr)
    BY <1>4, <1>5, <1>6, Zenon
  <2>3. Stopped(T, U)
    BY <2>1, <2>2, ServerStart, Zenon
  <2> QED
    BY <1>1, <2>3, Zenon DEF R
<1>7. CASE fr.role # "server"
  <2>1. Works(T, a, fr) /\ fr.role \in {"reader", "saver"}
    <3>1. fr.at # "child"
      BY <1>2, Zenon
    <3> QED
      BY <1>2, <1>7, <3>1, EnteredWorks, Zenon DEF fr
  <2>2. \/ fr.role = "reader" /\ U \in RunReader(T, a, fr)
        \/ fr.role = "saver" /\ U \in RunSaver(T, a, fr)
    BY <1>4, <1>5, <2>1, Zenon
  <2>3. Stopped(T, U)
    BY <1>2, <2>1, <2>2, ReaderStart, Zenon
  <2> QED
    BY <1>1, <2>3, Zenon DEF R
<1> QED
  BY <1>6, <1>7, Zenon

WokenFlags == {{}, {"FDEOF"}}

LEMMA ResumeEvent ==
    ASSUME NEW S, Inv(S, 0, {}), S.sched.busy = 0, NEW f, LastEvent(S, f),
           NEW a, a = S.sched.waiting[f], NEW v \in WokenFlags, NEW E, Woken(S, E, a, v),
           NEW U \in nty_coroutine_resume(E, a)
    PROVE  \E T : EnteredEvent(S, E, T, a, f, v) /\ Stopped(T, U)
<1> DEFINE T == PollDone(E, f)
           fr == S.co[a].stack
<1>1. EnteredEvent(S, E, T, a, f, v)
  <2>1. v \in SUBSET Flags
    BY DEF Flags, WokenFlags
  <2> QED
    BY <2>1, EnterEvent, Zenon
<1>2. /\ Entered(S, T, a) /\ fr.at \in Waits /\ f = WaitsFor(fr) /\ (f = Listen => S.sock[Listen].data > 0)
      /\ E.sock = S.sock /\ T.sock = E.sock /\ E.co[a].status = v /\ E.co[a].stack = fr
  BY <1>1, Zenon DEF EnteredEvent
<1>3. "NEW" \notin E.co[a].status
  <2>1. "NEW" \notin v
    BY DEF WokenFlags
  <2> QED
    BY <1>2, <2>1, Zenon
<1>4. nty_coroutine_resume(E, a) = CASE fr.role = "server" -> RunServer(E, a, fr)
                                     [] fr.role = "reader" -> RunReader(E, a, fr)
                                     [] fr.role = "saver"  -> RunSaver(E, a, fr)
  BY <1>2, <1>3, Zenon DEF nty_coroutine_resume
<1>5. U \in nty_coroutine_resume(E, a)
  OBVIOUS
<1> HIDE DEF fr
<1>6. CASE fr.role = "server"
  <2>1. Runs(T, a, {Listen}) /\ fr.at \in {"start", "accept"} /\ FrameOf(fr, "server", fr.at, Listen, 0)
    BY <1>2, <1>6, EnteredServer, Zenon DEF fr
  <2>2. fr.at = "accept" /\ f = Listen
    BY <1>2, <2>1, Zenon DEF Waits, WaitsFor, FrameOf
  <2>3. U \in RunServer(E, a, fr)
    BY <1>4, <1>5, <1>6, Zenon
  <2>4. T = PollDone(E, Listen) /\ T.sock = E.sock /\ T.sock[Listen].data > 0
    BY <1>2, <2>2, Zenon
  <2> HIDE DEF T
  <2>5. Stopped(T, U)
    BY <2>1, <2>2, <2>3, <2>4, ServerStep, Zenon
  <2> QED
    BY <1>1, <2>5, Zenon
<1>7. CASE fr.role # "server" /\ fr.at # "child"
  <2>1. Works(T, a, fr) /\ fr.role \in {"reader", "saver"}
    BY <1>2, <1>7, EnteredWorks, Zenon DEF fr
  <2>2. f = fr.fd
    BY <1>2, <1>7, Zenon DEF WaitsFor
  <2>3. Fit(T, fr)
    BY <1>2, Zenon DEF Entered, fr
  <2>4. T = PollDone(E, fr.fd)
    BY <2>2, Zenon
  <2> HIDE DEF T
  <2>5. CASE fr.role = "reader"
    <3>1. fr.at \in {"recv", "send", "ready"}
      BY <1>2, <1>7, <2>3, <2>5, Zenon DEF Fit, Waits
    <3>2. U \in RunReader(E, a, fr)
      BY <1>4, <1>5, <2>5, Zenon
    <3>3. Stopped(T, U)
      BY <2>1, <2>4, <2>5, <3>1, <3>2, ReaderStep, Zenon
    <3> QED
      BY <1>1, <3>3, Zenon
  <2>6. CASE fr.role = "saver"
    <3>1. fr.at = "recv"
      BY <1>2, <2>3, <2>6, Zenon DEF Fit, Waits
    <3>2. U \in RunSaver(E, a, fr)
      BY <1>4, <1>5, <2>6, Zenon
    <3>3. Stopped(T, U)
      BY <2>1, <2>4, <2>6, <3>1, <3>2, SaverStep, Zenon
    <3> QED
      BY <1>1, <3>3, Zenon
  <2> QED
    BY <2>1, <2>5, <2>6, Zenon
<1>8. CASE fr.role # "server" /\ fr.at = "child"
  <2>1. Runs(T, a, Held(fr)) /\ Fit(T, fr) /\ Alone(T, a, fr) /\ fr \in Frames
    BY <1>2, Zenon DEF Entered, fr
  <2>2. f = fr.pair
    BY <1>2, <1>8, Zenon DEF WaitsFor
  <2>3. T = PollDone(E, fr.pair)
    BY <2>2, Zenon
  <2> HIDE DEF T
  <2>4. fr.role = "reader"
    BY <1>8, <2>1, Zenon DEF Fit
  <2>5. U \in RunReader(E, a, fr)
    BY <1>4, <1>5, <2>4, Zenon
  <2>6. Stopped(T, U)
    BY <1>8, <2>1, <2>3, <2>4, <2>5, ChildStep, Zenon
  <2> QED
    BY <1>1, <2>6, Zenon
<1> QED
  BY <1>6, <1>7, <1>8, Zenon


-----------------------------------------------------------------------------
(* The loops of nty_schedule_run.                                           *)

\* Between S and T only the scheduler's place in its loops may differ.
Moved(S, T) ==
    /\ Rec(T) /\ T.co = S.co /\ T.epoll = S.epoll /\ T.sock = S.sock /\ T.child = S.child
    /\ T.asserted = S.asserted
    /\ T.sched.ready = S.sched.ready /\ T.sched.waiting = S.sched.waiting /\ T.sched.busy = S.sched.busy

SameLoop(S, T) ==
    T.sched.phase = S.sched.phase /\ T.sched.last = S.sched.last /\ T.sched.events = S.sched.events

LEMMA MovedInv ==
    ASSUME NEW S, Inv(S, 0, {}), NEW T, Moved(S, T),
           T.sched.phase \in {"ready", "epoll", "events"}, T.sched.last \in 0..MaxCo,
           T.sched.events \in Seq(Fds), Batch(T)
    PROVE  Inv(T, 0, {})
<1>1. Typed(S) /\ Queue(S, 0) /\ Waiting(S, 0) /\ Busy(S, 0) /\ Places(S, 0) /\ Owned(S, 0, {}) /\ Bounded(S, 0, {})
  BY Zenon DEF Inv
<1>2. Typed(T)
  <2>1. /\ S.co \in [Addr -> Coroutine] /\ S.sock \in [Fds -> SocketType] /\ S.sched.ready \in Seq(Addr)
        /\ S.sched.busy \in 0..MaxCo /\ S.asserted = FALSE
        /\ DOMAIN S.sched.waiting \subseteq Fds /\ DOMAIN S.epoll = DOMAIN S.sched.waiting
        /\ S.epoll = [f \in DOMAIN S.epoll |-> S.epoll[f]]
        /\ DOMAIN S.child = {Save, Sync} /\ \A k \in {Save, Sync} : S.child[k].pair # Listen
    BY <1>1, Zenon DEF Typed
  <2>2. /\ Rec(T) /\ T.co = S.co /\ T.epoll = S.epoll /\ T.sock = S.sock /\ T.child = S.child
        /\ T.asserted = S.asserted
        /\ T.sched.ready = S.sched.ready /\ T.sched.waiting = S.sched.waiting /\ T.sched.busy = S.sched.busy
    BY Zenon DEF Moved
  <2> QED
    BY <2>1, <2>2, Zenon DEF Typed
<1>3. Queue(T, 0)
  BY <1>1, Zenon DEF Moved, Queue
<1>4. Waiting(T, 0)
  <2>1. \A b, f : WaitsAt(S, b, f) => WaitsAt(T, b, f)
    BY Zenon DEF Moved, WaitsAt
  <2>2. T.sched.waiting = S.sched.waiting
    BY Zenon DEF Moved
  <2> QED
    BY <1>1, <2>1, <2>2, Zenon DEF Waiting
<1>5. Busy(T, 0)
  BY <1>1, Zenon DEF Moved, Busy
<1>6. Places(T, 0)
  <2>1. \A b \in Addr : InPlace(S, b) => InPlace(T, b)
    BY Zenon DEF Moved, InPlace
  <2>2. \A b \in Addr : Fit(S, S.co[b].stack) => Fit(T, S.co[b].stack)
    BY Zenon DEF Moved, Fit
  <2>3. T.co = S.co
    BY Zenon DEF Moved
  <2> QED
    BY <1>1, <2>1, <2>2, <2>3, Zenon DEF Places
<1>7. Owned(T, 0, {})
  BY <1>1, Zenon DEF Moved, Owned, Has, Holds
<1>8. Bounded(T, 0, {})
  BY <1>1, Zenon DEF Moved, Bounded, Conns, Has, Holds
<1> QED
  BY <1>2, <1>3, <1>4, <1>5, <1>6, <1>7, <1>8, Zenon DEF Inv

LEMMA SameInv ==
    ASSUME NEW S, Inv(S, 0, {}), NEW T, Moved(S, T), SameLoop(S, T)
    PROVE  Inv(T, 0, {})
<1>1. Typed(S) /\ Batch(S)
  BY Zenon DEF Inv
<1>2. Batch(T)
  BY <1>1, Zenon DEF Moved, SameLoop, Batch
<1>3. /\ T.sched.phase \in {"ready", "epoll", "events"} /\ T.sched.last \in 0..MaxCo
      /\ T.sched.events \in Seq(Fds)
  BY <1>1, Zenon DEF SameLoop, Typed
<1> QED
  BY <1>2, <1>3, MovedInv, Zenon

LEMMA BecomesIs ==
    ASSUME NEW T, Rec(T), Becomes(T)
    PROVE  Moved(T, Now') /\ SameLoop(T, Now')
<1>1. /\ Now'.sched = T.sched /\ Now'.co = T.co /\ Now'.epoll = T.epoll /\ Now'.sock = T.sock
      /\ Now'.child = T.child /\ Now'.asserted = T.asserted
      /\ DOMAIN Now' = {"sched", "co", "epoll", "sock", "child", "asserted", "forks"}
  BY DEF Becomes, Now
<1> QED
  BY <1>1, Zenon DEF Moved, SameLoop, Rec

\* What a step leads to has the invariant.
LEMMA BecomesInv ==
    ASSUME NEW T, Inv(T, 0, {}), Pass(T), Becomes(T)
    PROVE  CoInv'
<1>1. Rec(T)
  BY Zenon DEF Inv, Typed
<1>2. Moved(T, Now') /\ SameLoop(T, Now')
  BY <1>1, BecomesIs, Zenon
<1>3. Inv(Now', 0, {})
  BY <1>2, SameInv, Zenon
<1>4. Pass(Now')
  BY <1>2, Zenon DEF Pass, Moved, SameLoop
<1> QED
  BY <1>3, <1>4, Zenon DEF CoInv

LEMMA TopStep ==
    ASSUME NEW S, Inv(S, 0, {}), S.sched.events = <<>>
    PROVE  Inv(LoopTop(S), 0, {}) /\ Pass(LoopTop(S))
<1> DEFINE T == LoopTop(S)
           q == S.sched.ready
<1>1. Typed(S) /\ Batch(S) /\ Rec(S)
  BY Zenon DEF Inv, Typed
<1>2. /\ Moved(S, T) /\ T.sched.events = <<>>
      /\ T.sched.phase = IF q = <<>> THEN "epoll" ELSE "ready"
      /\ T.sched.last = IF q = <<>> THEN 0 ELSE q[Len(q)]
  BY <1>1, Zenon DEF LoopTop, Moved, Rec
<1>3. q \in Seq(Addr) /\ T.sched.ready = q
  BY <1>1, <1>2, Zenon DEF Typed, Moved
<1>4. Batch(T)
  BY <1>1, <1>2, Zenon DEF Moved, Batch
<1> HIDE DEF T, q
<1>5. MaxCo \in Nat
  BY CoroutinesAssumption, Zenon
<1>6. q # <<>> => Len(q) \in DOMAIN q /\ q[Len(q)] \in 0..MaxCo
  BY <1>3, <1>5 DEF Addr
<1>7. T.sched.phase \in {"ready", "epoll", "events"} /\ T.sched.last \in 0..MaxCo
  BY <1>2, <1>5, <1>6
<1>8. T.sched.events \in Seq(Fds)
  BY <1>2
<1>9. Inv(T, 0, {})
  BY <1>2, <1>4, <1>7, <1>8, MovedInv, Zenon
<1>10. T.sched.phase # "events" /\ (T.sched.phase = "ready" => q # <<>>)
  BY <1>2, Zenon
<1>11. Pass(T)
  BY <1>2, <1>3, <1>6, <1>10, Zenon DEF Pass
<1> QED
  BY <1>9, <1>11, Zenon DEF T


\* nty_coroutine_resume from the ready queue; a pass ends with the coroutine
\* that was last when it began.
LEMMA RunReadyInv ==
    ASSUME CoInv, RunReady
    PROVE  CoInv'
<1> DEFINE S == Now
           a == Head(sched.ready)
<1>1. Inv(S, 0, {}) /\ Pass(S)
  BY Zenon DEF CoInv
<1>2. S.sched = sched /\ S.co = co
  BY DEF Now
<1>3. sched.phase = "ready" /\ sched.busy = 0
  BY Zenon DEF RunReady
<1>4. sched.events = <<>> /\ \E i \in DOMAIN sched.ready : sched.ready[i] = sched.last
  BY <1>1, <1>2, <1>3, Zenon DEF Pass
<1>5. sched.ready \in Seq(Addr) /\ sched.ready # <<>>
  <2>1. sched.ready \in Seq(Addr)
    BY <1>1, <1>2, Zenon DEF Inv, Typed
  <2> QED
    BY <1>4, <2>1
<1>6. co[a].status = {"NEW"}
  <2>1. 1 \in DOMAIN sched.ready /\ a = sched.ready[1]
    BY <1>5
  <2> QED
    BY <1>1, <1>2, <2>1, Zenon DEF Inv, Queue
<1>7. "FDEOF" \notin co[a].status
  BY <1>6
<1> HIDE DEF a
<1>8. PICK T \in nty_coroutine_resume(Dequeued(S), a) :
        IF a = sched.last THEN Becomes([T EXCEPT !.sched.phase = "epoll", !.sched.last = 0]) ELSE Becomes(T)
  BY <1>7, Zenon DEF RunReady, Dequeued, a
<1> HIDE DEF S
<1>9. PICK V : EnteredReady(S, Dequeued(S), V, a) /\ Stopped(V, T)
  BY <1>1, <1>2, <1>3, <1>5, ResumeReady, Zenon DEF a
<1>10. /\ Inv(T, 0, {}) /\ T.sched.phase = "ready" /\ T.sched.last = sched.last /\ T.sched.events = <<>>
       /\ \A i \in DOMAIN Tail(sched.ready) :
             i \in DOMAIN T.sched.ready /\ T.sched.ready[i] = Tail(sched.ready)[i]
  BY <1>2, <1>3, <1>4, <1>9, Zenon DEF EnteredReady, Stopped, Keeps
<1>11. CASE a = sched.last
  <2> DEFINE U == [T EXCEPT !.sched.phase = "epoll", !.sched.last = 0]
  <2>1. Typed(T) /\ Batch(T) /\ Rec(T)
    BY <1>10, Zenon DEF Inv, Typed
  <2>2. Moved(T, U) /\ U.sched.phase = "epoll" /\ U.sched.last = 0 /\ U.sched.events = T.sched.events
    BY <2>1, Zenon DEF Moved, Rec
  <2>3. Becomes(U)
    BY <1>8, <1>11, Zenon
  <2> HIDE DEF U
  <2>4. Batch(U)
    BY <2>1, <2>2, Zenon DEF Moved, Batch
  <2>5. /\ U.sched.phase \in {"ready", "epoll", "events"} /\ U.sched.last \in 0..MaxCo
        /\ U.sched.events \in Seq(Fds)
    BY <1>10, <2>2, CoroutinesAssumption
  <2>6. Inv(U, 0, {})
    BY <1>10, <2>2, <2>4, <2>5, MovedInv, Zenon
  <2>7. Pass(U)
    BY <1>10, <2>2, Zenon DEF Pass
  <2> QED
    BY <2>3, <2>6, <2>7, BecomesInv, Zenon
<1>12. CASE a # sched.last
  <2>1. PICK i \in DOMAIN sched.ready : sched.ready[i] = sched.last
    BY <1>4, Zenon
  <2>2. i - 1 \in DOMAIN Tail(sched.ready) /\ Tail(sched.ready)[i - 1] = sched.last
    BY <1>5, <1>12, <2>1 DEF a
  <2>3. i - 1 \in DOMAIN T.sched.ready /\ T.sched.ready[i - 1] = T.sched.last
    BY <1>10, <2>2, Zenon
  <2>4. T.sched.phase # "events"
    BY <1>10
  <2>5. Pass(T)
    BY <1>10, <2>3, <2>4, Zenon DEF Pass
  <2> QED
    BY <1>8, <1>10, <1>12, <2>5, BecomesInv, Zenon
<1> QED
  BY <1>11, <1>12, Zenon

\* The listening socket is registered for reading.
LEMMA ListenIn ==
    ASSUME NEW S, Inv(S, 0, {}), Listen \in DOMAIN S.sched.waiting
    PROVE  S.epoll[Listen] = "in"
<1> DEFINE b == S.sched.waiting[Listen]
           fr == S.co[b].stack
<1>1. b \in Addr /\ WaitsAt(S, b, Listen)
  BY Zenon DEF Inv, Waiting
<1>2. fr.at \in Waits /\ WaitsFor(fr) = Listen /\ S.epoll[Listen] = IF fr.at = "send" THEN "out" ELSE "in"
  BY <1>1, Zenon DEF WaitsAt
<1>3. S.co[b] # Unused
  <2>1. Unused.stack.at \notin Waits
    BY DEF Unused, NoFrame, Waits, Frame
  <2> QED
    BY <1>2, <2>1, Zenon
<1>4. Fit(S, fr)
  <2>1. b \in Addr \ {0}
    BY <1>1 DEF Addr
  <2> QED
    BY <1>3, <2>1, Zenon DEF Inv, Places
<1>5. S.sock[Listen].kind = "listen"
  <2>1. Listen \in Fds
    BY ListenFd, Zenon DEF ListenIs
  <2> QED
    BY <2>1, Zenon DEF Inv, Bounded
<1> HIDE DEF fr, b
<1>6. fr.at # "send"
  BY <1>2, <1>4, <1>5, Zenon DEF Fit, WaitsFor
<1> QED
  BY <1>2, <1>6, Zenon

\* epoll_wait returns descriptors that somebody waits for, each once.
LEMMA EpollInv ==
    ASSUME CoInv, nty_schedule_epoll
    PROVE  CoInv'
<1> DEFINE S == Now
           fds == {f \in DOMAIN epoll : Signalled(f)}
<1>1. Inv(S, 0, {}) /\ Pass(S)
  BY Zenon DEF CoInv
<1>2. S.sched = sched /\ S.epoll = epoll /\ S.sock = sock
  BY DEF Now
<1>3. Typed(S) /\ Rec(S) /\ Batch(S) /\ Waiting(S, 0)
  BY <1>1, Zenon DEF Inv, Typed
<1>4. S.sched.events = <<>>
  <2>1. sched.phase = "epoll"
    BY Zenon DEF nty_schedule_epoll
  <2> QED
    BY <1>1, <1>2, <2>1, Zenon DEF Pass
<1>5. CASE sched.ready # <<>>
  <2>1. Becomes(LoopTop(S))
    BY <1>5, Zenon DEF nty_schedule_epoll
  <2> HIDE DEF S
  <2> QED
    BY <1>1, <1>4, <2>1, TopStep, BecomesInv, Zenon
<1>6. CASE sched.ready = <<>>
  <2>1. /\ fds # {}
        /\ \E order \in [1..Cardinality(fds) -> fds] :
             /\ \A i, j \in DOMAIN order : order[i] = order[j] => i = j
             /\ Becomes([S EXCEPT !.sched.phase = "events", !.sched.events = order])
    BY <1>6, Zenon DEF nty_schedule_epoll
  <2>2. PICK order \in [1..Cardinality(fds) -> fds] :
             /\ \A i, j \in DOMAIN order : order[i] = order[j] => i = j
             /\ Becomes([S EXCEPT !.sched.phase = "events", !.sched.events = order])
    BY <2>1, Zenon
  <2> DEFINE U == [S EXCEPT !.sched.phase = "events", !.sched.events = order]
  <2>3. Moved(S, U) /\ U.sched.phase = "events" /\ U.sched.last = S.sched.last /\ U.sched.events = order
    BY <1>3, Zenon DEF Moved, Rec
  <2>4. Becomes(U)
    BY <2>2, Zenon
  <2> HIDE DEF U, S
  <2>5. fds \subseteq Fds /\ fds \subseteq DOMAIN S.sched.waiting
    BY <1>2, <1>3, Zenon DEF Typed
  <2>6. Cardinality(fds) \in Nat \ {0}
    <3> HIDE DEF fds
    <3>1. Cardinality(fds) \in Nat /\ Cardinality(fds) # 0
      BY <1>1, <2>1, <2>5, Zenon DEF Inv, Bounded, Counting
    <3> QED
      BY <3>1, Zenon
  <2>7. Listen \in fds => S.sock[Listen].data > 0
    <3>1. ASSUME Listen \in fds
          PROVE  S.sock[Listen].data > 0
      <4>1. Signalled(Listen) /\ Listen \in DOMAIN S.sched.waiting
        BY <2>5, <3>1, Zenon
      <4>2. sock[Listen].hup = FALSE
        BY <1>2, <1>3, Zenon DEF Batch
      <4>3. epoll[Listen] = "in"
        BY <1>1, <1>2, <4>1, ListenIn, Zenon
      <4> QED
        BY <1>2, <4>1, <4>2, <4>3, Zenon DEF Signalled
    <3> QED
      BY <3>1, Zenon
  <2> HIDE DEF fds
  <2>8. DOMAIN order = 1..Cardinality(fds) /\ order \in Seq(Fds) /\ order # <<>>
    BY <2>5, <2>6
  <2>9. Batch(U)
    <3>1. \A i \in DOMAIN order : order[i] \in fds
      BY Zenon
    <3>2. U.sched.events = order /\ U.sched.waiting = S.sched.waiting /\ U.sock = S.sock
      BY <2>3, Zenon DEF Moved
    <3>3. S.sock[Listen].hup = FALSE
      BY <1>3, Zenon DEF Batch
    <3>4. \A i \in DOMAIN order : /\ order[i] \in DOMAIN S.sched.waiting
                                  /\ order[i] = Listen => S.sock[Listen].data > 0
      BY <2>5, <2>7, <3>1, Zenon
    <3> QED
      BY <2>2, <3>2, <3>3, <3>4, Zenon DEF Batch
  <2>10. /\ U.sched.phase \in {"ready", "epoll", "events"} /\ U.sched.last \in 0..MaxCo
         /\ U.sched.events \in Seq(Fds)
    BY <1>3, <2>3, <2>8, Zenon DEF Typed
  <2>11. Inv(U, 0, {})
    BY <1>1, <2>3, <2>9, <2>10, MovedInv, Zenon
  <2>12. Pass(U)
    BY <2>3, <2>8, Zenon DEF Pass
  <2> QED
    BY <2>4, <2>11, <2>12, BecomesInv, Zenon
<1> QED
  BY <1>5, <1>6, Zenon


LEMMA RunEventInv ==
    ASSUME CoInv, RunEvent
    PROVE  CoInv'
<1> DEFINE S == Now
           n == Len(sched.events)
           f == sched.events[n]
           a == sched.waiting[f]
           rest == EventsBefore(S)
           R == [nty_schedule_search_wait(S, f) EXCEPT !.sched.events = rest]
           E == IF sock[f].hup THEN [R EXCEPT !.co[a].status = @ \cup {"FDEOF"}] ELSE R
<1>1. Inv(S, 0, {}) /\ Pass(S)
  BY Zenon DEF CoInv
<1>2. S.sched = sched /\ S.sock = sock
  BY Zenon DEF Now
<1>3. Typed(S) /\ Rec(S) /\ Batch(S) /\ Waiting(S, 0)
  BY <1>1, Zenon DEF Inv, Typed
<1>4. sched.phase = "events" /\ sched.busy = 0
  BY Zenon DEF RunEvent
<1>5. sched.events # <<>> /\ sched.events \in Seq(Fds)
  BY <1>1, <1>2, <1>3, <1>4, Zenon DEF Pass, Typed
<1>6. n \in DOMAIN sched.events
  BY <1>5
<1>7. LastEvent(S, f) /\ f \in DOMAIN sched.waiting /\ a \in Addr \ {0}
  BY <1>2, <1>3, <1>5, <1>6, Zenon DEF LastEvent, Batch, Waiting
<1>8. rest = SubSeq(sched.events, 1, n - 1)
  BY <1>2, Zenon DEF EventsBefore
<1>9. PICK T \in nty_coroutine_resume(E, a) : Becomes(IF rest = <<>> THEN LoopTop(T) ELSE T)
  BY <1>7, <1>8, Zenon DEF RunEvent
<1> DEFINE v == IF sock[f].hup THEN {"FDEOF"} ELSE {}
<1>10. Woken(S, E, a, v) /\ v \in WokenFlags
  <2>1. S.co \in [Addr -> Coroutine] /\ a \in Addr /\ a = S.sched.waiting[f]
    BY <1>2, <1>3, <1>7, Zenon DEF Typed
  <2>2. Woken(S, R, a, {})
    BY <1>3, <2>1, WokenIs, Zenon
  <2> HIDE DEF R, S, a, f
  <2>3. CASE sock[f].hup
    BY <2>1, <2>2, <2>3, WokenEof, Zenon DEF WokenFlags
  <2>4. CASE ~sock[f].hup
    BY <2>2, <2>4, Zenon DEF WokenFlags
  <2> QED
    BY <2>3, <2>4, Zenon
<1>11. a = S.sched.waiting[f] /\ S.sched.busy = 0 /\ S.sched.phase = "events"
  BY <1>2, <1>4, Zenon
<1> HIDE DEF S, E, R, v, f, rest, n, a
<1>12. PICK V : EnteredEvent(S, E, V, a, f, v) /\ Stopped(V, T)
  BY <1>1, <1>7, <1>9, <1>10, <1>11, ResumeEvent, Zenon
<1>13. Inv(T, 0, {}) /\ T.sched.phase = "events" /\ T.sched.events = rest
  BY <1>12, <1>11, Zenon DEF EnteredEvent, Stopped, Keeps, rest
<1>14. CASE rest = <<>>
  BY <1>9, <1>13, <1>14, TopStep, BecomesInv, Zenon
<1>15. CASE rest # <<>>
  <2>1. Pass(T)
    BY <1>13, <1>15, Zenon DEF Pass
  <2> QED
    BY <1>9, <1>13, <1>15, <2>1, BecomesInv, Zenon
<1> QED
  BY <1>14, <1>15, Zenon

LEMMA RunSendfileInv ==
    ASSUME CoInv, RunSendfile
    PROVE  CoInv'
<1> DEFINE S == Now
           a == sched.busy
           R == Resumed(S)
           fr == co[a].stack
<1>1. Inv(S, 0, {}) /\ Pass(S)
  BY Zenon DEF CoInv
<1>2. S.sched = sched /\ S.co = co
  BY DEF Now
<1>3. S.sched.busy # 0 /\ a = S.sched.busy /\ fr = S.co[a].stack
  BY <1>2, Zenon DEF RunSendfile
<1>4. PICK T \in Replied(R, a, fr) : Becomes(T)
  BY Zenon DEF RunSendfile, Resumed
<1> HIDE DEF S, a, R
<1>5. /\ Entered(S, R, a) /\ fr.at = "sendfile"
      /\ R.sched.ready = S.sched.ready /\ R.sched.events = S.sched.events
      /\ R.sched.phase = S.sched.phase /\ R.sched.last = S.sched.last
  <2>1. EnteredBusy(S, R, a)
    BY <1>1, <1>3, EnterBusy, Zenon DEF R
  <2> QED
    BY <1>3, <2>1, Zenon DEF EnteredBusy
<1>6. fr.at # "child" /\ fr.role # "server"
  <2>1. Fit(R, fr)
    BY <1>3, <1>5, Zenon DEF Entered
  <2> QED
    BY <1>5, <2>1, Zenon DEF Fit
<1>7. Works(R, a, fr)
  BY <1>3, <1>5, <1>6, EnteredWorks, Zenon
<1> HIDE DEF fr
<1>8. Stopped(R, T)
  BY <1>7, RepliedStep, Zenon
<1>9. Inv(T, 0, {}) /\ Keeps(R, T)
  BY <1>8, Zenon DEF Stopped
<1>10. Pass(R)
  BY <1>1, <1>5, Zenon DEF Pass
<1>11. Pass(T)
  BY <1>9, <1>10, Zenon DEF Pass, Keeps
<1> QED
  BY <1>4, <1>9, <1>11, BecomesInv, Zenon


-----------------------------------------------------------------------------
(* The clients and the children: no descriptor changes its kind.            *)

LEMMA PeerStep ==
    ASSUME CoInv, UNCHANGED <<sched, co, epoll, asserted>>,
           sock' \in [Fds -> SocketType], \A f \in Fds : sock'[f].kind = sock[f].kind,
           sock'[Listen].hup = FALSE, sock'[Listen].data >= sock[Listen].data,
           Cardinality(Conns(Now)) + sock'[Listen].data <= MaxOpen,
           DOMAIN child' = {Save, Sync}, \A k \in {Save, Sync} : child'[k].pair # Listen
    PROVE  CoInv'
<1> DEFINE S == Now
           T == Now'
<1>1. Inv(S, 0, {}) /\ Pass(S)
  BY Zenon DEF CoInv
<1>2. S.sched = sched /\ S.co = co /\ S.epoll = epoll /\ S.sock = sock /\ S.asserted = asserted
  BY Zenon DEF Now
<1>3. /\ T.sched = S.sched /\ T.co = S.co /\ T.epoll = S.epoll /\ T.asserted = S.asserted
      /\ T.sock = sock' /\ T.child = child'
      /\ DOMAIN T = {"sched", "co", "epoll", "sock", "child", "asserted", "forks"}
  BY Zenon DEF Now
<1> HIDE DEF S, T
<1>4. Typed(S) /\ Batch(S) /\ Rec(S)
  BY <1>1, Zenon DEF Inv, Typed
<1>5. Rec(T) /\ Rest(S, T)
  BY <1>3, <1>4, Zenon DEF Rec, Rest
<1>6. DOMAIN T.child = {Save, Sync} /\ \A k \in {Save, Sync} : T.child[k].pair # Listen
  BY <1>3, Zenon
<1>7. T.sock \in [Fds -> SocketType] /\ Listen \in Fds
  BY <1>3, ListenFd, Zenon DEF ListenIs
<1>8. SocketOf(S, T, {}, {}, Listen)
  BY <1>2, <1>3, <1>7, Zenon DEF SocketOf
<1>9. Conns(T) = Conns(S)
  BY <1>2, <1>3, Zenon DEF Conns
<1>10. Cardinality(Conns(T)) + T.sock[Listen].data <= MaxOpen
  BY <1>3, <1>9, Zenon DEF S
<1>11. \A i \in DOMAIN S.sched.events : S.sched.events[i] = Listen => T.sock[Listen].data > 0
  <2>1. sock[Listen].data \in Int /\ sock'[Listen].data \in Int
    <3>1. S.sock \in [Fds -> SocketType]
      BY <1>4, Zenon DEF Typed
    <3> QED
      BY <1>2, <1>7, <3>1 DEF SocketType
  <2>2. \A i \in DOMAIN S.sched.events : S.sched.events[i] = Listen => S.sock[Listen].data > 0
    BY <1>4, Zenon DEF Batch
  <2>3. sock[Listen].data > 0 => sock'[Listen].data > 0
    BY <2>1
  <2> QED
    BY <1>2, <1>3, <2>2, <2>3, Zenon
<1>12. T.sock[Listen].hup = FALSE
  BY <1>3, Zenon
<1>13. Inv(T, 0, {})
  <2> DEFINE N == {}
  <2>1. Inv(S, 0, N) /\ SocketOf(S, T, N, N, Listen) /\ N \subseteq Fds
    BY <1>1, <1>8, Zenon
  <2> HIDE DEF N
  <2>2. Inv(T, 0, N)
    BY <1>3, <1>5, <1>6, <1>7, <1>10, <1>11, <1>12, <2>1, SocketStep, Zenon
  <2> QED
    BY <2>2, Zenon DEF N
<1>14. Pass(T)
  BY <1>1, <1>3, Zenon DEF Pass
<1> QED
  BY <1>13, <1>14, Zenon DEF CoInv, T

PeersType(S) ==
    /\ S.sock \in [Fds -> SocketType] /\ Listen \in Fds /\ S.sock[Listen].kind = "listen" /\ S.sock[Listen].hup = FALSE
    /\ Cardinality(Conns(S)) \in Nat /\ Cardinality(Conns(S)) + S.sock[Listen].data <= MaxOpen
    /\ DOMAIN S.child = {Save, Sync} /\ \A k \in {Save, Sync} : S.child[k].pair # Listen

LEMMA Peers ==
    ASSUME NEW S, Inv(S, 0, {})
    PROVE  PeersType(S)
<1>1. Typed(S) /\ Batch(S) /\ Bounded(S, 0, {})
  BY Zenon DEF Inv
<1>2. Listen \in Fds
  BY ListenFd, Zenon DEF ListenIs
<1>3. Cardinality(Conns(S)) \in Nat
  <2>1. Conns(S) \subseteq Fds
    BY Zenon DEF Conns
  <2> QED
    BY <1>1, <2>1, Zenon DEF Bounded, Counting
<1>4. S.sock[Listen].kind = "listen"
  BY <1>1, <1>2, Zenon DEF Bounded
<1> QED
  BY <1>1, <1>2, <1>3, <1>4, Zenon DEF PeersType, Typed, Batch, Bounded

LEMMA ConnectInv ==
    ASSUME CoInv, Connect
    PROVE  CoInv'
<1>1. PeersType(Now)
  BY Peers, Zenon DEF CoInv
<1>2. /\ sock \in [Fds -> SocketType] /\ Listen \in Fds /\ sock[Listen].hup = FALSE
      /\ DOMAIN child = {Save, Sync} /\ \A k \in {Save, Sync} : child[k].pair # Listen
      /\ Cardinality(Conns(Now)) \in Nat
  BY <1>1, Zenon DEF PeersType, Now
<1> DEFINE n == Cardinality(Conns(Now))
<1>3. n + sock[Listen].data < MaxOpen
  BY Zenon DEF Connect, Conns, Now, Fds
<1>4. sock' = [sock EXCEPT ![Listen].data = @ + 1] /\ UNCHANGED <<sched, co, epoll, child, asserted>>
  BY Zenon DEF Connect
<1> HIDE DEF n
<1>5. MaxOpen \in Nat /\ n \in Nat
  BY <1>2, CoroutinesAssumption, Zenon DEF n
<1>6. sock[Listen].data + 1 \in 0..MaxOpen /\ n + (sock[Listen].data + 1) <= MaxOpen
  BY <1>2, <1>3, <1>5 DEF SocketType
<1>7. /\ sock' \in [Fds -> SocketType] /\ \A f \in Fds : sock'[f].kind = sock[f].kind
      /\ sock'[Listen].hup = FALSE /\ sock'[Listen].data = sock[Listen].data + 1
  BY <1>2, <1>4, <1>6, Zenon DEF SocketType
<1>8. sock'[Listen].data >= sock[Listen].data /\ n + sock'[Listen].data <= MaxOpen
  BY <1>2, <1>6, <1>7 DEF SocketType
<1>9. DOMAIN child' = {Save, Sync} /\ \A k \in {Save, Sync} : child'[k].pair # Listen
  BY <1>2, <1>4, Zenon
<1> QED
  BY <1>4, <1>7, <1>8, <1>9, PeerStep, Zenon DEF n


PeerSet(s, t) ==
    t \in [Fds -> SocketType] /\ (\A g \in Fds : t[g].kind = s[g].kind) /\ t[Listen] = s[Listen]

LEMMA PeerSets ==
    ASSUME NEW s \in [Fds -> SocketType], NEW p, p # Listen, NEW n \in 0..MaxOpen, NEW b \in BOOLEAN
    PROVE  /\ PeerSet(s, [s EXCEPT ![p].data = n])
           /\ PeerSet(s, [s EXCEPT ![p].room = b])
           /\ PeerSet(s, [s EXCEPT ![p].hup = b])
<1>1. Listen \in Fds
  BY ListenFd, Zenon DEF ListenIs
<1>2. ASSUME NEW r, p \in Fds => r \in SocketType /\ r.kind = s[p].kind
      PROVE  PeerSet(s, [s EXCEPT ![p] = r])
  <2> DEFINE t == [s EXCEPT ![p] = r]
  <2>1. t \in [Fds -> SocketType]
    <3>1. CASE p \in Fds
      BY <1>2, <3>1, Zenon
    <3>2. CASE p \notin Fds
      BY <3>2, Zenon
    <3> QED
      BY <3>1, <3>2, Zenon
  <2>2. ASSUME NEW g \in Fds
        PROVE  t[g].kind = s[g].kind
    <3>1. CASE g = p
      <4>1. t[g] = r
        BY <3>1
      <4> QED
        BY <1>2, <3>1, <4>1, Zenon
    <3>2. CASE g # p
      <4>1. t[g] = s[g]
        BY <3>2, Zenon
      <4> QED
        BY <4>1, Zenon
    <3> QED
      BY <3>1, <3>2, Zenon
  <2>3. t[Listen] = s[Listen]
    BY <1>1
  <2> QED
    BY <2>1, <2>2, <2>3, Zenon DEF PeerSet
<1>3. ASSUME p \in Fds
      PROVE  /\ [s[p] EXCEPT !.data = n] \in SocketType /\ [s[p] EXCEPT !.data = n].kind = s[p].kind
             /\ [s[p] EXCEPT !.room = b] \in SocketType /\ [s[p] EXCEPT !.room = b].kind = s[p].kind
             /\ [s[p] EXCEPT !.hup = b] \in SocketType /\ [s[p] EXCEPT !.hup = b].kind = s[p].kind
  BY <1>3, Zenon DEF SocketType
<1> QED
  BY <1>2, <1>3, Zenon

LEMMA ClientInv ==
    ASSUME CoInv, NEW f \in Fds, ClientSends(f) \/ ClientReads(f) \/ ClientCloses(f)
    PROVE  CoInv'
<1>1. PeersType(Now)
  BY Peers, Zenon DEF CoInv
<1>2. /\ sock \in [Fds -> SocketType] /\ Listen \in Fds /\ sock[Listen].kind = "listen" /\ sock[Listen].hup = FALSE
      /\ DOMAIN child = {Save, Sync} /\ \A k \in {Save, Sync} : child[k].pair # Listen
      /\ Cardinality(Conns(Now)) + sock[Listen].data <= MaxOpen
  BY <1>1 DEF PeersType, Now
<1>3. sock[f].kind = "conn" /\ UNCHANGED <<sched, co, epoll, child, asserted>>
  BY Zenon DEF ClientSends, ClientReads, ClientCloses
<1>4. f # Listen
  BY <1>2, <1>3, Zenon
<1>5. 1 \in 0..MaxOpen
  BY CoroutinesAssumption
<1>6. /\ sock' \in [Fds -> SocketType] /\ \A g \in Fds : sock'[g].kind = sock[g].kind
      /\ sock'[Listen] = sock[Listen]
  <2>1. \/ sock' = [sock EXCEPT ![f].data = 1]
        \/ sock' = [sock EXCEPT ![f].room = TRUE]
        \/ sock' = [sock EXCEPT ![f].hup = TRUE]
    BY Zenon DEF ClientSends, ClientReads, ClientCloses
  <2>2. /\ PeerSet(sock, [sock EXCEPT ![f].data = 1])
        /\ PeerSet(sock, [sock EXCEPT ![f].room = TRUE])
        /\ PeerSet(sock, [sock EXCEPT ![f].hup = TRUE])
    BY <1>2, <1>4, <1>5, PeerSets, Zenon
  <2>3. PeerSet(sock, sock')
    BY <2>1, <2>2, Zenon
  <2> QED
    BY <2>3, Zenon DEF PeerSet
<1>7. sock'[Listen].data >= sock[Listen].data
  BY <1>2, <1>6 DEF SocketType
<1>8. /\ sock'[Listen].hup = FALSE /\ Cardinality(Conns(Now)) + sock'[Listen].data <= MaxOpen
      /\ DOMAIN child' = {Save, Sync} /\ \A k \in {Save, Sync} : child'[k].pair # Listen
  BY <1>2, <1>3, <1>6, Zenon
<1> QED
  BY <1>3, <1>6, <1>7, <1>8, PeerStep, Zenon

LEMMA ChildEndsInv ==
    ASSUME CoInv, NEW k \in {Save, Sync}, ChildEnds(k)
    PROVE  CoInv'
<1> DEFINE p == child[k].pair
<1>1. PeersType(Now)
  BY Peers, Zenon DEF CoInv
<1>2. /\ sock \in [Fds -> SocketType] /\ Listen \in Fds /\ sock[Listen].hup = FALSE
      /\ DOMAIN child = {Save, Sync} /\ \A j \in {Save, Sync} : child[j].pair # Listen
      /\ Cardinality(Conns(Now)) + sock[Listen].data <= MaxOpen
  BY <1>1, Zenon DEF PeersType, Now
<1>3. PICK n \in {0, 1} : sock' = [sock EXCEPT ![p].data = n, ![p].hup = TRUE]
  BY Zenon DEF ChildEnds
<1>4. child' = [child EXCEPT ![k] = NoChild] /\ UNCHANGED <<sched, co, epoll, asserted>>
  BY Zenon DEF ChildEnds
<1>5. p # Listen
  BY <1>2, Zenon
<1>6. DOMAIN child' = {Save, Sync} /\ \A j \in {Save, Sync} : child'[j].pair # Listen
  <2>1. NoChild.pair # Listen
    BY DEF NoChild, Listen
  <2> QED
    BY <1>2, <1>4, <2>1, Zenon DEF Save, Sync
<1> HIDE DEF p
<1>7. n \in 0..MaxOpen
  BY CoroutinesAssumption
<1>8. /\ sock' \in [Fds -> SocketType] /\ \A g \in Fds : sock'[g].kind = sock[g].kind
      /\ sock'[Listen] = sock[Listen]
  <2> DEFINE s == [sock EXCEPT ![p].data = n]
  <2>1. PeerSet(sock, s)
    BY <1>2, <1>5, <1>7, PeerSets, Zenon
  <2>2. sock' = [s EXCEPT ![p].hup = TRUE]
    BY <1>3, Zenon
  <2> HIDE DEF s
  <2>3. PeerSet(s, sock')
    <3>1. s \in [Fds -> SocketType]
      BY <2>1, Zenon DEF PeerSet
    <3> QED
      BY <1>5, <1>7, <2>2, <3>1, PeerSets, Zenon
  <2> QED
    BY <2>1, <2>3, Zenon DEF PeerSet
<1>9. sock'[Listen].data >= sock[Listen].data
  BY <1>2, <1>8 DEF SocketType
<1>10. sock'[Listen].hup = FALSE /\ Cardinality(Conns(Now)) + sock'[Listen].data <= MaxOpen
  BY <1>2, <1>8, Zenon
<1> QED
  BY <1>4, <1>6, <1>8, <1>9, <1>10, PeerStep, Zenon

=============================================================================
