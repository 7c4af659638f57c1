------------------------------ MODULE SaveChild -----------------------------
(***************************************************************************)
(* The SAVE command of kvs-module/kvs_save.c: a forked child writes all     *)
(* engines to kvs_dump.kvsdb.tmp and renames it to kvs_dump.kvsdb, while a  *)
(* coroutine of the server waits for its result.  A SAVE that comes while a *)
(* child runs is remembered and runs when the child is done.                *)
(*                                                                         *)
(* The data is a version that every write increments, and a file tells for  *)
(* every pair which version of it was written: 0 if none yet, and -v if     *)
(* the write of version v failed and nobody noticed.                        *)
(***************************************************************************)
EXTENDS Integers, FiniteSets

CONSTANTS Pids,        \* process ids the kernel gives to children
          NoPid,       \* 0
          Pairs,       \* key-value pairs in a file, numbered in writing order
          MaxVersion,  \* bound: versions of the data
          Faults       \* the failures that the environment may cause

ASSUME SaveAssumption == Pairs \in Nat /\ MaxVersion \in Nat \ {0} /\ NoPid \notin Pids

VARIABLES save_status, kvs_save_child_pid, is_save_pending,
          waiting,     \* coroutines in kvs_save_child_done, by their child
          now,         \* the version of the data in memory
          pc, snap, at,   \* each child: where it is, its data, the next pair
          tmp, dump,   \* kvs_dump.kvsdb.tmp and kvs_dump.kvsdb
          asked,       \* history: the version of the last SAVE that got +OK
          lost         \* history: the last version whose SAVE came to nothing
                       \* without a report

saveVars == <<save_status, kvs_save_child_pid, is_save_pending, waiting>>
files == <<tmp, dump>>
history == <<asked, lost>>
vars == <<saveVars, now, pc, snap, at, files, history>>

Missing == [i \in 1 .. Pairs |-> 0]

Init ==
  /\ save_status = "IDLE" /\ kvs_save_child_pid = NoPid /\ is_save_pending = FALSE
  /\ waiting = {} /\ now = 1
  /\ pc = [p \in Pids |-> "none"] /\ snap = [p \in Pids |-> 0] /\ at = [p \in Pids |-> 1]
  /\ tmp = Missing /\ dump = Missing
  /\ asked = 0 /\ lost = 0

Write ==
  /\ now < MaxVersion /\ now' = now + 1
  /\ UNCHANGED <<saveVars, pc, snap, at, files, history>>
-----------------------------------------------------------------------------
(* kvs_fork_save_child, in a state where the server has reaped done: the    *)
(* child p, or how it went wrong.  Without memory for the coroutine's       *)
(* argument the child runs, and nobody waits for it.                        *)
Start(p, done) ==
  /\ p \in Pids /\ (p \in done \/ pc[p] = "none")
  /\ kvs_save_child_pid' = p
  /\ pc' = [q \in Pids |-> IF q = p THEN "open" ELSE IF q \in done THEN "none" ELSE pc[q]]
  /\ snap' = [snap EXCEPT ![p] = now]
  /\ \/ save_status' = "RUNNING" /\ waiting' = (waiting \ done) \cup {p}
     \/ "malloc" \in Faults /\ save_status' = "ERROR" /\ waiting' = waiting \ done

NotStarted(done) ==
  /\ \/ "socketpair" \in Faults /\ save_status' = "IDLE"
     \/ "fork" \in Faults /\ save_status' = "ERROR"
  /\ kvs_save_child_pid' = IF done = {} THEN kvs_save_child_pid ELSE NoPid
  /\ pc' = [q \in Pids |-> IF q \in done THEN "none" ELSE pc[q]]
  /\ waiting' = waiting \ done
  /\ UNCHANGED snap

kvs_fork_save_child(done) == (\E p \in Pids : Start(p, done)) \/ NotStarted(done)

(* kvs_save_write, and the reply to the command.                            *)
\* Mutant: a running child does not keep another one from being forked.
SaveForksAlways ==
  /\ save_status # "ERROR"
  /\ kvs_fork_save_child({})
  /\ asked' = IF save_status' = "RUNNING" THEN now ELSE asked
  /\ UNCHANGED <<is_save_pending, now, at, files, lost>>

SaveRuns ==
  /\ save_status = "IDLE"
  /\ kvs_fork_save_child({})
  /\ asked' = IF save_status' = "RUNNING" THEN now ELSE asked
  /\ UNCHANGED <<is_save_pending, now, at, files, lost>>

\* Mutant: the SAVE gets +OK and the flag is not set.
SaveIgnored ==
  /\ save_status = "RUNNING"
  /\ asked' = now
  /\ UNCHANGED <<saveVars, now, pc, snap, at, files, lost>>

SavePending ==
  /\ save_status = "RUNNING"
  /\ is_save_pending' = TRUE /\ asked' = now
  /\ UNCHANGED <<save_status, kvs_save_child_pid, waiting, now, pc, snap, at, files, lost>>

kvs_save_write == SaveRuns \/ SavePending
-----------------------------------------------------------------------------
(* kvs_save_child_done: recv returns when the child has sent its result or  *)
(* is gone, and waitpid blocks until it is.                                 *)
Reaped(p) ==
  /\ p \in waiting /\ p = kvs_save_child_pid /\ pc[p] \in {"ok", "failed"}

\* The postponed SAVE runs; what kvs_fork_save_child returns is not looked at.
DonePending(p) ==
  /\ Reaped(p) /\ pc[p] = "ok" /\ is_save_pending
  /\ is_save_pending' = FALSE
  /\ kvs_fork_save_child({p})
  /\ lost' = IF save_status' = "IDLE" THEN asked ELSE lost
  /\ UNCHANGED <<now, at, files, asked>>

\* Mutant: is_save_pending is not tested when the child is done.
DoneForgets(p) ==
  /\ Reaped(p)
  /\ save_status' = IF pc[p] = "ok" THEN "IDLE" ELSE "ERROR"
  /\ kvs_save_child_pid' = NoPid
  /\ waiting' = waiting \ {p}
  /\ pc' = [pc EXCEPT ![p] = "none"]
  /\ UNCHANGED <<is_save_pending, now, snap, at, files, history>>

DoneOnly(p) ==
  /\ Reaped(p) /\ ~(pc[p] = "ok" /\ is_save_pending)
  /\ save_status' = IF pc[p] = "ok" THEN "IDLE" ELSE "ERROR"
  /\ kvs_save_child_pid' = NoPid
  /\ waiting' = waiting \ {p}
  /\ pc' = [pc EXCEPT ![p] = "none"]
  /\ UNCHANGED <<is_save_pending, now, snap, at, files, history>>

kvs_save_child_done(p) == DonePending(p) \/ DoneOnly(p)
-----------------------------------------------------------------------------
(* kvs_save_start, in the child.                                            *)
\* Mutant: the old dump is removed first.
OpenRemovesDump(p) ==
  /\ pc[p] = "open"
  /\ tmp' = Missing /\ dump' = Missing
  /\ pc' = [pc EXCEPT ![p] = "write"] /\ at' = [at EXCEPT ![p] = 1]
  /\ UNCHANGED <<saveVars, now, snap, history>>

ChildOpen(p) ==
  /\ pc[p] = "open"
  /\ tmp' = Missing
  /\ pc' = [pc EXCEPT ![p] = "write"] /\ at' = [at EXCEPT ![p] = 1]
  /\ UNCHANGED <<saveVars, now, snap, dump, history>>

\* What the temporary file may be after the write of a pair.
Written(p) ==
  {[tmp EXCEPT ![at[p]] = v] :
     v \in {snap[p]} \cup (IF "skip" \in Faults THEN {-snap[p]} ELSE {})}

\* kvs_traversal_write.  No result of a completed write is looked at, and an
\* error below the root of the red-black tree is lost: the pair is skipped.
ChildWrite(p) ==
  /\ pc[p] = "write" /\ at[p] <= Pairs
  /\ tmp' \in Written(p)
  /\ at' = [at EXCEPT ![p] = @ + 1]
  /\ UNCHANGED <<saveVars, now, pc, snap, dump, history>>

\* Mutant: the file is renamed while it is being written.
RenameEarly(p) ==
  /\ pc[p] = "write" /\ at[p] >= Pairs
  /\ dump' = tmp /\ tmp' = Missing
  /\ pc' = [pc EXCEPT ![p] = "renamed"]
  /\ UNCHANGED <<saveVars, now, snap, at, history>>

\* fsync and rename; whether rename succeeds is not looked at.
ChildRename(p) ==
  /\ pc[p] = "write" /\ at[p] = Pairs + 1
  /\ \/ dump' = tmp /\ tmp' = Missing /\ UNCHANGED lost
     \/ "rename" \in Faults /\ lost' = snap[p] /\ UNCHANGED files
  /\ pc' = [pc EXCEPT ![p] = "renamed"]
  /\ UNCHANGED <<saveVars, now, snap, at, asked>>

ChildExit(p) ==
  /\ pc[p] = "renamed"
  /\ pc' = [pc EXCEPT ![p] = "ok"]
  /\ UNCHANGED <<saveVars, now, snap, at, files, history>>

\* An error is returned, or the child is killed.
ChildFails(p) ==
  /\ "child" \in Faults /\ pc[p] \in {"open", "write", "renamed"}
  /\ pc' = [pc EXCEPT ![p] = "failed"]
  /\ UNCHANGED <<saveVars, now, snap, at, files, history>>

kvs_save_start(p) == ChildOpen(p) \/ ChildWrite(p) \/ ChildRename(p) \/ ChildExit(p)

Next ==
  \/ Write \/ kvs_save_write
  \/ \E p \in Pids : kvs_save_child_done(p) \/ kvs_save_start(p) \/ ChildFails(p)

Spec == Init /\ [][Next]_vars

\* The scheduler of the coroutines resumes one whose socket is readable, and
\* the kernel runs the child.
FairSpec ==
  /\ Spec
  /\ \A p \in Pids : WF_vars(kvs_save_child_done(p)) /\ WF_vars(kvs_save_start(p))
-----------------------------------------------------------------------------
States == {"none", "open", "write", "renamed", "ok", "failed"}

Files == [1 .. Pairs -> -MaxVersion .. MaxVersion]

TypeOK ==
  /\ save_status \in {"IDLE", "RUNNING", "ERROR"}
  /\ kvs_save_child_pid \in Pids \cup {NoPid} /\ is_save_pending \in BOOLEAN
  /\ waiting \in SUBSET Pids /\ now \in 1 .. MaxVersion
  /\ asked \in 0 .. MaxVersion /\ lost \in 0 .. MaxVersion
  /\ pc \in [Pids -> States] /\ snap \in [Pids -> 0 .. MaxVersion]
  /\ at \in [Pids -> 1 .. Pairs + 1]
  /\ tmp \in Files /\ dump \in Files

Alive(p) == pc[p] \in {"open", "write", "renamed"}

\* kvs_dump.kvsdb.tmp has one name: two children never run at a time, whatever
\* fails in the server or in a child, with or without a coroutine to wait for
\* the child.
OneChild == \A p, q \in Pids : Alive(p) /\ Alive(q) => p = q

\* A SAVE that was put off is not forgotten: while is_save_pending is set,
\* either a coroutine waits for the running child and will start it, or the
\* module is in its error state and says so to the next SAVE.
PendingHasRunner ==
  is_save_pending => \/ save_status = "ERROR"
                     \/ save_status = "RUNNING" /\ waiting = {kvs_save_child_pid}

\* The version an entry of a file is of, and an entry of version v: it may be
\* missing only if its write may fail unnoticed.
Version(e) == IF e < 0 THEN -e ELSE e

Entry(e, v) == e = v \/ ("skip" \in Faults /\ e = -v)

\* kvs_dump.kvsdb is at any time one version of the data, complete but for the
\* pairs whose write failed unnoticed: a reader after a crash never finds a
\* part of a dump or a mix of two.
DumpIsSnapshot == \E v \in 0 .. now : \A i \in 1 .. Pairs : Entry(dump[i], v)

\* A dump is never replaced by an older one, whichever children ran and failed
\* since (rename in kvs_save_start, and the SAVEs that were put off).
DumpNeverOlder == [][\A i \in 1 .. Pairs : Version(dump[i]) <= Version(dump'[i])]_vars

\* Every SAVE that got +OK, at once or put off, leads to a dump that is recent
\* enough or to the error state, unless it is one of those that the code loses
\* without a report: socketpair fails as kvs_save_child_done starts it, or the
\* rename fails in the child.
SaveHonoured ==
  \A v \in 1 .. MaxVersion :
    asked = v ~> \/ save_status = "ERROR" \/ lost >= v
                 \/ \A i \in 1 .. Pairs : Version(dump[i]) >= v
=============================================================================
