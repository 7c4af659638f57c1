---------------------------- MODULE ProcessProofs ---------------------------
(***************************************************************************)
(* The two places where the server leaves its one thread: the child process *)
(* of SAVE (SaveChild) and the threads of the replication agent             *)
(* (AgentThreads), for every value of their constants.                      *)
(***************************************************************************)
EXTENDS SaveChild, AgentThreads, TLAPS

\* The time the prover may take for a leaf; a few milliseconds are the rule.
USE SMTT(20)

-----------------------------------------------------------------------------
(* SaveChild for every set of process ids, number of pairs and faults.      *)
(* OneChild follows from what each status says of the children: none when   *)
(* IDLE, only the one waited for when RUNNING, at most one that nobody      *)
(* waits for when ERROR, which no step leaves.                              *)

StatusInv ==
  /\ save_status = "IDLE" => waiting = {} /\ \A p \in Pids : pc[p] = "none"
  /\ save_status = "RUNNING" =>
       /\ kvs_save_child_pid \in Pids /\ waiting = {kvs_save_child_pid}
       /\ \A p \in Pids : p # kvs_save_child_pid => pc[p] = "none"
  /\ save_status = "ERROR" =>
       /\ waiting = {}
       /\ \A p, q \in Pids : pc[p] # "none" /\ pc[q] # "none" => p = q
  /\ is_save_pending => save_status # "IDLE"

SafeInv == TypeOK /\ StatusInv

\* The status at the start of the process.
LEMMA InitSafe == Init => SafeInv
<1>1. SUFFICES ASSUME Init PROVE SafeInv
  OBVIOUS
<1>2. pc \in [Pids -> States] /\ snap \in [Pids -> 0 .. MaxVersion]
      /\ at \in [Pids -> 1 .. Pairs + 1]
  BY <1>1, SaveAssumption DEF Init, States
<1>3. tmp \in Files /\ dump \in Files
  BY <1>1, SaveAssumption DEF Init, Files, Missing
<1>4. TypeOK
  <2>1. 1 \in 1 .. MaxVersion /\ 0 \in 0 .. MaxVersion
    BY SaveAssumption
  <2>2. {} \in SUBSET Pids /\ NoPid \in Pids \cup {NoPid}
    OBVIOUS
  <2>3. QED
    BY <1>1, <1>2, <1>3, <2>1, <2>2, Zenon DEF Init, TypeOK
<1>5. StatusInv
  BY <1>1 DEF Init, StatusInv
<1>6. QED
  BY <1>4, <1>5 DEF SafeInv

\* A fork in a state in which no child is left but the one just reaped.
LEMMA ForkSafe ==
  ASSUME SafeInv, NEW done \in SUBSET Pids, \A p \in Pids : p \in done \/ pc[p] = "none",
         waiting \subseteq done, kvs_fork_save_child(done)
  PROVE  /\ save_status' \in {"IDLE", "RUNNING", "ERROR"}
         /\ kvs_save_child_pid' \in Pids \cup {NoPid}
         /\ waiting' \in SUBSET Pids
         /\ pc' \in [Pids -> States] /\ snap' \in [Pids -> 0 .. MaxVersion]
         /\ save_status' = "IDLE" => waiting' = {} /\ \A p \in Pids : pc'[p] = "none"
         /\ save_status' = "RUNNING" =>
              /\ kvs_save_child_pid' \in Pids /\ waiting' = {kvs_save_child_pid'}
              /\ \A p \in Pids : p # kvs_save_child_pid' => pc'[p] = "none"
         /\ save_status' = "ERROR" =>
              /\ waiting' = {}
              /\ \A p, q \in Pids : pc'[p] # "none" /\ pc'[q] # "none" => p = q
<1>1. CASE NotStarted(done)
  BY <1>1 DEF NotStarted, SafeInv, TypeOK, States
<1>2. ASSUME NEW p \in Pids, Start(p, done)
      PROVE  /\ save_status' \in {"RUNNING", "ERROR"} /\ kvs_save_child_pid' = p
             /\ waiting' = IF save_status' = "RUNNING" THEN {p} ELSE {}
             /\ pc' \in [Pids -> States] /\ snap' \in [Pids -> 0 .. MaxVersion]
             /\ \A q \in Pids : q # p => pc'[q] = "none"
  BY <1>2 DEF Start, SafeInv, TypeOK, States
<1>3. QED
  BY <1>1, <1>2 DEF kvs_fork_save_child

\* Every step keeps the types and what the status says of the children.
LEMMA NextSafe == SafeInv /\ [Next]_vars => SafeInv'
<1>1. SUFFICES ASSUME SafeInv, [Next]_vars PROVE SafeInv'
  OBVIOUS
<1>2. CASE UNCHANGED vars
  BY <1>1, <1>2 DEF SafeInv, TypeOK, StatusInv, vars, saveVars, files, history
<1>3. CASE Write
  BY <1>1, <1>3, SaveAssumption DEF Write, SafeInv, TypeOK, StatusInv, saveVars, files, history
<1>4. CASE SaveRuns
  <2>1. \A p \in Pids : p \in {} \/ pc[p] = "none"
    BY <1>1, <1>4 DEF SaveRuns, SafeInv, StatusInv
  <2>2. waiting \subseteq {} /\ ~is_save_pending
    BY <1>1, <1>4 DEF SaveRuns, SafeInv, StatusInv, TypeOK
  <2>3. kvs_fork_save_child({}) /\ UNCHANGED <<is_save_pending, now, at, files, lost>>
    BY <1>4 DEF SaveRuns
  <2>4. asked' \in 0 .. MaxVersion
    BY <1>1, <1>4 DEF SaveRuns, SafeInv, TypeOK
  <2>5. QED
    BY <1>1, <2>1, <2>2, <2>3, <2>4, ForkSafe DEF SafeInv, TypeOK, StatusInv, files
<1>5. CASE SavePending
  BY <1>1, <1>5, SaveAssumption DEF SavePending, SafeInv, TypeOK, StatusInv, files
<1>6. ASSUME NEW p \in Pids, DonePending(p) PROVE SafeInv'
  <2>1. save_status = "RUNNING" /\ waiting = {p}
    BY <1>1, <1>6 DEF DonePending, Reaped, SafeInv, TypeOK, StatusInv
  <2>2. \A q \in Pids : q \in {p} \/ pc[q] = "none"
    BY <1>1, <1>6, <2>1 DEF SafeInv, StatusInv
  <2>3. kvs_fork_save_child({p}) /\ is_save_pending' = FALSE
        /\ UNCHANGED <<now, at, files, asked>>
    BY <1>6 DEF DonePending
  <2>4. lost' \in 0 .. MaxVersion
    BY <1>1, <1>6 DEF DonePending, SafeInv, TypeOK
  <2>5. QED
    BY <1>1, <2>1, <2>2, <2>3, <2>4, ForkSafe, Zenon DEF SafeInv, TypeOK, StatusInv, files
<1>7. ASSUME NEW p \in Pids, DoneOnly(p) PROVE SafeInv'
  <2>1. save_status = "RUNNING" /\ waiting = {p} /\ kvs_save_child_pid = p
    BY <1>1, <1>7 DEF DoneOnly, Reaped, SafeInv, TypeOK, StatusInv
  <2>2. \A q \in Pids : pc'[q] = "none"
    BY <1>1, <1>7, <2>1 DEF DoneOnly, SafeInv, TypeOK, StatusInv
  <2>3. waiting' = {} /\ save_status' \in {"IDLE", "ERROR"}
    BY <1>7, <2>1 DEF DoneOnly
  <2>4. save_status' = "IDLE" => ~is_save_pending'
    BY <1>1, <1>7 DEF DoneOnly, SafeInv, TypeOK
  <2>5. TypeOK'
    BY <1>1, <1>7 DEF DoneOnly, SafeInv, TypeOK, States, files, history
  <2>6. QED
    BY <2>2, <2>3, <2>4, <2>5 DEF SafeInv, StatusInv
<1>8. ASSUME NEW p \in Pids, kvs_save_start(p) \/ ChildFails(p) PROVE SafeInv'
  <2>1. pc[p] # "none" /\ UNCHANGED <<saveVars, now, snap, asked>>
        /\ \E st \in States : pc' = [pc EXCEPT ![p] = st]
    <3>1. CASE ChildWrite(p)
      BY <1>1, <3>1 DEF ChildWrite, SafeInv, TypeOK, history
    <3>2. QED
      BY <1>8, <3>1 DEF kvs_save_start, ChildOpen, ChildRename, ChildExit,
                        ChildFails, States, history
  <2>6. lost' \in 0 .. MaxVersion
    BY <1>1, <1>8 DEF kvs_save_start, ChildOpen, ChildWrite, ChildRename, ChildExit,
                      ChildFails, SafeInv, TypeOK, history
  <2>4. pc' \in [Pids -> States] /\ \A q \in Pids : q # p => pc'[q] = pc[q]
    BY <1>1, <2>1 DEF SafeInv, TypeOK
  <2>2. at' \in [Pids -> 1 .. Pairs + 1]
    BY <1>1, <1>8, SaveAssumption
       DEF kvs_save_start, ChildOpen, ChildWrite, ChildRename, ChildExit, ChildFails,
           SafeInv, TypeOK, files
  <2>3. tmp' \in Files /\ dump' \in Files
    <3>1. Missing \in Files
      BY SaveAssumption DEF Missing, Files
    <3>2. Written(p) \subseteq Files
      <4>1. tmp \in Files /\ snap[p] \in 0 .. MaxVersion
        BY <1>1 DEF SafeInv, TypeOK
      <4>2. snap[p] \in -MaxVersion .. MaxVersion /\ -snap[p] \in -MaxVersion .. MaxVersion
        BY <4>1, SaveAssumption
      <4>3. QED
        BY <4>1, <4>2 DEF Written, Files
    <3>3. QED
      BY <1>1, <1>8, <3>1, <3>2
         DEF kvs_save_start, ChildOpen, ChildWrite, ChildRename, ChildExit, ChildFails,
             SafeInv, TypeOK, files
  <2>5. QED
    BY <1>1, <2>1, <2>2, <2>3, <2>4, <2>6 DEF SafeInv, TypeOK, StatusInv, saveVars
<1>9. QED
  BY <1>1, <1>2, <1>3, <1>4, <1>5, <1>6, <1>7, <1>8
     DEF Next, kvs_save_write, kvs_save_child_done


\* The invariant of the status follows for all behaviours.
LEMMA SafeAlways == Spec => []SafeInv
  BY InitSafe, NextSafe, PTL DEF Spec

\* In every status at most one process id is that of a child.
LEMMA OneId ==
  ASSUME SafeInv, NEW p \in Pids, NEW q \in Pids, pc[p] # "none", pc[q] # "none"
  PROVE  p = q
  BY DEF SafeInv, TypeOK, StatusInv

\* The variables of SaveChild keep their types, so no child writes a pair that
\* is not there.
THEOREM SaveTypeCorrect == Spec => []TypeOK
<1>1. SafeInv => TypeOK
  BY DEF SafeInv
<1>2. QED
  BY <1>1, SafeAlways, PTL

\* Two children never run at a time, whatever fails: kvs_save_write forks only
\* when no child is left, and the error state is never left.
THEOREM AtMostOneChild == Spec => []OneChild
<1>1. SafeInv => OneChild
  BY OneId DEF OneChild, Alive
<1>2. QED
  BY <1>1, SafeAlways, PTL

\* A postponed SAVE has a coroutine that will run it, or the module is in its
\* error state.
THEOREM PendingIsServed == Spec => []PendingHasRunner
<1>1. SafeInv => PendingHasRunner
  BY DEF SafeInv, TypeOK, StatusInv, PendingHasRunner
<1>2. QED
  BY <1>1, SafeAlways, PTL
-----------------------------------------------------------------------------
(* The dump.  The one child has written the pairs before at[p] of its own   *)
(* version, which is not older than the dump.                               *)
DumpInv ==
  /\ \A p \in Pids : pc[p] = "write" => \A i \in 1 .. at[p] - 1 : Entry(tmp[i], snap[p])
  /\ \A p \in Pids : pc[p] \in {"open", "write"} => snap[p] <= now
  /\ \E v \in 0 .. now :
       /\ \A i \in 1 .. Pairs : Entry(dump[i], v)
       /\ \A p \in Pids : pc[p] \in {"open", "write"} => v <= snap[p]

\* What kvs_fork_save_child does to the children and what it leaves alone.
LEMMA ForkDump ==
  ASSUME SafeInv, NEW done \in SUBSET Pids, kvs_fork_save_child(done),
         NEW p \in Pids, pc'[p] \in {"open", "write"}
  PROVE  \/ pc'[p] = "open" /\ snap'[p] = now
         \/ pc'[p] = pc[p] /\ snap'[p] = snap[p]
  BY DEF kvs_fork_save_child, Start, NotStarted, SafeInv, TypeOK, States

\* A step of the server keeps the invariant of the dump.
LEMMA ServerDump ==
  ASSUME SafeInv, DumpInv, now' \in Nat, now' >= now, UNCHANGED <<at, tmp, dump>>,
         \A p \in Pids : pc'[p] \in {"open", "write"} =>
           \/ pc'[p] = "open" /\ snap'[p] = now
           \/ pc'[p] = pc[p] /\ snap'[p] = snap[p]
  PROVE  DumpInv'
<1>1. now \in Nat /\ snap \in [Pids -> 0 .. MaxVersion]
  BY SaveAssumption DEF SafeInv, TypeOK
<1>2. \A p \in Pids : pc'[p] = "write" => \A i \in 1 .. at'[p] - 1 : Entry(tmp'[i], snap'[p])
  BY DEF DumpInv
<1>3. \A p \in Pids : pc'[p] \in {"open", "write"} => snap'[p] <= now'
  BY <1>1, SaveAssumption DEF DumpInv
<1>4. PICK v \in 0 .. now :
        /\ \A i \in 1 .. Pairs : Entry(dump[i], v)
        /\ \A p \in Pids : pc[p] \in {"open", "write"} => v <= snap[p]
  BY DEF DumpInv
<1>5. v \in 0 .. now' /\ \A i \in 1 .. Pairs : Entry(dump'[i], v)
  BY <1>1, <1>4
<1>6. \A p \in Pids : pc'[p] \in {"open", "write"} => v <= snap'[p]
  BY <1>1, <1>4
<1>7. QED
  BY <1>2, <1>3, <1>5, <1>6 DEF DumpInv

\* An entry of version v is of version v.
LEMMA EntryVersion ==
  ASSUME NEW v \in Nat, NEW e \in Int, Entry(e, v)
  PROVE  Version(e) = v
  BY DEF Entry, Version

\* A dump that stays as it is has not become older.
LEMMA SameVersion == ASSUME NEW e \in Int PROVE Version(e) <= Version(e)
  BY DEF Version

\* Every step keeps the invariant of the dump, and replaces the dump only by
\* one of a later version.
LEMMA NextDump ==
  ASSUME SafeInv, DumpInv, [Next]_vars
  PROVE  DumpInv' /\ (\A i \in 1 .. Pairs : Version(dump[i]) <= Version(dump'[i]))
<1>1. now \in Nat /\ pc \in [Pids -> States] /\ snap \in [Pids -> 0 .. MaxVersion]
      /\ at \in [Pids -> 1 .. Pairs + 1] /\ tmp \in Files /\ dump \in Files
  BY SaveAssumption DEF SafeInv, TypeOK
<1>16. \A i \in 1 .. Pairs : dump[i] \in Int /\ Version(dump[i]) <= Version(dump[i])
  BY <1>1, SameVersion, SaveAssumption DEF Files
<1>2. PICK v \in 0 .. now :
        /\ \A i \in 1 .. Pairs : Entry(dump[i], v)
        /\ \A p \in Pids : pc[p] \in {"open", "write"} => v <= snap[p]
  BY DEF DumpInv
<1>3. ASSUME UNCHANGED <<at, tmp, dump>>, now' \in Nat, now' >= now,
             \A p \in Pids : pc'[p] \in {"open", "write"} =>
               \/ pc'[p] = "open" /\ snap'[p] = now
               \/ pc'[p] = pc[p] /\ snap'[p] = snap[p]
      PROVE  DumpInv' /\ (\A i \in 1 .. Pairs : Version(dump[i]) <= Version(dump'[i]))
  BY <1>3, <1>16, ServerDump
<1>4. CASE UNCHANGED vars
  BY <1>1, <1>3, <1>4 DEF vars, saveVars, files
<1>5. CASE Write
  BY <1>1, <1>3, <1>5 DEF Write, saveVars, files
<1>6. CASE SaveRuns
  BY <1>1, <1>3, <1>6, ForkDump DEF SaveRuns, files
<1>7. CASE SavePending
  BY <1>1, <1>3, <1>7 DEF SavePending, files
<1>8. ASSUME NEW p \in Pids, kvs_save_child_done(p)
      PROVE  DumpInv' /\ (\A i \in 1 .. Pairs : Version(dump[i]) <= Version(dump'[i]))
  <2>1. CASE DonePending(p)
    BY <1>1, <1>3, <2>1, ForkDump DEF DonePending, files
  <2>2. CASE DoneOnly(p)
    BY <1>1, <1>3, <2>2 DEF DoneOnly, files
  <2>3. QED
    BY <1>8, <2>1, <2>2 DEF kvs_save_child_done
<1>9. ASSUME NEW p \in Pids, ChildExit(p) \/ ChildFails(p)
      PROVE  DumpInv' /\ (\A i \in 1 .. Pairs : Version(dump[i]) <= Version(dump'[i]))
  BY <1>1, <1>3, <1>9 DEF ChildExit, ChildFails, files
<1>10. ASSUME NEW p \in Pids, pc[p] # "none", NEW q \in Pids, q # p
       PROVE  pc[q] = "none"
  BY <1>10, OneId
<1>11. ASSUME NEW p \in Pids, ChildOpen(p)
       PROVE  DumpInv' /\ (\A i \in 1 .. Pairs : Version(dump[i]) <= Version(dump'[i]))
  <2>1. pc[p] = "open" /\ pc' = [pc EXCEPT ![p] = "write"] /\ at' = [at EXCEPT ![p] = 1]
        /\ UNCHANGED <<now, snap, dump>>
    BY <1>11 DEF ChildOpen
  <2>2. \A q \in Pids : pc'[q] \in {"open", "write"} => q = p
    BY <1>1, <1>10, <2>1
  <2>3. \A i \in 1 .. at'[p] - 1 : FALSE
    BY <1>1, <2>1
  <2>4. snap[p] <= now /\ v <= snap[p]
    BY <1>2, <2>1 DEF DumpInv
  <2>5. QED
    BY <1>1, <1>2, <1>16, <2>1, <2>2, <2>3, <2>4 DEF DumpInv
<1>12. ASSUME NEW p \in Pids, ChildWrite(p)
       PROVE  DumpInv' /\ (\A i \in 1 .. Pairs : Version(dump[i]) <= Version(dump'[i]))
  <2>1. pc[p] = "write" /\ at' = [at EXCEPT ![p] = @ + 1] /\ UNCHANGED <<now, pc, snap, dump>>
    BY <1>12 DEF ChildWrite
  <2>2. \A q \in Pids : pc[q] \in {"open", "write"} => q = p
    BY <1>10, <2>1
  <2>3. at[p] \in 1 .. Pairs
    BY <1>1, <1>12, SaveAssumption DEF ChildWrite
  <2>4. PICK e : Entry(e, snap[p]) /\ tmp' = [tmp EXCEPT ![at[p]] = e]
    BY <1>12 DEF ChildWrite, Written, Entry
  <2>5. \A i \in 1 .. at[p] : Entry(tmp'[i], snap[p])
    <3>1. \A i \in 1 .. at[p] - 1 : Entry(tmp[i], snap[p])
      BY <2>1 DEF DumpInv
    <3>2. \A i \in 1 .. at[p] - 1 : tmp'[i] = tmp[i]
      BY <1>1, <2>3, <2>4, SaveAssumption DEF Files
    <3>3. tmp'[at[p]] = e
      BY <1>1, <2>3, <2>4 DEF Files
    <3>4. \A i \in 1 .. at[p] : i = at[p] \/ i \in 1 .. at[p] - 1
      BY <2>3, SaveAssumption
    <3>5. QED
      BY <2>4, <3>1, <3>2, <3>3, <3>4
  <2>6. at'[p] - 1 = at[p]
    BY <1>1, <2>1, <2>3, SaveAssumption
  <2>7. DumpInv'
    BY <1>1, <1>2, <2>1, <2>2, <2>5, <2>6 DEF DumpInv
  <2>8. QED
    BY <1>16, <2>1, <2>7
<1>13. ASSUME NEW p \in Pids, ChildRename(p)
       PROVE  DumpInv' /\ (\A i \in 1 .. Pairs : Version(dump[i]) <= Version(dump'[i]))
  <2>1. pc[p] = "write" /\ at[p] = Pairs + 1 /\ pc' = [pc EXCEPT ![p] = "renamed"]
        /\ UNCHANGED <<now, snap, at>> /\ (dump' = tmp \/ dump' = dump)
    BY <1>13 DEF ChildRename, files
  <2>2. \A q \in Pids : pc'[q] \notin {"open", "write"}
    BY <1>1, <1>10, <2>1
  <2>3. snap[p] \in 0 .. now /\ v <= snap[p]
    BY <1>1, <1>2, <2>1 DEF DumpInv
  <2>4. \A i \in 1 .. Pairs : Entry(tmp[i], snap[p])
    BY <2>1, SaveAssumption DEF DumpInv
  <2>5. PICK w \in 0 .. now : w >= v /\ \A i \in 1 .. Pairs : Entry(dump'[i], w)
    <3>1. CASE dump' = tmp
      BY <2>3, <2>4, <3>1
    <3>2. CASE dump' = dump
      BY <1>1, <1>2, <3>2
    <3>3. QED
      BY <2>1, <3>1, <3>2
  <2>6. DumpInv'
    BY <2>1, <2>2, <2>5 DEF DumpInv
  <2>7. ASSUME NEW i \in 1 .. Pairs PROVE Version(dump[i]) <= Version(dump'[i])
    <3>1. dump[i] \in Int /\ tmp[i] \in Int
      BY <1>1, SaveAssumption DEF Files
    <3>2. dump'[i] \in Int
      BY <2>1, <3>1
    <3>3. v \in Nat /\ w \in Nat /\ Entry(dump[i], v) /\ Entry(dump'[i], w)
      BY <1>1, <1>2, <2>5
    <3>4. Version(dump[i]) = v /\ Version(dump'[i]) = w
      BY <3>1, <3>2, <3>3, EntryVersion
    <3>5. QED
      BY <2>5, <3>4
  <2>8. QED
    BY <2>6, <2>7
<1>14. QED
  BY <1>4, <1>5, <1>6, <1>7, <1>8, <1>9, <1>11, <1>12, <1>13
     DEF Next, kvs_save_write, kvs_save_start

\* The first dump.
LEMMA InitDump == Init => DumpInv
<1>1. SUFFICES ASSUME Init PROVE DumpInv
  OBVIOUS
<1>2. 0 \in 0 .. now /\ \A i \in 1 .. Pairs : Entry(dump[i], 0)
  BY <1>1 DEF Init, Missing, Entry
<1>3. \A p \in Pids : pc[p] = "none"
  BY <1>1 DEF Init
<1>4. QED
  BY <1>2, <1>3 DEF DumpInv

LEMMA AlwaysDump == Spec => [](SafeInv /\ DumpInv)
<1>1. Init => SafeInv /\ DumpInv
  BY InitSafe, InitDump
<1>2. SafeInv /\ DumpInv /\ [Next]_vars => SafeInv' /\ DumpInv'
  BY NextSafe, NextDump
<1> QED
  BY <1>1, <1>2, PTL DEF Spec

\* kvs_dump.kvsdb is at any time one complete version of the data, whatever
\* fails; a pair is missing from it only where a write may fail unnoticed.
THEOREM DumpAlwaysSnapshot == Spec => []DumpIsSnapshot
<1>1. SafeInv /\ DumpInv => DumpIsSnapshot
  BY DEF DumpInv, DumpIsSnapshot
<1> QED
  BY <1>1, AlwaysDump, PTL

\* The rename in kvs_save_start never replaces kvs_dump.kvsdb by an older
\* version, whichever children ran or failed before and however many SAVEs
\* were put off.
THEOREM DumpNeverGoesBack == Spec => DumpNeverOlder
<1>1. SafeInv /\ DumpInv /\ [Next]_vars
        => [\A i \in 1 .. Pairs : Version(dump[i]) <= Version(dump'[i])]_vars
  BY NextDump
<1> QED
  BY <1>1, AlwaysDump, PTL DEF Spec, DumpNeverOlder

-----------------------------------------------------------------------------
(* AgentThreads for every capacity of the cache, every set of descriptors   *)
(* and every table size.                                                    *)

\* An accepted descriptor is open until it is in the table, and one that is
\* about to be closed has left it.
OpenInv ==
  /\ TableIsOpen
  /\ server = "insert" => client \in open
  /\ server = "close" => client \notin table

LEMMA OpenInvInit == ThreadsInit => OpenInv
BY DEF ThreadsInit, OpenInv, TableIsOpen

LEMMA OpenInvNext == OpenInv /\ [ThreadsNext]_threadVars => OpenInv'
<1> SUFFICES ASSUME OpenInv, [ThreadsNext]_threadVars PROVE OpenInv'
  OBVIOUS
<1> USE DEF OpenInv, TableIsOpen
<1>1. ASSUME UNCHANGED <<table, open>>, UNCHANGED <<server, client>> PROVE OpenInv'
  BY <1>1
<1>2. CASE UNCHANGED threadVars
  BY <1>1, <1>2 DEF threadVars, slaveVars, serverVars
<1>3. CASE Main
  <2>1. CASE InitServerThread
    BY <2>1 DEF InitServerThread, slaveVars
  <2>2. CASE DeinitFree
    BY <2>2 DEF DeinitFree, kvs_slaves_destroy, serverVars
  <2>3. CASE \/ InitAgentThread \/ LoadBpf \/ PollLoop \/ PollReturns
             \/ (\E buf \in Buffers : handle_event(buf))
             \/ DeinitFlag \/ DeinitBroadcast
    BY <1>1, <2>3 DEF InitAgentThread, LoadBpf, PollLoop, PollReturns, handle_event,
                      DeinitFlag, DeinitBroadcast, slaveVars, serverVars
  <2> QED
    BY <1>3, <2>1, <2>2, <2>3 DEF Main
<1>4. CASE Agent \/ SpuriousWake \/ sig_handler
  <2>1. CASE \E fd \in Fds : SendOne(fd)
    BY <2>1 DEF SendOne, serverVars
  <2>2. CASE ~\E fd \in Fds : SendOne(fd)
    BY <1>1, <1>4, <2>2 DEF Agent, SpuriousWake, sig_handler, AgentTop, AgentLock,
         AgentTest, AgentSleep, AgentWakes, AgentTake, AgentTakeFails,
         AgentHandleFails, AgentHandled, SendBegins, SendEnds, slaveVars, serverVars
  <2> QED
    BY <2>1, <2>2
<1>5. CASE Server
  <2>1. CASE init_server \/ ServerTop \/ ServerNext \/ ServerFails
    BY <2>1 DEF init_server, ServerTop, ServerNext, ServerFails, ServerGoes, slaveVars
  <2>2. CASE ServerInserts \/ ServerDeletes \/ ServerCloses
    BY <2>2 DEF ServerInserts, ServerDeletes, ServerCloses, ServerGoes
  <2>3. CASE \E fd \in Fds : ServerAccepts(fd) \/ ServerHears(fd)
    BY <2>3 DEF ServerAccepts, ServerHears, ServerGoes, slaveVars
  <2> QED
    BY <1>5, <2>1, <2>2, <2>3 DEF Server, ServerWorks
<1> QED
  BY <1>2, <1>3, <1>4, <1>5 DEF ThreadsNext

\* kvs_agent_send never writes to a descriptor that was closed.
THEOREM TableAlwaysOpen == ThreadsSpec => []TableIsOpen
<1>1. OpenInv => TableIsOpen
  BY DEF OpenInv
<1> QED
  BY <1>1, OpenInvInit, OpenInvNext, PTL DEF ThreadsSpec
-----------------------------------------------------------------------------
\* The mutex is held from the test to the wait, the queue is empty in
\* between, and the flag is set before the broadcast.
WakeInv ==
  /\ cacheHeld \in BOOLEAN
  /\ cacheHeld <=> agent \in {"test", "sleep"}
  /\ agent = "sleep" => queue = <<>>
  /\ main \in {"init", "created"} => agent = "none"
  /\ main \in {"broadcast", "join"} => existing
  /\ NoLostWakeUp

LEMMA WakeInvInit == ThreadsInit => WakeInv
BY Zenon DEF ThreadsInit, WakeInv, NoLostWakeUp, Cache!Init

LEMMA WakeInvNext == WakeInv /\ [ThreadsNext]_threadVars => WakeInv'
<1> SUFFICES ASSUME WakeInv, [ThreadsNext]_threadVars PROVE WakeInv'
  OBVIOUS
<1> USE DEF WakeInv, NoLostWakeUp
<1>1. CASE UNCHANGED threadVars
  BY <1>1 DEF threadVars, agentVars, cacheVars
<1>2. CASE Main
  <2>1. CASE InitServerThread \/ LoadBpf \/ PollLoop \/ PollReturns
    BY <2>1 DEF InitServerThread, LoadBpf, PollLoop, PollReturns, MainGoes,
                cacheVars, agentVars
  <2>6. CASE InitAgentThread
    <3>1. /\ main = "created" /\ main' \in {"load", "over"} /\ agent' \in {agent, "top"}
          /\ UNCHANGED <<queue, cacheHeld, existing, signalled>>
      BY <2>6 DEF InitAgentThread, MainGoes, cacheVars
    <3> QED
      BY <3>1
  <2>2. ASSUME NEW buf \in Buffers, handle_event(buf) PROVE WakeInv'
    <3>1. /\ ~cacheHeld /\ main = "polling" /\ UNCHANGED <<main, agent, cacheHeld>>
          /\ signalled' = (agent = "waiting")
      BY <2>2 DEF handle_event, WakeAgent, agentVars
    <3>2. agent = "waiting" => signalled'
      BY <3>1, Zenon
    <3> QED
      BY <3>1, <3>2
  <2>3. CASE DeinitFlag
    BY <2>3 DEF DeinitFlag, MainGoes, cacheVars, agentVars
  <2>4. CASE DeinitBroadcast
    <3>1. /\ ~cacheHeld /\ main = "broadcast" /\ main' = "join"
          /\ UNCHANGED <<agent, cacheHeld, queue, existing>>
          /\ signalled' = (agent = "waiting")
      BY <2>4 DEF DeinitBroadcast, MainGoes, WakeAgent, agentVars, cacheVars
    <3>2. agent = "waiting" => signalled'
      BY <3>1, Zenon
    <3> QED
      BY <3>1, <3>2
  <2>5. CASE DeinitFree
    BY <2>5 DEF DeinitFree, MainGoes, cacheVars, agentVars
  <2> QED
    BY <1>2, <2>1, <2>2, <2>3, <2>4, <2>5, <2>6 DEF Main
<1>3. CASE Agent
  <2>1. CASE AgentTop
    BY <2>1 DEF AgentTop, AgentGoes, cacheVars
  <2>6. CASE AgentLock
    <3>1. /\ agent = "lock" /\ agent' = "test" /\ cacheHeld' = TRUE
          /\ UNCHANGED <<queue, main, existing, signalled>>
      BY <2>6 DEF AgentLock, AgentGoes, cacheVars
    <3> QED
      BY <3>1
  <2>2. CASE AgentTest \/ AgentSleep
    BY <2>2, Zenon DEF AgentTest, AgentSleep, AgentGoes, cacheVars
  <2>3. CASE AgentWakes \/ AgentHandleFails \/ AgentHandled
    BY <2>3 DEF AgentWakes, AgentHandleFails, AgentHandled, AgentGoes, cacheVars
  <2>4. CASE AgentTake \/ AgentTakeFails
    BY <2>4, Zenon DEF AgentTake, AgentTakeFails, AgentGoes
  <2>5. CASE SendBegins \/ SendEnds \/ \E fd \in Fds : SendOne(fd)
    BY <2>5 DEF SendBegins, SendEnds, SendOne, AgentGoes, cacheVars
  <2> QED
    BY <1>3, <2>1, <2>2, <2>3, <2>4, <2>5, <2>6 DEF Agent
<1>4. CASE Server
  BY <1>4 DEF Server, ServerWorks, init_server, ServerTop, ServerNext, ServerFails,
              ServerInserts, ServerDeletes, ServerCloses, ServerAccepts, ServerHears,
              cacheVars, agentVars
<1>5. CASE SpuriousWake \/ sig_handler
  BY <1>5 DEF SpuriousWake, sig_handler, AgentGoes, cacheVars, agentVars
<1> QED
  BY <1>1, <1>2, <1>3, <1>4, <1>5 DEF ThreadsNext

\* No record and no broadcast leaves the agent thread asleep.
THEOREM NeverLosesWakeUp == ThreadsSpec => []NoLostWakeUp
<1>1. WakeInv => NoLostWakeUp
  BY DEF WakeInv
<1> QED
  BY <1>1, WakeInvInit, WakeInvNext, PTL DEF ThreadsSpec
=============================================================================
