----------------------------- MODULE Persistence ----------------------------
(***************************************************************************)
(* The append-only file of kvs-module/kvs_log.c and the dump of             *)
(* kvs-module/kvs_save.c, across crashes.                                   *)
(*                                                                         *)
(* A successful write is executed, and its frame is submitted to io_uring   *)
(* at the next offset; the kernel completes submitted writes in any order,  *)
(* and nothing is ever synced.  SAVE replaces the dump and leaves the file  *)
(* alone.  After a restart the dump is loaded and the whole file executed   *)
(* over it, up to the first frame that cannot be parsed; new frames go to   *)
(* the end of the file.  A frame is in the file whole or not at all.        *)
(***************************************************************************)
EXTENDS KvStore

CONSTANTS Writes,      \* the write commands clients send
          Faults,      \* the failures that the environment may cause
          MaxFrames,   \* bound: frames in the file
          MaxDumps,    \* bound: dumps of which none is known to be on disk
          MaxCrashes   \* bound: crashes

ASSUME PersistenceAssumption ==
  Writes \subseteq WriteCommands /\ {MaxFrames, MaxDumps, MaxCrashes} \subseteq Nat

VARIABLES store,
          file,      \* the frames at their offsets, with what became of them
          dumps,     \* the dumps a restart may find; the first is kvs_dump.kvsdb
          child,     \* what the running SAVE writes, or nothing
          crashes,
          hist,      \* history: the data before and after each frame
          damaged    \* history: frames are missing before others, or before a dump

vars == <<store, file, dumps, child, crashes, hist, damaged>>

Dump(data, n) == [data |-> data, at |-> n]

Init ==
  /\ store = Empty /\ file = <<>>
  /\ dumps = <<Dump(Empty, 0)>> /\ child = <<>>
  /\ crashes = 0 /\ hist = <<Empty>> /\ damaged = FALSE
-----------------------------------------------------------------------------
\* Mutant: is_write_success is not tested.
LogsEveryWrite(w) ==
  /\ Len(file) < MaxFrames
  /\ store' = Exec(store, w)
  /\ file' = Append(file, [w |-> w, is |-> "queued"])
  /\ hist' = Append(hist, store')
  /\ UNCHANGED <<dumps, child, crashes, damaged>>

(* The end of kvs_filter_protocol with kvs_log_write.                       *)
Logged(w) ==
  /\ Takes(store, w) /\ Len(file) < MaxFrames
  /\ store' = Exec(store, w)
  /\ file' = Append(file, [w |-> w, is |-> "queued"])
  /\ hist' = Append(hist, store')
  /\ UNCHANGED <<dumps, child, crashes, damaged>>

\* No entry in the submission queue, or no memory: the result is ignored.
NotLogged(w) ==
  /\ "log" \in Faults /\ Takes(store, w)
  /\ store' = Exec(store, w)
  /\ damaged' = TRUE
  /\ UNCHANGED <<file, dumps, child, crashes, hist>>

Completes(i) ==
  /\ file[i].is = "queued"
  /\ file' = [file EXCEPT ![i].is = "cached"]
  /\ UNCHANGED <<store, dumps, child, crashes, hist, damaged>>

\* The device refuses the write; cqe->res is not looked at.
CompletesWithError(i) ==
  /\ "io" \in Faults /\ file[i].is = "queued"
  /\ file' = [file EXCEPT ![i].is = "hole"]
  /\ damaged' = TRUE
  /\ UNCHANGED <<store, dumps, child, crashes, hist>>

(* SAVE: the child has a copy of the data of the moment.                    *)

SaveStarts ==
  /\ child = <<>> /\ Len(dumps) < MaxDumps
  /\ child' = <<Dump(store, Len(file))>>
  /\ UNCHANGED <<store, file, dumps, crashes, hist, damaged>>

SaveEnds ==
  /\ child # <<>>
  /\ dumps' = child \o dumps /\ child' = <<>>
  /\ UNCHANGED <<store, file, crashes, hist, damaged>>
-----------------------------------------------------------------------------
(* kvs_file_read: the frames before the first that does not parse.          *)
Parsed(f) ==
  LET bad == {i \in 1 .. Len(f) : f[i].is = "hole"}
  IN IF bad = {} THEN Len(f) ELSE (CHOOSE i \in bad : \A j \in bad : i <= j) - 1

Replay(data, f) ==
  LET after[i \in 0 .. Parsed(f)] ==
        IF i = 0 THEN data ELSE Exec(after[i - 1], f[i].w)
  IN after[Parsed(f)]

\* kvs_init: the dump, then the file.
Recover(dump, f) == Replay(Load(Empty, dump.data), f)

\* Mutant: what does not parse is skipped, and the rest of the file is used.
LeftClosesGaps(f, gone, is) ==
  LET frame(i) == [f[i] EXCEPT !.is = IF i \in gone THEN "hole" ELSE IF @ = "cached" THEN is ELSE @]
      g == [i \in 1 .. Len(f) |-> frame(i)]
  IN SelectSeq(g, LAMBDA e : e.is # "hole")

\* The file when the frames of gone never got there: it ends with the last frame
\* that did, and the others are as safe as is says, or safer.
Left(f, gone, is) ==
  LET kept == {i \in 1 .. Len(f) : i \notin gone /\ f[i].is # "hole"}
      end == IF kept = {} THEN 0 ELSE CHOOSE i \in kept : \A j \in kept : j <= i
  IN [i \in 1 .. end |->
        [f[i] EXCEPT !.is = IF i \notin kept THEN "hole" ELSE IF @ = "synced" THEN @ ELSE is]]

Damage(f, dump, c) ==
  \/ Parsed(f) < Len(f)
  \/ dump.at > Len(f)
  \/ \E i \in 1 .. Len(c) : c[i].at > Len(f)

Restart(f, dump, c) ==
  /\ crashes < MaxCrashes /\ crashes' = crashes + 1
  /\ file' = f /\ child' = c
  /\ store' = Recover(dump, f)
  /\ damaged' = (damaged \/ Damage(f, dump, c))
  /\ hist' = IF damaged' THEN <<>> ELSE SubSeq(hist, 1, Len(f) + 1)

Frames(is) == {i \in 1 .. Len(file) : file[i].is \in is}

\* The process is killed: what the kernel has written stays, and a child goes on.
Killed ==
  \E gone \in SUBSET Frames({"queued"}) :
    /\ Restart(Left(file, gone, "cached"), dumps[1], child)
    /\ UNCHANGED dumps

\* The machine goes down: any frame that was not written back is gone, and the
\* directory has the last dump or an earlier one.
PowerLoss ==
  \E gone \in SUBSET Frames({"queued", "cached"}), d \in 1 .. Len(dumps) :
    /\ Restart(Left(file, gone, "synced"), dumps[d], <<>>)
    /\ dumps' = <<dumps[d]>>

Next ==
  \/ \E w \in Writes : Logged(w) \/ NotLogged(w)
  \/ \E i \in 1 .. Len(file) : Completes(i) \/ CompletesWithError(i)
  \/ SaveStarts \/ SaveEnds
  \/ Killed \/ PowerLoss

Spec == Init /\ [][Next]_vars
-----------------------------------------------------------------------------
Frame == [w : Writes, is : {"queued", "cached", "synced", "hole"}]

\* Executing the whole file over a dump gives the data in memory, whenever the
\* dump was made and however often a crash cut off the end of the file: the
\* SETs, MODs and DELs that the dump already contains do no harm.  This is why
\* SAVE need not shorten the file.
FileOverDump ==
  ~damaged => \A d \in 1 .. Len(dumps) : Recover(dumps[d], file) = store

\* A crash that leaves a file without gaps, and no dump newer than it, takes
\* the data back to what it was after the last frame that is left.
CrashRollsBack ==
  [][crashes' > crashes /\ ~damaged' => store' = hist[Len(file') + 1]]_vars

\* src/README.md:367 says that the file is there to recover the data after a crash
\* or a restart: when no write is outstanding, a restart finds the data.
RestartRecovers == Frames({"queued"}) = {} => Recover(dumps[1], file) = store
=============================================================================
