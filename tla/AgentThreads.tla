---------------------------- MODULE AgentThreads ----------------------------
(***************************************************************************)
(* The three threads of the replication agent, src/kvs-ebpf/kvs_agent.c:   *)
(* main polls the kernel's ring buffer and runs handle_event, kvs_agent    *)
(* takes the captured records and sends them to the slaves, server keeps   *)
(* the table of slaves.  They share the cache (cache_mutex, cache_cond),   *)
(* the table (slaves_mutex) and the flag existing, which is read and set   *)
(* without a lock.  The cache is the FIFO queue that AgentCache is proved  *)
(* to implement; what a record makes the agent send is Replication's.      *)
(***************************************************************************)
EXTENDS Integers, Sequences, FiniteSets

CONSTANTS Capacity, Overhead, Buffers, NULL,   \* as in AgentCacheSpec
          Fds,         \* the descriptors accept may return
          TableSize,   \* MAX_SLAVE_COUNT
          MaxBurst,    \* bound: events one ring_buffer__poll delivers
          MaxSends     \* bound: commands one record completes

\* An event carries between 1 and KVS_AGENT_PAYLOAD_SIZE bytes (4 KB), and the
\* cache has MAX_AGENT_CACHE_SIZE (256 MB).
ASSUME EventsAssumption ==
  \A buf \in Buffers : Len(buf) > 0 /\ Overhead + Len(buf) <= Capacity

VARIABLES queue, load, arg, ret, out,   \* global_agent_cache, in the abstract
          main, server, agent,          \* where the threads are
          burst,      \* events the running ring_buffer__poll still delivers
          existing,   \* the stop flag
          cacheHeld,  \* kvs_agent holds cache_mutex between two steps
          signalled,  \* kvs_agent waits on cache_cond and was signalled
          sends,      \* commands of the record that are still to be sent
          todo,       \* slaves kvs_agent_send has still to serve; it holds
                      \* slaves_mutex while it is "sending"
          table,      \* the descriptors in global_slaves
          open,       \* the open descriptors of slaves
          client,     \* the descriptor the server thread works on
          gap         \* history: -1, or how many queued records were captured
                      \* before the first one that was refused

cacheVars == <<queue, load, arg, ret, out>>
agentVars == <<agent, cacheHeld, sends, todo>>
slaveVars == <<table, open>>
serverVars == <<server, client>>
threadVars == <<cacheVars, agentVars, slaveVars, serverVars, main, burst,
                existing, signalled, gap>>

Cache == INSTANCE AgentCacheSpec

ThreadsInit ==
  /\ Cache!Init
  /\ main = "init" /\ server = "none" /\ agent = "none"
  /\ burst = 0 /\ existing = FALSE /\ cacheHeld = FALSE /\ signalled = FALSE
  /\ sends = 0 /\ todo = {}
  /\ table = {} /\ open = {} /\ client = NULL /\ gap = -1

Running == main # "over"

\* A signal, or a broadcast, that meets no waiting thread is lost.
WakeAgent == signalled' = (agent = "waiting")
-----------------------------------------------------------------------------
(* main: kvs_agent_init, the loading of the BPF program, the poll loop.     *)
MainGoes(from, to) == main = from /\ main' = to

\* The memory, the mutexes and the server thread; then the agent thread.  A
\* failure ends the process with whatever was started.
InitServerThread ==
  /\ \/ MainGoes("init", "created") /\ server' = "init"
     \/ MainGoes("init", "over") /\ UNCHANGED server
  /\ UNCHANGED <<cacheVars, agentVars, slaveVars, client, burst, existing, signalled, gap>>

InitAgentThread ==
  /\ \/ MainGoes("created", "load") /\ agent' = "top"
     \/ MainGoes("created", "over") /\ UNCHANGED agent
  /\ UNCHANGED <<cacheVars, cacheHeld, sends, todo, slaveVars, serverVars, burst,
                 existing, signalled, gap>>

LoadBpf ==
  /\ MainGoes("load", "poll") \/ MainGoes("load", "cleanup")
  /\ UNCHANGED <<cacheVars, agentVars, slaveVars, serverVars, burst, existing,
                 signalled, gap>>

PollLoop ==
  /\ \/ existing /\ MainGoes("poll", "cleanup") /\ UNCHANGED burst
     \/ ~existing /\ MainGoes("poll", "polling") /\ burst' \in 0 .. MaxBurst
  /\ UNCHANGED <<cacheVars, agentVars, slaveVars, serverVars, existing, signalled, gap>>

\* Interrupted by a signal, or an error: the loop is left.
PollReturns ==
  /\ \/ burst = 0 /\ MainGoes("polling", "poll")
     \/ MainGoes("polling", "cleanup")
  /\ burst' = 0
  /\ UNCHANGED <<cacheVars, agentVars, slaveVars, serverVars, existing, signalled, gap>>

\* Mutants: the flag is not set when a record is refused, and the condition
\* is signalled only when the write was refused.
RefusedGoesOn(buf) ==
  /\ main = "polling" /\ burst > 0
  /\ ~cacheHeld
  /\ Cache!Write(buf) \/ Cache!Refuse(buf)
  /\ gap' = IF ret' # 0 /\ gap = -1 THEN Len(queue) ELSE gap
  /\ burst' = burst - 1
  /\ WakeAgent
  /\ UNCHANGED <<existing, main, agentVars, slaveVars, serverVars>>

EventUnsignalled(buf) ==
  /\ main = "polling" /\ burst > 0
  /\ ~cacheHeld
  /\ Cache!Write(buf) \/ Cache!Refuse(buf)
  /\ existing' = (existing \/ ret' # 0)
  /\ gap' = IF ret' # 0 /\ gap = -1 THEN Len(queue) ELSE gap
  /\ burst' = burst - 1
  /\ IF ret' # 0 THEN WakeAgent ELSE UNCHANGED signalled
  /\ UNCHANGED <<main, agentVars, slaveVars, serverVars>>

\* handle_event, all of it under cache_mutex.  A refused record sets the
\* flag, and the poll goes on with the next event.
handle_event(buf) ==
  /\ main = "polling" /\ burst > 0
  /\ ~cacheHeld
  /\ Cache!Write(buf) \/ Cache!Refuse(buf)
  /\ existing' = (existing \/ ret' # 0)
  /\ gap' = IF ret' # 0 /\ gap = -1 THEN Len(queue) ELSE gap
  /\ burst' = burst - 1
  /\ WakeAgent
  /\ UNCHANGED <<main, agentVars, slaveVars, serverVars>>

\* The handlers are installed behind kvs_agent_init.
sig_handler ==
  /\ main \notin {"init", "created"}
  /\ ~existing
  /\ existing' = TRUE
  /\ UNCHANGED <<cacheVars, agentVars, slaveVars, serverVars, main, burst,
                 signalled, gap>>
-----------------------------------------------------------------------------
(* kvs_agent_deinit: set the flag, wake the agent thread, join, free.       *)
DeinitFlag ==
  /\ MainGoes("cleanup", "broadcast")
  /\ existing' = TRUE
  /\ UNCHANGED <<cacheVars, agentVars, slaveVars, serverVars, burst, signalled, gap>>

DeinitBroadcast ==
  /\ ~cacheHeld
  /\ MainGoes("broadcast", "join")
  /\ WakeAgent
  /\ UNCHANGED <<cacheVars, agentVars, slaveVars, serverVars, burst, existing, gap>>

kvs_slaves_destroy == open' = open \ table /\ table' = {}

\* Both joins, then the memory.
DeinitFree ==
  /\ server = "done" /\ agent = "done"
  /\ MainGoes("join", "over")
  /\ kvs_slaves_destroy
  /\ UNCHANGED <<cacheVars, agentVars, serverVars, burst, existing, signalled, gap>>

Main ==
  \/ InitServerThread \/ InitAgentThread \/ LoadBpf
  \/ PollLoop \/ PollReturns
  \/ \E buf \in Buffers : handle_event(buf)
  \/ DeinitFlag \/ DeinitBroadcast \/ DeinitFree
-----------------------------------------------------------------------------
(* kvs_agent, the thread that takes the records.                            *)
AgentGoes(from, to) == agent = from /\ agent' = to

AgentTop ==
  /\ IF existing THEN AgentGoes("top", "done") ELSE AgentGoes("top", "lock")
  /\ UNCHANGED <<cacheVars, cacheHeld, sends, todo, slaveVars, serverVars, main,
                 burst, existing, signalled, gap>>

AgentLock ==
  /\ AgentGoes("lock", "test")
  /\ ~cacheHeld /\ cacheHeld' = TRUE
  /\ UNCHANGED <<cacheVars, sends, todo, slaveVars, serverVars, main, burst,
                 existing, signalled, gap>>

\* Mutant: the break out of the loop keeps the mutex.
BreakKeepsMutex ==
  /\ queue = <<>>
  /\ IF existing THEN AgentGoes("test", "done") ELSE AgentGoes("test", "sleep")
  /\ UNCHANGED <<cacheVars, cacheHeld, sends, todo, slaveVars, serverVars, main,
                 burst, existing, signalled, gap>>

\* The test in front of pthread_cond_wait, with the mutex.
AgentTest ==
  /\ queue = <<>>
  /\ IF existing THEN AgentGoes("test", "done") /\ cacheHeld' = FALSE
                 ELSE AgentGoes("test", "sleep") /\ UNCHANGED cacheHeld
  /\ UNCHANGED <<cacheVars, sends, todo, slaveVars, serverVars, main, burst,
                 existing, signalled, gap>>

\* pthread_cond_wait: giving up the mutex and waiting are one step.
AgentSleep ==
  /\ AgentGoes("sleep", "waiting")
  /\ cacheHeld' = FALSE
  /\ signalled' = FALSE
  /\ UNCHANGED <<cacheVars, sends, todo, slaveVars, serverVars, main, burst,
                 existing, gap>>

AgentWakes ==
  /\ AgentGoes("waiting", "lock")
  /\ signalled
  /\ signalled' = FALSE
  /\ UNCHANGED <<cacheVars, cacheHeld, sends, todo, slaveVars, serverVars, main,
                 burst, existing, gap>>

\* pthread_cond_wait may return without a signal.
SpuriousWake ==
  /\ AgentGoes("waiting", "lock")
  /\ ~signalled
  /\ UNCHANGED <<cacheVars, cacheHeld, sends, todo, slaveVars, serverVars, main,
                 burst, existing, signalled, gap>>

\* Mutant: the mutex is not given back.
TakeKeepsMutex ==
  /\ AgentGoes("test", "handle")
  /\ Cache!Read
  /\ UNCHANGED cacheHeld
  /\ sends' \in 0 .. MaxSends
  /\ gap' = IF gap > 0 THEN gap - 1 ELSE gap
  /\ UNCHANGED <<todo, slaveVars, serverVars, main, burst, existing, signalled>>

\* The record is taken and the mutex given back; it completes any number of
\* commands.
AgentTake ==
  /\ AgentGoes("test", "handle")
  /\ Cache!Read
  /\ cacheHeld' = FALSE
  /\ sends' \in 0 .. MaxSends
  /\ gap' = IF gap > 0 THEN gap - 1 ELSE gap
  /\ UNCHANGED <<todo, slaveVars, serverVars, main, burst, existing, signalled>>

\* malloc failed in kvs_agent_cache_read: the thread sets the flag and ends.
AgentTakeFails ==
  /\ queue # <<>>
  /\ AgentGoes("test", "done")
  /\ Cache!ReadNothing
  /\ cacheHeld' = FALSE
  /\ existing' = TRUE
  /\ UNCHANGED <<sends, todo, slaveVars, serverVars, main, burst, signalled, gap>>

\* kvs_agent_send_to_slave fails: realloc, a malformed command, or the cache
\* of the full synchronisation is full.
AgentHandleFails ==
  /\ AgentGoes("handle", "done")
  /\ existing' = TRUE
  /\ UNCHANGED <<cacheVars, cacheHeld, sends, todo, slaveVars, serverVars, main,
                 burst, signalled, gap>>

AgentHandled ==
  /\ AgentGoes("handle", "top")
  /\ sends = 0
  /\ UNCHANGED <<cacheVars, cacheHeld, sends, todo, slaveVars, serverVars, main,
                 burst, existing, signalled, gap>>

(* kvs_agent_send: slaves_mutex is held over all the sends.                 *)
SlavesFree == agent # "sending"

SendBegins ==
  /\ AgentGoes("handle", "sending")
  /\ sends > 0 /\ sends' = sends - 1
  /\ todo' = table
  /\ UNCHANGED <<cacheVars, cacheHeld, slaveVars, serverVars, main, burst,
                 existing, signalled, gap>>

\* send_all to one slave; a failure takes it out of the table, and leaves
\* its descriptor to the server thread.
SendOne(fd) ==
  /\ agent = "sending" /\ fd \in todo
  /\ todo' = todo \ {fd}
  /\ table' \in {table, table \ {fd}}
  /\ UNCHANGED <<cacheVars, agent, cacheHeld, sends, open, serverVars, main, burst,
                 existing, signalled, gap>>

SendEnds ==
  /\ AgentGoes("sending", "handle")
  /\ todo = {}
  /\ UNCHANGED <<cacheVars, cacheHeld, sends, todo, slaveVars, serverVars, main,
                 burst, existing, signalled, gap>>

Agent ==
  \/ AgentTop \/ AgentLock \/ AgentTest \/ AgentSleep \/ AgentWakes
  \/ AgentTake \/ AgentTakeFails \/ AgentHandleFails \/ AgentHandled
  \/ SendBegins \/ (\E fd \in Fds : SendOne(fd)) \/ SendEnds
-----------------------------------------------------------------------------
(* server, the thread that keeps the table.                                 *)
ServerGoes(from, to) == server = from /\ server' = to

\* socket, bind and listen; a failure is an exit(1) of the whole process.
init_server ==
  /\ \/ ServerGoes("init", "top") /\ UNCHANGED main
     \/ server = "init" /\ main' = "over" /\ UNCHANGED server
  /\ UNCHANGED <<cacheVars, agentVars, slaveVars, client, burst, existing,
                 signalled, gap>>

ServerTop ==
  /\ IF existing THEN ServerGoes("top", "done") ELSE ServerGoes("top", "events")
  /\ UNCHANGED <<cacheVars, agentVars, slaveVars, client, main, burst, existing,
                 signalled, gap>>

\* epoll_wait timed out or was interrupted, or its events are served.
ServerNext ==
  /\ ServerGoes("events", "top")
  /\ UNCHANGED <<cacheVars, agentVars, slaveVars, client, main, burst, existing,
                 signalled, gap>>

\* epoll_wait or accept fails: the thread ends, the others go on.
ServerFails ==
  /\ ServerGoes("events", "done")
  /\ UNCHANGED <<cacheVars, agentVars, slaveVars, client, main, burst, existing,
                 signalled, gap>>

ServerAccepts(fd) ==
  /\ ServerGoes("events", "insert")
  /\ fd \notin open
  /\ open' = open \cup {fd}
  /\ client' = fd
  /\ UNCHANGED <<cacheVars, agentVars, table, main, burst, existing, signalled, gap>>

\* A full table refuses the slave, which stays connected.
ServerInserts ==
  /\ ServerGoes("insert", "events")
  /\ SlavesFree
  /\ table' = IF Cardinality(table) = TableSize THEN table ELSE table \cup {client}
  /\ client' = NULL
  /\ UNCHANGED <<cacheVars, agentVars, open, main, burst, existing, signalled, gap>>

\* A slave closed its end: recv returns 0 or fails.
ServerHears(fd) ==
  /\ ServerGoes("events", "delete")
  /\ fd \in open
  /\ client' = fd
  /\ UNCHANGED <<cacheVars, agentVars, slaveVars, main, burst, existing, signalled, gap>>

\* Mutant: the descriptor is closed in front of the removal.
CloseFirst ==
  /\ server = "delete"
  /\ \/ client \in open /\ open' = open \ {client} /\ UNCHANGED <<table, server>>
     \/ /\ client \notin open /\ SlavesFree
        /\ table' = table \ {client}
        /\ server' = "close" /\ UNCHANGED open
  /\ UNCHANGED <<cacheVars, agentVars, client, main, burst, existing, signalled, gap>>

ServerDeletes ==
  /\ ServerGoes("delete", "close")
  /\ SlavesFree
  /\ table' = table \ {client}
  /\ UNCHANGED <<cacheVars, agentVars, open, client, main, burst, existing,
                 signalled, gap>>

ServerCloses ==
  /\ ServerGoes("close", "events")
  /\ open' = open \ {client}
  /\ client' = NULL
  /\ UNCHANGED <<cacheVars, agentVars, table, main, burst, existing, signalled, gap>>

\* What the thread does by itself, whoever connects.
ServerWorks ==
  \/ init_server \/ ServerTop \/ ServerNext
  \/ ServerInserts \/ ServerDeletes \/ ServerCloses

Server ==
  \/ ServerWorks \/ ServerFails
  \/ \E fd \in Fds : ServerAccepts(fd) \/ ServerHears(fd)
-----------------------------------------------------------------------------
ThreadsNext == Running /\ (Main \/ Agent \/ Server \/ SpuriousWake \/ sig_handler)

\* Every thread that can go on is scheduled; a burst of events ends, every
\* send to a slave returns, and the events of one epoll_wait are finitely many.
ThreadsFairness ==
  /\ WF_threadVars(Running /\ Main)
  /\ WF_threadVars(Running /\ Agent)
  /\ WF_threadVars(Running /\ ServerWorks)
  /\ SF_threadVars(Running /\ ServerNext)

ThreadsSpec == ThreadsInit /\ [][ThreadsNext]_threadVars /\ ThreadsFairness
-----------------------------------------------------------------------------

\* kvs_agent_send never writes to a descriptor that was closed, and so perhaps
\* given to another connection: what is in the table is open, although the
\* agent thread takes slaves out of the table and the server thread closes.
TableIsOpen == table \subseteq open

\* No wake-up falls between kvs_agent's test and its wait: a thread that waits
\* on cache_cond while a record is queued has been signalled by handle_event,
\* and once kvs_agent_deinit has broadcast, the thread it joins neither waits
\* unsignalled nor is about to.
NoLostWakeUp ==
  /\ agent = "waiting" /\ queue # <<>> => signalled
  /\ main = "join" => agent # "sleep" /\ (agent = "waiting" => signalled)

\* Once a record was refused, no record that was captured behind it is handed
\* to the slaves: the stream they receive ends at the gap (handle_event goes
\* on with the burst, and kvs_agent takes one more record when it has passed
\* its test of existing).
StreamEndsAtGap == [][gap = 0 => Len(queue') >= Len(queue)]_threadVars

\* A captured record is taken unless the agent stops: kvs_agent gets back to
\* the cache from every wait, every mutex and every send.
RecordTaken == queue # <<>> ~> (agent = "handle" \/ existing \/ ~Running)

\* Once existing is set, by a signal, a refused record, a failed read or the
\* end of the poll loop, the threads end and the process is over: nobody is
\* left asleep on cache_cond, and no join waits for a thread that waits for a
\* mutex.
AgentEnds == existing ~> main = "over"
=============================================================================
