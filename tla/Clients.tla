------------------------------ MODULE Clients -------------------------------
(***************************************************************************)
(* The client programs of the repository (testcase_kvsp, testcase_resp and *)
(* the older testcase): what each sends, how it reads and which replies it *)
(* takes for a pass.                                                       *)
(*                                                                         *)
(* A program is a sequence of batches.  It writes the commands of a batch, *)
(* reads the replies in its own way, compares them and goes on with the    *)
(* next batch; it exits at the first reply that it does not accept.        *)
(***************************************************************************)
EXTENDS Dispatch

CONSTANTS
    Count,      \* keys per program: 10000, 10 in multicmd, 1000000 in perf
    Interval,   \* test_save_qps: writes between two SAVE (1000)
    Blog        \* the contents of blog.txt

ASSUME ClientsAssumption == Count \in Nat \ {0} /\ Interval \in Nat \ {0}

\* A reply the program expects: these bytes, any reply, or any value.
Is(bytes) == [kind |-> "is", bytes |-> bytes]

AnyReply == [kind |-> "any", bytes |-> <<>>]

AnyString == [kind |-> "string", bytes |-> <<>>]

Accepts(expected, reply) ==
    CASE expected.kind = "is"     -> reply = expected.bytes
      [] expected.kind = "any"    -> TRUE
      [] expected.kind = "string" -> Head(reply) = "$" /\ reply # NoExistReply

\* A batch: commands sent together, each with the reply expected for it.
Batch(reqs, expected) == [reqs |-> reqs, expected |-> [i \in DOMAIN reqs |-> expected]]

\* How the replies of a batch are read: with one recv, whose bytes
\* are a beginning of the reply expected or all of it, until the expected
\* length or a line end has arrived, one complete reply after the other
\* (hiredis), or not.
Program(protocol, read, batches) ==
    [protocol |-> protocol, read |-> read, batches |-> batches]

Key(i) == <<"Teacher">> \o Decimal[i]

Value(i) == <<"King">> \o Decimal[i]

NewValue(i) == <<"King-">> \o Decimal[i]

Word(e, o) == <<command[e][o]>>

\* The programs go through their engines in this order when no mode is given;
\* the array is commented out.
All == <<"rbtree", "skiplist", "hash">>

\* The cases of each engine, one engine after the other.
ForEach(es, cases) == FlattenSeq([i \in DOMAIN es |-> cases[es[i]]])

SetCases(e, first) ==
    [i \in 1..Count |-> Batch(<< <<Word(e, "SET"), Key(i + first - 1), Value(i + first - 1)>> >>, Is(OkReply))]

GetCases(e) == [i \in 1..Count |-> Batch(<< <<Word(e, "GET"), Key(i - 1)>> >>, Is(ValueReply(Value(i - 1))))]

DelCases(e) == [i \in 1..Count |-> Batch(<< <<Word(e, "DEL"), Key(i - 1)>> >>, Is(OkReply))]

SaveCase == << Batch(<< << <<"SAVE">> >> >>, Is(OkReply)) >>

\* A SAVE after every Interval writes; the keys start at 1.
SetSaveCases(e) ==
    FlattenSeq([i \in 1..Count |->
        <<SetCases(e, 1)[i]>> \o (IF i % Interval = 0 THEN SaveCase ELSE <<>>)])

-----------------------------------------------------------------------------
\* testcase_kvsp: plain sockets.

kvsp_set(es) == Program("KVSP", "one", ForEach(es, [e \in Engine |-> SetCases(e, 0)]))

kvsp_get(es) == Program("KVSP", "one", ForEach(es, [e \in Engine |-> GetCases(e)]))

kvsp_del(es) == Program("KVSP", "one", ForEach(es, [e \in Engine |-> DelCases(e)]))

\* One engine: its writes and SAVE; all: a single SAVE at the end.
kvsp_set_save(es) ==
    Program("KVSP", "one", ForEach(es, [e \in Engine |-> SetCases(e, 0)]) \o SaveCase)

BlogKey == <<"This is a blog">>

kvsp_set_blog(e) ==
    Program("KVSP", "one", << Batch(<< <<Word(e, "SET"), BlogKey, Blog>> >>, Is(OkReply)) >>)

kvsp_get_blog(e) ==
    Program("KVSP", "length", << Batch(<< <<Word(e, "GET"), BlogKey>> >>, Is(ValueReply(Blog))) >>)

\* The five commands for every key, in one buffer.
MultiCommands(e) ==
    LET each(o, F(_)) == [i \in 1..Count |-> <<Word(e, o)>> \o F(i - 1)]
    IN  each("SET", LAMBDA i : <<Key(i), Value(i)>>) \o each("GET", LAMBDA i : <<Key(i)>>)
          \o each("MOD", LAMBDA i : <<Key(i), NewValue(i)>>)
          \o each("DEL", LAMBDA i : <<Key(i)>>) \o each("EXIST", LAMBDA i : <<Key(i)>>)

kvsp_multicmd_rbtree == Batch(MultiCommands("rbtree"), AnyReply)

kvsp_multicmd_array == Batch(MultiCommands("array"), AnyReply)

kvsp_multicmd_hash == Batch(MultiCommands("hash"), AnyReply)

kvsp_multicmd_skiplist == Batch(MultiCommands("skiplist"), AnyReply)

\* Whatever the one recv returns is printed.
kvsp_multicmd(batches) == Program("KVSP", "one", batches)

kvsp_multicmd_all == kvsp_multicmd(<<kvsp_multicmd_rbtree, kvsp_multicmd_skiplist, kvsp_multicmd_hash>>)

kvsp_test_set_qps(es) == Program("KVSP", "one", ForEach(es, [e \in Engine |-> SetCases(e, 0)]))

kvsp_test_get_qps(es) == Program("KVSP", "one", ForEach(es, [e \in Engine |-> GetCases(e)]))

kvsp_test_save_qps(es) == Program("KVSP", "one", ForEach(es, [e \in Engine |-> SetSaveCases(e)]))

-----------------------------------------------------------------------------
\* testcase_resp: hiredis.

resp_set(es) == Program("RESP", "reply", ForEach(es, [e \in Engine |-> SetCases(e, 0)]))

resp_get(es) == Program("RESP", "reply", ForEach(es, [e \in Engine |-> GetCases(e)]))

resp_del(es) == Program("RESP", "reply", ForEach(es, [e \in Engine |-> DelCases(e)]))

\* Each engine ends with a SAVE; without a mode there is one more.
resp_set_save(es) ==
    Program("RESP", "reply",
            ForEach(es, [e \in Engine |-> SetCases(e, 0) \o SaveCase])
              \o (IF es = All THEN SaveCase ELSE <<>>))

\* The quotes around the key are part of it.
QuotedBlogKey == <<"QUOTE", "This is a blog", "QUOTE">>

resp_set_blog(e) ==
    Program("RESP", "reply", << Batch(<< <<Word(e, "SET"), QuotedBlogKey, Blog>> >>, Is(OkReply)) >>)

resp_get_blog(e) ==
    Program("RESP", "reply", << Batch(<< <<Word(e, "GET"), QuotedBlogKey>> >>, AnyString) >>)

resp_multicmd_rbtree == Batch(MultiCommands("rbtree"), AnyReply)

resp_multicmd_array == Batch(MultiCommands("array"), AnyReply)

resp_multicmd_hash == Batch(MultiCommands("hash"), AnyReply)

resp_multicmd_skiplist == Batch(MultiCommands("skiplist"), AnyReply)

resp_multicmd(batch) == Program("RESP", "reply", <<batch>>)

\* One key, quoted, through its whole life.
BasicCases(e) ==
    LET key == <<"QUOTE", "Teacher", "QUOTE">>
    IN  << Batch(<< <<Word(e, "SET"), key, <<"King">> >> >>, AnyReply),
           Batch(<< <<Word(e, "GET"), key>> >>, AnyReply),
           Batch(<< <<Word(e, "MOD"), key, <<"Kvstore">> >> >>, AnyReply),
           Batch(<< <<Word(e, "DEL"), key>> >>, AnyReply),
           Batch(<< <<Word(e, "EXIST"), key>> >>, AnyReply) >>

\* Here the array is not commented out.
resp_basic_function(es) ==
    Program("RESP", "reply", ForEach(IF es = All THEN <<"rbtree", "skiplist", "array", "hash">> ELSE es, [e \in Engine |-> BasicCases(e)]))

resp_test_set_qps(es) == Program("RESP", "reply", ForEach(es, [e \in Engine |-> SetCases(e, 0)]))

resp_test_get_qps(es) == Program("RESP", "reply", ForEach(es, [e \in Engine |-> GetCases(e)]))

resp_test_save_qps(es) == Program("RESP", "reply", ForEach(es, [e \in Engine |-> SetSaveCases(e)]))

-----------------------------------------------------------------------------
\* testcase: the same in the first protocol, with its replies.

PlainReply(v) == Is(v \o CRLF)

\* The cases of a command o for every key, each engine with its own loop.
PlainCases(es, o, arguments, replies) ==
    FlattenSeq([j \in DOMAIN es |->
        [i \in 1..Count |-> Batch(<< <<Word(es[j], o)>> \o arguments[i] >>, replies[i])]])

KeyValues == [i \in 1..Count |-> <<Key(i - 1), Value(i - 1)>>]

PlainOk == [i \in 1..Count |-> PlainReply(<<"OK">>)]

plain_set(es) ==
    Program("PLAIN", "strcmp", PlainCases(IF es = All THEN <<"rbtree", "skiplist", "array", "hash">> ELSE es, "SET", KeyValues, PlainOk))

plain_get(es) ==
    Program("PLAIN", "strcmp", PlainCases(IF es = All THEN <<"rbtree", "hash", "array", "skiplist">> ELSE es, "GET",
                                       [i \in 1..Count |-> <<Key(i - 1)>>], [i \in 1..Count |-> PlainReply(Value(i - 1))]))

\* The value is sent here too.
plain_del(es) ==
    Program("PLAIN", "strcmp", PlainCases(IF es = All THEN <<"rbtree", "skiplist", "array", "hash">> ELSE es, "DEL", KeyValues, PlainOk))

\* Only the run over all engines ends with SAVE.
plain_set_save(es) ==
    Program("PLAIN", "strcmp",
            IF es = All
            THEN PlainCases(<<"rbtree", "hash", "skiplist", "array">>, "SET", KeyValues, PlainOk)
                   \o << Batch(<< << <<"SAVE">> >> >>, PlainReply(<<"OK">>)) >>
            ELSE PlainCases(es, "SET", KeyValues, PlainOk))

\* What the one recv returns is printed.
plain_set_blog(e) == Program("PLAIN", "strcmp", << Batch(<< <<Word(e, "SET"), BlogKey, Blog>> >>, AnyReply) >>)

plain_get_blog(e) == Program("PLAIN", "line", << Batch(<< <<Word(e, "GET"), BlogKey>> >>, AnyReply) >>)

plain_multicmd_rbtree == Batch(MultiCommands("rbtree"), AnyReply)

plain_multicmd_array == Batch(MultiCommands("array"), AnyReply)

plain_multicmd_hash == Batch(MultiCommands("hash"), AnyReply)

plain_multicmd_skiplist == Batch(MultiCommands("skiplist"), AnyReply)

plain_multicmd(batch) == Program("PLAIN", "strcmp", <<batch>>)

-----------------------------------------------------------------------------
\* Other clients of the server.

\* The agent (kvs_agent_send): whole commands one after the other on the
\* connection that the slave opened, whose replies the slave does not send.
AgentStream(e) ==
    Program("KVSP", "none", << Batch(MultiCommands(e), AnyReply) >>)

\* Two commands in one buffer, the second in the other protocol.
MixedProtocols(e) ==
    Program("MIXED", "reply", << Batch(<< <<Word(e, "SET"), Key(0), Value(0)>>, <<Word(e, "GET"), Key(0)>> >>, AnyReply) >>)

\* The bytes of the commands of a batch.
BatchBytes(program, batch) ==
    FlattenSeq([i \in DOMAIN batch.reqs |->
        IF program.protocol = "MIXED"
        THEN Frame(IF i = 1 THEN "KVSP" ELSE "RESP", batch.reqs[i])
        ELSE Frame(program.protocol, batch.reqs[i])])
=============================================================================
