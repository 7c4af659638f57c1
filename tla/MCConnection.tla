---------------------------- MODULE MCConnection ----------------------------
(* Connection for TLC: two connections at a time, a few bytes per buffer,   *)
(* and the programs of the repository in pairs.                             *)
EXTENDS Connection

Slots == {1, 2}

\* A text with bytes that mean something in the protocols.
BlogText == <<"t", "CR", "LF", "^", "2", "&", "$", "1", "#", "t">>

\* p1 and p2 are the programs run one after the other on each connection.
Play(p1, p2, pass, mortal) ==
    [prog |-> (1 :> p1 @@ 2 :> p2), role |-> (1 :> 0 @@ 2 :> 0), pass |-> pass, mortal |-> mortal, to_server |-> 32, to_client |-> 12]

Solo(p) == Play(p, <<>>, {1}, {})

R == <<"rbtree">>
A == <<"array">>
H == <<"hash">>
L == <<"skiplist">>

\* The two protocols side by side, two clients of one engine, a client that
\* is killed beside one that is not, and a client that changes its protocol.
Pairs == <<
    Play(<<kvsp_set(R)>>, <<resp_set(H)>>, Slots, {}),
    Play(<<kvsp_set(L)>>, <<kvsp_get(L)>>, {1}, {}),
    Play(<<kvsp_set(H)>>, <<kvsp_set(A)>>, Slots, {1}),
    Play(<<MixedProtocols("rbtree")>>, <<Program("KVSP", "one", SaveCase)>>, {2}, {})>>

\* The sample programs in the order of use.
Samples == <<
    Solo(<<kvsp_set(All), kvsp_get(All), kvsp_del(All), kvsp_set_save(All)>>),
    Solo(<<kvsp_set_save(A), resp_get(A), resp_del(A)>>),
    Solo(<<resp_set(L), kvsp_get(L), resp_del(L), resp_set_save(All)>>),
    Solo(<<resp_basic_function(All), resp_set(A), resp_get(A)>>)>>

\* Values longer than a buffer.
BlogPrograms(e) == Solo(<<kvsp_set_blog(e), kvsp_get_blog(e), resp_set_blog(e), resp_get_blog(e)>>)

Blogs == <<BlogPrograms("hash"), BlogPrograms("rbtree")>>

\* Many commands in one buffer.  The programs write them all before they read,
\* which ends only because the replies fit in the socket.
Piped(p) == [Solo(p) EXCEPT !.to_server = 8, !.to_client = 160]

Pipelines == <<
    Piped(<<kvsp_multicmd_all, kvsp_multicmd(<<kvsp_multicmd_array>>)>>),
    Piped(<<resp_multicmd(resp_multicmd_rbtree), resp_multicmd(resp_multicmd_array)>>),
    Piped(<<resp_multicmd(resp_multicmd_hash), resp_multicmd(resp_multicmd_skiplist)>>)>>

Perf == <<
    Solo(<<kvsp_test_set_qps(R), resp_test_get_qps(R), kvsp_test_save_qps(H)>>),
    Solo(<<resp_test_set_qps(H), kvsp_test_get_qps(H), resp_test_save_qps(R)>>)>>

Slave == <<[Solo(<<AgentStream("hash")>>) EXCEPT !.role[1] = 1, !.pass = {}]>>

\* Programs of the first protocol, which the server refuses, one of them
\* beside a client that it serves.
Refused == <<
    Play(<<plain_set(All)>>, <<kvsp_set(R)>>, {2}, {}),
    Play(<<plain_get(All)>>, <<plain_del(H)>>, {}, {}),
    Play(<<plain_set_save(All)>>, <<plain_set_blog("hash")>>, {}, {}),
    Play(<<plain_get_blog("array")>>, <<plain_multicmd(plain_multicmd_rbtree)>>, {}, {}),
    Play(<<plain_multicmd(plain_multicmd_array)>>, <<plain_multicmd(plain_multicmd_hash)>>, {}, {}),
    Play(<<plain_multicmd(plain_multicmd_skiplist)>>, <<plain_set_save(L)>>, {}, {})>>

Sessions == Pairs \o Refused \o Samples \o Blogs \o Pipelines \o Perf \o Slave
=============================================================================
