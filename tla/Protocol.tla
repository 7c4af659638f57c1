------------------------------ MODULE Protocol ------------------------------
(***************************************************************************)
(* The two wire protocols of the server (kvs-protocol/kvs_protocol.c).     *)
(*                                                                         *)
(* Bytes are strings: the characters that the protocols tell apart stand   *)
(* for themselves ("#", "^", "&", "*", "$", the digits, "CR", "LF") and a  *)
(* longer string (a command word, a piece of a key or of a value) stands   *)
(* for one byte of text.  A buffer is a sequence of bytes, and an offset   *)
(* pos of the code is index pos + 1.                                       *)
(***************************************************************************)
EXTENDS Integers, Sequences, SequencesExt

CONSTANTS
    INT_MAX,            \* the largest int; lengths beyond it are refused
    KVS_MAX_TOKENS      \* room of the tokens array

ASSUME ProtocolAssumption == INT_MAX \in Nat /\ KVS_MAX_TOKENS \in Nat

Digit == <<"0", "1", "2", "3", "4", "5", "6", "7", "8", "9">>

CRLF == <<"CR", "LF">>

Digits == ToSet(Digit)

IsDigit(b) == b \in Digits

DigitValue(b) == (CHOOSE d \in DOMAIN Digit : Digit[d] = b) - 1

\* What "%d" prints.
Decimal[n \in Nat] ==
    IF n < 10 THEN <<Digit[n + 1]>> ELSE Decimal[n \div 10] \o <<Digit[(n % 10) + 1]>>

\* The first index from pos on that is not a digit, or last + 1.
AfterDigits(buf, pos, last) ==
    IF \A i \in pos..last : IsDigit(buf[i])
    THEN last + 1
    ELSE CHOOSE i \in pos..last :
             /\ ~IsDigit(buf[i])
             /\ \A j \in pos..(i - 1) : IsDigit(buf[j])

\* The number the digits from index a to b - 1 spell; atoi of a text without
\* a digit is 0.
Number(buf, a, b) ==
    FoldLeft(LAMBDA n, d : IF n > INT_MAX THEN n ELSE 10 * n + DigitValue(d),
             0, SubSeq(buf, a, b - 1))

atoi(buf, a) == Number(buf, a, AfterDigits(buf, a, Len(buf)))

-----------------------------------------------------------------------------
\* Outcomes of the parsers: len is what the C function returns, the length of
\* the first command, 0 when it is not complete and negative when it is
\* malformed; head is *head_len, meaningful when len is positive.
Parsed(len, head) == [len |-> len, head |-> head]

Incomplete == Parsed(0, 0)

Malformed == Parsed(-2, 0)

\* #<body_length>CR LF<body>
kvsp_parse_bulk_size(buf) ==
    LET n         == Len(buf)
        end       == AfterDigits(buf, 2, n)
        body      == Number(buf, 2, end)
        malformed == \/ buf[1] # "#"
                     \/ body > INT_MAX
                     \/ end = 2 /\ n > 1
                     \/ n > end /\ SubSeq(buf, end, end + 1) # CRLF
                     \/ n > end /\ body > INT_MAX - (end + 1)
    IN  IF n = 0 THEN Parsed(-1, 0)
        ELSE IF malformed THEN Malformed
        ELSE IF n <= end \/ body + end + 1 > n THEN Incomplete
        ELSE Parsed(body + end + 1, end + 1)

\* The first index from pos on that holds the LF of a CR LF, or Len(buf) + 1.
LineEnd(buf, pos) ==
    LET ends == {i \in pos..Len(buf) : buf[i] = "LF" /\ buf[i - 1] = "CR"}
    IN  IF ends = {} THEN Len(buf) + 1 ELSE CHOOSE i \in ends : \A j \in ends : i <= j

\* The loop of resp_parse_bulk_size: argc bulk strings remain, the last byte
\* read is at pos.  Answers the index of the last byte of the command.
RECURSIVE AfterBulks(_, _, _)
AfterBulks(buf, pos, argc) ==
    IF argc = 0 THEN pos
    ELSE IF pos + 1 > Len(buf) THEN 0
    ELSE IF buf[pos + 1] # "$" THEN -2
    ELSE LET lf  == LineEnd(buf, pos + 1)
             end == lf + atoi(buf, pos + 2) + 2
         IN  IF lf > Len(buf) \/ end > Len(buf) THEN 0 ELSE AfterBulks(buf, end, argc - 1)

\* *<argc>CR LF$<len>CR LF<bytes>CR LF...
resp_parse_bulk_size(buf) ==
    LET head == LineEnd(buf, 2)
    IN  IF Len(buf) = 0 THEN Parsed(-1, 0)
        ELSE IF buf[1] # "*" THEN Malformed
        ELSE IF head > Len(buf) THEN Incomplete
        ELSE Parsed(AfterBulks(buf, head, atoi(buf, 2)), head)

recv_protocol(protocol, buf) ==
    IF protocol = "RESP" THEN resp_parse_bulk_size(buf) ELSE kvsp_parse_bulk_size(buf)

\* What a first byte says about a connection; "UNKNOWN" is the answer 1 (read
\* on), "bad" a negative one.
kvs_detect_protocol(rbuf) ==
    CASE rbuf = <<>>                        -> "UNKNOWN"
      [] rbuf # <<>> /\ Head(rbuf) = "*"    -> "RESP"
      [] rbuf # <<>> /\ Head(rbuf) = "#"    -> "KVSP"
      [] OTHER                              -> "bad"

-----------------------------------------------------------------------------
\* The tokens of a command, or Failed.
Failed == [ok |-> FALSE, tokens |-> <<>>]

Tokens(ts) == [ok |-> TRUE, tokens |-> ts]

\* ^<tok_len>&<tok>... up to index end of the body.
RECURSIVE KvspTokens(_, _, _, _)
KvspTokens(body, pos, end, ts) ==
    IF pos > end THEN (IF pos = end + 1 THEN Tokens(ts) ELSE Failed)
    ELSE LET amp == AfterDigits(body, pos + 1, end)
             len == Number(body, pos + 1, amp)
         IN  IF \/ body[pos] # "^"
                \/ len > INT_MAX
                \/ amp = pos + 1
                \/ amp > end
                \/ body[amp] # "&"
                \/ len > end - amp
                \/ Len(ts) >= KVS_MAX_TOKENS
             THEN Failed
             ELSE KvspTokens(body, amp + len + 1, end,
                             Append(ts, SubSeq(body, amp + 1, amp + len)))

\* $<len>CR LF<tok>CR LF...
RECURSIVE RespTokens(_, _, _)
RespTokens(body, pos, ts) ==
    IF pos > Len(body) THEN Tokens(ts)
    ELSE IF body[pos] # "$" THEN Failed
    ELSE LET len   == atoi(body, pos + 1)
             first == (CHOOSE i \in pos..Len(body) :
                          body[i] = "CR" /\ \A j \in pos..(i - 1) : body[j] # "CR") + 2
         IN  RespTokens(body, first + len + 2,
                        Append(ts, SubSeq(body, first, first + len - 1)))

\* cmd is the command the parser delimited, head its cmd_hl.
kvs_split_token(protocol, cmd, head) ==
    LET body == SubSeq(cmd, head + 1, Len(cmd))
        end  == Len(body) - 2
    IN  IF protocol = "RESP" THEN RespTokens(body, 1, <<>>)
        ELSE IF end < 0 THEN Failed
        ELSE IF SubSeq(body, end + 1, end + 2) # CRLF THEN Failed
        ELSE KvspTokens(body, 1, end, <<>>)

\* The command word of a frame, which is all that the agent reads of it.
kvs_agent_parse_command(cmd, head) ==
    LET body == SubSeq(cmd, head + 1, Len(cmd))
        end  == Len(body) - 2
        amp  == AfterDigits(body, 2, end)
        len  == Number(body, 2, amp)
    IN  IF \/ end < 0
           \/ SubSeq(body, end + 1, end + 2) # CRLF
           \/ body[1] # "^"
        THEN Failed
        ELSE IF amp = 2 \/ amp > end THEN Failed
        ELSE IF body[amp] # "&" \/ len > end - amp THEN Failed
        ELSE Tokens(<<SubSeq(body, amp + 1, amp + len)>>)

-----------------------------------------------------------------------------
\* Building commands.

KvspToken(t) == <<"^">> \o Decimal[Len(t)] \o <<"&">> \o t

kvs_build_kvsp_frame(tokens) ==
    LET body == FoldLeft(LAMBDA b, t : b \o KvspToken(t), <<>>, tokens) \o CRLF
    IN  <<"#">> \o Decimal[Len(body)] \o CRLF \o body

\* What hiredis sends for redisCommand and redisAppendCommand.
RespFrame(tokens) ==
    <<"*">> \o Decimal[Len(tokens)] \o CRLF
      \o FoldLeft(LAMBDA b, t : b \o <<"$">> \o Decimal[Len(t)] \o CRLF \o t \o CRLF,
                  <<>>, tokens)

\* The first protocol of the project, <length>*<words>, which the server no
\* longer speaks: a command begins with a digit.
PlainFrame(tokens) ==
    LET text == FoldLeft(LAMBDA t, w : t \o <<"SP">> \o w, Head(tokens), Tail(tokens))
    IN  Decimal[Len(text)] \o <<"*">> \o text

Frame(protocol, tokens) ==
    CASE protocol = "RESP"  -> RespFrame(tokens)
      [] protocol = "PLAIN" -> PlainFrame(tokens)
      [] OTHER              -> kvs_build_kvsp_frame(tokens)
=============================================================================
