----------------------------- MODULE StreamStack -----------------------------
(***************************************************************************)
(* The stream layers of a FakeTLS client.  Writing: CryptoWriter           *)
(* (src/src/stream/crypto_stream.rs) over FakeTlsWriter                    *)
(* (src/src/stream/tls_stream.rs) over a socket that takes any part of     *)
(* what it is given.  Reading: FakeTlsReader under CryptoReader, from a    *)
(* socket that returns any part of what arrived.  A plain byte is its      *)
(* number; a cipher byte is the pair of its number and of the position of  *)
(* the key stream that was used for it.                                    *)
(***************************************************************************)
EXTENDS Integers, Sequences, SequencesExt

CONSTANTS
  MaxBytes,      \* bytes the application writes
  Writes,        \* sizes of its writes
  MaxPending,    \* max_pending_write
  Limits,        \* next_record_payload_limit
  HeaderSize,
  Scripts,       \* records a client can send: <<[type, len]>>
  Buffers        \* sizes of read buffers

VARIABLES
  side,                                   \* which half of the stack is looked at
  accepted, ks, cst, pend, op,            \* CryptoWriter and the call in progress
  tst, rec, pos,                          \* FakeTlsWriter
  wire, flushed, shut,
  script, arrived, ended,                 \* what the client sends, how far it got
  taken, rst, have, body, out, rks, eof   \* FakeTlsReader, CryptoReader

crypto == <<accepted, ks, cst, pend, op>>
tls == <<tst, rec, pos, wire>>
writing == <<crypto, tls, flushed, shut>>
reading == <<script, arrived, ended, taken, rst, have, body, out, rks, eof>>
vars == <<side, writing, reading>>

NoCall == [kind |-> "none", n |-> 0]

Init ==
  /\ side \in {"write", "read"}
  /\ accepted = 0 /\ ks = 0 /\ cst = "idle" /\ pend = <<>> /\ op = NoCall
  /\ tst = "idle" /\ rec = <<>> /\ pos = 0 /\ wire = <<>> /\ flushed = FALSE /\ shut = FALSE
  /\ script \in IF side = "read" THEN Scripts ELSE {<<>>}
  /\ arrived = 0 /\ ended = FALSE
  /\ taken = 0 /\ rst = "idle" /\ have = 0 /\ body = <<>> /\ out = <<>> /\ rks = 0 /\ eof = "no"

-----------------------------------------------------------------------------
(***************************************************************************)
(* FakeTlsWriter.  A call gives a set of outcomes: its state, the bytes    *)
(* that reached the socket, and the result (a count or one of these).*)
(***************************************************************************)
Pending == -1
Failed == -2
Done == -3

Data(i, k) == [type |-> "data", byte |-> i, key |-> k]
Header(n) == [i \in 1..HeaderSize |-> [type |-> "header", byte |-> n, key |-> i]]

Drop(s, n) == SubSeq(s, n + 1, Len(s))
Take(s, n) == SubSeq(s, 1, n)
Tls(state, record, position, sent, result) ==
  [st |-> state, rec |-> record, pos |-> position, sent |-> sent, res |-> result]

\* poll_flush_record_inner: the rest of the record, as far as the socket takes it.
poll_flush_record_inner ==
  LET rest == Drop(rec, pos) IN
    {Tls("writing", rec, pos + n, Take(rest, n), Pending) : n \in 0..(Len(rest) - 1)}
    \cup {Tls("poisoned", <<>>, 0, Take(rest, n), Failed) : n \in 0..(Len(rest) - 1)}
    \cup {Tls("idle", <<>>, 0, rest, Done)}

\* A new record in one write; what the socket leaves is kept.
NewRecord(data) ==
  UNION {LET c == IF Len(data) < limit THEN Len(data) ELSE limit
             record == Header(c) \o Take(data, c) IN
           {Tls("idle", <<>>, 0, record, c)}
           \cup {Tls("writing", record, n, Take(record, n), c) : n \in 0..(Len(record) - 1)}
           \cup {Tls("poisoned", <<>>, 0, <<>>, Failed)}
         : limit \in Limits}

TlsWrite(data) ==
  CASE tst = "poisoned" -> {Tls("poisoned", <<>>, 0, <<>>, Failed)}
    [] tst = "idle" -> NewRecord(data)
    [] tst = "writing" ->
         {o \in poll_flush_record_inner : o.res # Done}
         \cup UNION {{[n EXCEPT !.sent = o.sent \o n.sent] : n \in NewRecord(data)}
                     : o \in {o \in poll_flush_record_inner : o.res = Done}}

TlsFlush ==
  CASE tst = "poisoned" -> {Tls("poisoned", <<>>, 0, <<>>, Failed)}
    [] tst = "idle" -> {Tls("idle", <<>>, 0, <<>>, Done), Tls("idle", <<>>, 0, <<>>, Pending)}
    [] tst = "writing" -> poll_flush_record_inner

Apply(o) == tst' = o.st /\ rec' = o.rec /\ pos' = o.pos /\ wire' = wire \o o.sent

-----------------------------------------------------------------------------
(***************************************************************************)
(* CryptoWriter.                                                           *)
(***************************************************************************)
Encrypted(n) == [i \in 1..n |-> Data(accepted + i, ks + i)]
Returns == op' = NoCall
Poisons == cst' = "poisoned" /\ pend' = <<>>

\* encrypt_into_scratch, then one write; the remainder becomes the pending ciphertext.
WriteIdle(n) ==
  LET k == IF n < MaxPending THEN n ELSE MaxPending IN
    /\ ks' = ks + k
    /\ \E o \in TlsWrite(Encrypted(k)) :
         /\ Apply(o)
         /\ CASE o.res = Failed -> Poisons /\ UNCHANGED accepted
              [] o.res = Pending -> cst' = "flushing" /\ pend' = Encrypted(k) /\ accepted' = accepted + k
              [] OTHER -> /\ pend' = Drop(Encrypted(k), o.res) /\ accepted' = accepted + k
                          /\ cst' = IF o.res = k THEN "idle" ELSE "flushing"
    /\ Returns

PollWrite ==
  /\ op.kind = "none" /\ cst # "poisoned" /\ ~shut
  /\ \E n \in {n \in Writes : accepted + n <= MaxBytes} :
       IF cst = "flushing" THEN op' = [kind |-> "write", n |-> n] /\ UNCHANGED <<accepted, ks, cst, pend, tls>>
       ELSE WriteIdle(n)
  /\ flushed' = FALSE /\ UNCHANGED shut

PollFlush ==
  /\ op.kind = "none" /\ cst # "poisoned" /\ ~shut
  /\ op' = [kind |-> "flush", n |-> 0]
  /\ UNCHANGED <<accepted, ks, cst, pend, tls, flushed, shut>>

PollShutdown ==
  /\ op.kind = "none" /\ ~shut
  /\ op' = [kind |-> "shutdown", n |-> 0]
  /\ UNCHANGED <<accepted, ks, cst, pend, tls, flushed, shut>>

\* One round of poll_flush_pending on behalf of the call in progress.
FlushPending ==
  /\ op.kind \notin {"none", "close"} /\ cst = "flushing" /\ pend # <<>>
  /\ \E o \in TlsWrite(pend) :
       /\ Apply(o)
       /\ CASE o.res = Failed ->
                 Poisons /\ op' = (IF op.kind = "shutdown" THEN op ELSE NoCall) /\ UNCHANGED <<accepted, ks, shut>>
            [] o.res = Pending /\ op.kind = "write" ->
                 LET room == MaxPending - Len(pend)
                     k == IF op.n < room THEN op.n ELSE room IN
                   /\ pend' = pend \o Encrypted(k) /\ ks' = ks + k /\ accepted' = accepted + k
                   /\ Returns /\ UNCHANGED <<cst, shut>>
            [] o.res = Pending /\ op.kind = "flush" -> Returns /\ UNCHANGED <<accepted, ks, cst, pend, shut>>
            [] o.res = Pending /\ op.kind = "shutdown" ->
                 op' = [op EXCEPT !.kind = "close"] /\ UNCHANGED <<accepted, ks, cst, pend, shut>>
            [] OTHER -> pend' = Drop(pend, o.res) /\ UNCHANGED <<accepted, ks, cst, op, shut>>
  /\ UNCHANGED flushed

\* Nothing pending: the write proper, the flush below, or the shutdown below.
AfterPending ==
  /\ op.kind # "none" /\ (op.kind = "close" \/ ~(cst = "flushing" /\ pend # <<>>))
  /\ CASE op.kind = "write" -> WriteIdle(op.n) /\ UNCHANGED <<flushed, shut>>
       [] op.kind = "flush" ->
            /\ \E o \in TlsFlush : Apply(o) /\ flushed' = (o.res = Done)
            /\ cst' = (IF cst = "flushing" THEN "idle" ELSE cst)
            /\ Returns /\ UNCHANGED <<accepted, ks, pend, shut>>
       [] op.kind \in {"shutdown", "close"} ->
            /\ \E o \in IF tst = "writing" THEN poll_flush_record_inner ELSE {Tls("idle", <<>>, 0, <<>>, Done)} :
                 Apply([o EXCEPT !.st = "idle", !.rec = <<>>, !.pos = 0])
            /\ shut' = TRUE /\ Returns /\ UNCHANGED <<accepted, ks, cst, pend, flushed>>

WriteSide == PollWrite \/ PollFlush \/ PollShutdown \/ FlushPending \/ AfterPending

-----------------------------------------------------------------------------
(***************************************************************************)
(* FakeTlsReader under CryptoReader.                                       *)
(***************************************************************************)
RecordUnits(r, from) ==
  [i \in 1..HeaderSize |-> [type |-> r.type, byte |-> r.len, key |-> i]]
  \o [i \in 1..r.len |-> Data(IF r.type = "app" THEN from + i ELSE 0, from + i)]
\* Bytes of the application records among the records rs.
AppBytes(rs) == FoldSeq(LAMBDA r, n : IF r.type = "app" THEN n + r.len ELSE n, 0, rs)
Incoming == FlattenSeq([i \in 1..Len(script) |-> RecordUnits(script[i], AppBytes(SubSeq(script, 1, i - 1)))])
Ready == arrived - taken
Valid(r) ==
  CASE r.type = "app" -> r.byte >= 1
    [] r.type = "ccs" -> r.byte = 1
    [] r.type = "alert" -> r.byte = 2
    [] r.type = "handshake" -> r.byte >= 4
    [] OTHER -> FALSE

Arrive ==
  /\ ~ended
  /\ \/ \E n \in 1..3 : arrived + n <= Len(Incoming) /\ arrived' = arrived + n /\ UNCHANGED ended
     \/ ended' = TRUE /\ UNCHANGED arrived
  /\ UNCHANGED <<script, taken, rst, have, body, out, rks, eof>>

PoisonReader == rst' = "poisoned" /\ eof' = "error" /\ have' = 0 /\ body' = <<>>

\* The end of the stream inside a header passes for a clean end.
EofInHeader ==
  /\ rst = "header" /\ have < HeaderSize /\ Ready = 0 /\ ended
  /\ rst' = "idle" /\ eof' = "clean" /\ have' = 0
  /\ UNCHANGED <<script, arrived, ended, taken, body, out, rks>>

\* End of the stream: clean between records, an error inside a header.
HeaderEof ==
  /\ rst = "header" /\ have < HeaderSize /\ Ready = 0 /\ ended
  /\ IF have = 0 THEN rst' = "idle" /\ eof' = "clean" /\ UNCHANGED <<have, body>> ELSE PoisonReader
  /\ UNCHANGED <<script, arrived, ended, taken, out, rks>>

StartHeader ==
  /\ rst = "idle" /\ eof = "no" /\ rst' = "header" /\ have' = 0
  /\ UNCHANGED <<script, arrived, ended, taken, body, out, rks, eof>>

\* poll_read_header: any part of what is there, then the checks of the header.
ReadHeader ==
  /\ rst = "header"
  /\ \E n \in 1..(HeaderSize - have) :
       /\ n <= Ready /\ taken' = taken + n
       /\ IF have + n < HeaderSize THEN have' = have + n /\ UNCHANGED <<rst, body, eof>>
          ELSE IF Valid(Incoming[taken + n]) THEN rst' = "body" /\ have' = 0 /\ UNCHANGED <<body, eof>>
          ELSE PoisonReader
  /\ UNCHANGED <<script, arrived, ended, out, rks>>

Current == Incoming[taken - Len(body)]

\* poll_read_body; a complete record is skipped, yielded, or ends the stream.
ReadBody ==
  /\ rst = "body"
  /\ \E n \in 1..(Current.byte - Len(body)) :
       /\ n <= Ready /\ taken' = taken + n
       /\ LET all == body \o SubSeq(Incoming, taken + 1, taken + n) IN
            CASE Len(all) < Current.byte -> body' = all /\ UNCHANGED <<rst, eof>>
              [] Len(all) = Current.byte /\ Current.type = "app" -> body' = all /\ rst' = "yield" /\ UNCHANGED eof
              [] Len(all) = Current.byte /\ Current.type = "ccs" -> body' = <<>> /\ rst' = "idle" /\ UNCHANGED eof
              [] Len(all) = Current.byte /\ Current.type = "alert" -> body' = <<>> /\ rst' = "idle" /\ eof' = "clean"
              [] OTHER -> body' = <<>> /\ rst' = "poisoned" /\ eof' = "error"
  /\ UNCHANGED <<script, arrived, ended, have, out, rks>>

BodyEof ==
  /\ rst = "body" /\ Ready = 0 /\ ended
  /\ PoisonReader /\ UNCHANGED <<script, arrived, ended, taken, out, rks>>

\* Yielding, through CryptoReader: the bytes are decrypted as they are handed out.
Yield ==
  /\ rst = "yield"
  /\ \E b \in Buffers :
       LET n == IF b < Len(body) THEN b ELSE Len(body) IN
         /\ out' = out \o [i \in 1..n |-> [byte |-> body[i].byte, ok |-> body[i].key = rks + i]]
         /\ rks' = rks + n
         /\ body' = Drop(body, n) /\ rst' = IF n = Len(body) THEN "idle" ELSE "yield"
  /\ UNCHANGED <<script, arrived, ended, taken, have, eof>>

ReadSide == Arrive \/ HeaderEof \/ StartHeader \/ ReadHeader \/ ReadBody \/ BodyEof \/ Yield

Next ==
  \/ side = "write" /\ WriteSide /\ UNCHANGED <<side, reading>>
  \/ side = "read" /\ ReadSide /\ UNCHANGED <<side, writing>>

Spec == Init /\ [][Next]_vars

-----------------------------------------------------------------------------
Payload(units) == SelectSeq(units, LAMBDA u : u.type = "data")
InOrder(units) == \A i \in DOMAIN units : units[i].byte = i /\ units[i].key = i

\* Whatever the socket takes and wherever a call is cut off, what is on the
\* wire is records whose bytes decrypt in order, and as long as no error
\* occurred every byte the writer accepted is on the wire, in the record
\* being written or in the pending ciphertext.
WireDecodes ==
  /\ InOrder(Payload(wire))
  /\ \A i \in DOMAIN wire : wire[i].type = "header" /\ wire[i].key = 1 =>
       \A j \in i..(i + HeaderSize + wire[i].byte) : j \in DOMAIN wire =>
         /\ (wire[j].type = "header") = (j < i + HeaderSize \/ j = i + HeaderSize + wire[i].byte)
  /\ ~shut /\ cst # "poisoned" /\ tst # "poisoned" =>
       LET all == Payload(wire) \o Payload(Drop(rec, pos)) \o pend IN
         InOrder(all) /\ Len(all) = accepted

\* A flush that succeeds means that everything accepted before it is on the
\* wire: neither layer keeps a remainder.
FlushMeansSent == flushed => Len(Payload(wire)) = accepted

\* The reader hands out the bytes of the application records in order and
\* decrypts each with its own key position, whatever pieces they arrive in;
\* the end of the stream inside a record is an error, never a clean end.
ReaderFaithful ==
  /\ \A i \in DOMAIN out : out[i].byte = i /\ out[i].ok
  /\ eof = "clean" =>
       \E k \in 0..Len(script) :
         /\ Len(out) = AppBytes(SubSeq(script, 1, k))
         /\ taken = Len(FlattenSeq([i \in 1..k |-> RecordUnits(script[i], 0)]))
=============================================================================
