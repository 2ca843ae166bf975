----------------------------- MODULE Transport ------------------------------
(***************************************************************************)
(* How packed requests reach the socket: putFuture appends to the buffer   *)
(* of a shard and announces the shard in dirtyShard when the buffer was    *)
(* empty; the writer of the current socket swaps the buffer out and writes *)
(* it; closeConnection empties the buffers.  Sockets are numbered by their *)
(* dials and each has a writer of its own, which may outlive its socket.   *)
(***************************************************************************)
EXTENDS Integers, SequencesExt

CONSTANTS
    ReqIds,        \* requests, by identifier
    Concurrency,   \* number of shards
    MaxDials       \* bound: sockets

ASSUME ConcurrencyAssumption == Concurrency \in Nat \ {0}
ASSUME ReqIdsAssumption == ReqIds \subseteq Nat
ASSUME MaxDialsAssumption == MaxDials \in Nat \ {0}

Shards == 0 .. Concurrency - 1
Sockets == 1 .. MaxDials
ShardOf(r) == r % Concurrency
HasCtx(r) == r % 2 = 1
DirtyCap == 2 * Concurrency

VARIABLES
    c,           \* conn.c: the current socket, 0 for nil
    dials,       \* sockets opened so far
    closed,      \* conn.state is connClosed
    broken,      \* sockets the network has failed
    epoch,       \* the socket for which newFuture accepted each request, or 0
    settled,     \* requests whose future is done
    cancelled,   \* those whose watchdog took the future out before it was packed
    pc,          \* where putFuture is for each request
    buf,         \* shard.buf: the requests packed into it
    dirtyShard,  \* the channel
    wpc, shardn, packet,  \* the writers' local variables
    wbuf,        \* what each writer has written and not flushed
    out,         \* what has gone out on each socket
    resets       \* history: full buffers of each shard that were reset

reqVars == <<epoch, pc>>
netVars == <<c, dials, closed, broken, settled, cancelled, resets>>
writerVars == <<wpc, shardn, packet, wbuf, out>>
vars == <<netVars, reqVars, buf, dirtyShard, writerVars>>

Init ==
    /\ c = 1 /\ dials = 1 /\ closed = FALSE /\ broken = {}
    /\ epoch = [r \in ReqIds |-> 0] /\ settled = {} /\ cancelled = {}
    /\ pc = [r \in ReqIds |-> "new"]
    /\ buf = [s \in Shards |-> <<>>] /\ dirtyShard = <<>>
    /\ wpc = [w \in Sockets |-> IF w = 1 THEN "top" ELSE "none"]
    /\ shardn = [w \in Sockets |-> 0]
    /\ packet = [w \in Sockets |-> <<>>] /\ wbuf = packet /\ out = packet
    /\ resets = [s \in Shards |-> 0]

\* A writer of an old socket keeps bufmut while it puts its shard back.
BufFree(s) == \A w \in Sockets : ~(wpc[w] = "putback" /\ shardn[w] = s)

-----------------------------------------------------------------------------
(* send.                                                                   *)

\* newFuture: module Requests has the cases in which it refuses.
Register(r) ==
    /\ pc[r] = "new" /\ c # 0
    /\ epoch' = [epoch EXCEPT ![r] = c]
    /\ pc' = [pc EXCEPT ![r] = "put"]
    /\ UNCHANGED <<netVars, buf, dirtyShard, writerVars>>

\* Mutant: the shard is announced when the buffer is not empty.
FirstWrittenNot(s) == buf[s] # <<>>

\* Mutant: every sender announces the shard.
FirstWrittenAlways(s) == TRUE

FirstWritten(s) == buf[s] = <<>>

\* Mutant: putFuture does not look whether the future is done.
AlreadyDoneNot(r) == FALSE

AlreadyDone(r) == r \in settled

\* putFuture, up to bufmut.Unlock.  A request that cannot be packed leaves the
\* buffer as it was and announces nothing: see module Requests.
PutFuture(r) ==
    LET s == ShardOf(r) IN
    /\ pc[r] = "put" /\ BufFree(s)
    /\ IF AlreadyDone(r) THEN pc' = [pc EXCEPT ![r] = "returned"] /\ UNCHANGED buf
       ELSE /\ pc' = [pc EXCEPT ![r] = IF FirstWritten(s) THEN "announce" ELSE "returned"]
            /\ buf' = [buf EXCEPT ![s] = Append(@, r)]
    /\ UNCHANGED <<netVars, epoch, dirtyShard, writerVars>>

\* conn.dirtyShard <- shardn.
Announce(r) ==
    /\ pc[r] = "announce" /\ Len(dirtyShard) < DirtyCap
    /\ dirtyShard' = Append(dirtyShard, ShardOf(r))
    /\ pc' = [pc EXCEPT ![r] = "returned"]
    /\ UNCHANGED <<netVars, epoch, buf, writerVars>>

-----------------------------------------------------------------------------
(* writer.                                                                 *)

Step(w, from, to) == wpc[w] \in from /\ wpc' = [wpc EXCEPT ![w] = to]
WriterOnly == UNCHANGED <<netVars, reqVars, buf>>

Take(w) ==
    /\ dirtyShard # <<>>
    /\ wpc[w] = "top" => ~closed
    /\ Step(w, {"top", "wait"}, "lock")
    /\ shardn' = [shardn EXCEPT ![w] = Head(dirtyShard)]
    /\ dirtyShard' = Tail(dirtyShard)
    /\ WriterOnly /\ UNCHANGED <<packet, wbuf, out>>

Idle(w) ==
    /\ dirtyShard = <<>> /\ ~closed
    /\ Step(w, {"top"}, "gosched")
    /\ WriterOnly /\ UNCHANGED <<dirtyShard, shardn, packet, wbuf, out>>

Unusable(w) == w \in broken \/ c # w

\* Mutant: the writer waits without flushing what it has written.
FlushedNot(w) == out[w]

Flushed(w) == out[w] \o wbuf[w]

\* w.Flush, when nothing is waiting; after an error reconnect takes over.
Flush(w) ==
    /\ \/ /\ dirtyShard = <<>>
          /\ Step(w, {"gosched"}, "wait")
          /\ ~Unusable(w)
          /\ out' = [out EXCEPT ![w] = Flushed(w)] /\ wbuf' = [wbuf EXCEPT ![w] = <<>>]
       \/ /\ dirtyShard = <<>> /\ wbuf[w] # <<>> /\ Unusable(w)
          /\ Step(w, {"gosched"}, "ended")
          /\ UNCHANGED <<out, wbuf>>
       \/ /\ dirtyShard # <<>> \/ (wbuf[w] = <<>> /\ Unusable(w))
          /\ Step(w, {"gosched"}, "wait")
          /\ UNCHANGED <<out, wbuf>>
    /\ WriterOnly /\ UNCHANGED <<dirtyShard, shardn, packet>>

Current(w) == c = w

\* The critical section of bufmut: the buffers are swapped, or the shard is
\* left for the writer of the new socket.
Swap(w) ==
    LET s == shardn[w] IN
    /\ wpc[w] = "lock" /\ BufFree(s)
    /\ IF Current(w)
       THEN /\ packet' = [packet EXCEPT ![w] = buf[s]]
            /\ buf' = [buf EXCEPT ![s] = packet[w]]
            /\ wpc' = [wpc EXCEPT ![w] = IF buf[s] = <<>> THEN "top" ELSE "write"]
       ELSE wpc' = [wpc EXCEPT ![w] = "putback"] /\ UNCHANGED <<packet, buf>>
    /\ UNCHANGED <<netVars, reqVars, dirtyShard, shardn, wbuf, out>>

PutBack(w) ==
    /\ Len(dirtyShard) < DirtyCap
    /\ Step(w, {"putback"}, "ended")
    /\ dirtyShard' = Append(dirtyShard, shardn[w])
    /\ WriterOnly /\ UNCHANGED <<shardn, packet, wbuf, out>>

\* Mutant: the packet is written and not reset.
ResetPacketNot(w) == packet[w]

ResetPacket(w) == <<>>

\* w.Write goes to a buffer of bufio and may meet the error of the socket.
Write(w) ==
    /\ \/ /\ Step(w, {"write"}, "top")
          /\ wbuf' = [wbuf EXCEPT ![w] = @ \o packet[w]]
          /\ packet' = [packet EXCEPT ![w] = ResetPacket(w)]
       \/ /\ Unusable(w)
          /\ Step(w, {"write"}, "ended")
          /\ UNCHANGED <<wbuf, packet>>
    /\ WriterOnly /\ UNCHANGED <<dirtyShard, shardn, out>>

\* The loop's condition and control.
WriterEnds(w) ==
    /\ closed /\ Step(w, {"top", "wait"}, "ended")
    /\ WriterOnly /\ UNCHANGED <<dirtyShard, shardn, packet, wbuf, out>>

-----------------------------------------------------------------------------
(* The connection.                                                         *)

Break ==
    /\ c # 0 /\ c \notin broken
    /\ broken' = broken \cup {c}
    /\ UNCHANGED <<c, dials, closed, settled, cancelled, resets, reqVars, buf, dirtyShard, writerVars>>

ResetBuffers == buf' = [s \in Shards |-> <<>>]

\* The futures in the shards' lists.
Listed == {r \in ReqIds : epoch[r] # 0} \ (settled \cup cancelled)

\* closeConnection, with every shard locked: all futures in the lists end.
CloseConnection(forever) ==
    /\ ~closed /\ (forever \/ (c # 0 /\ c \in broken))
    /\ \A s \in Shards : BufFree(s)
    /\ c' = 0 /\ closed' = forever
    /\ ResetBuffers
    /\ settled' = settled \cup Listed
    /\ resets' = [s \in Shards |-> resets[s] + (IF buf[s] = <<>> THEN 0 ELSE 1)]
    /\ UNCHANGED <<dials, broken, cancelled, reqVars, dirtyShard, writerVars>>

\* createConnection: a new socket with a new writer.  dial() publishes it with
\* every shard locked, so that a writer in PutBack keeps it waiting.
Dial ==
    /\ c = 0 /\ ~closed /\ dials < MaxDials
    /\ \A s \in Shards : BufFree(s)
    /\ dials' = dials + 1 /\ c' = dials'
    /\ wpc' = [wpc EXCEPT ![dials'] = "top"]
    /\ UNCHANGED <<closed, broken, settled, cancelled, resets, reqVars, buf, dirtyShard, shardn,
                   packet, wbuf, out>>

-----------------------------------------------------------------------------
(* The ends of a future: module Requests has them one by one.              *)

\* The answer has been read, or the request is packed and its context done, or
\* the timeouts goroutine, which holds bufmut, has found it.
End(r) ==
    /\ r \in Listed
    /\ \/ c # 0 /\ r \in ToSet(out[c])
       \/ pc[r] \in {"announce", "returned"}
       \/ BufFree(ShardOf(r))
    /\ settled' = settled \cup {r}
    /\ UNCHANGED <<c, dials, closed, broken, cancelled, resets, reqVars, buf, dirtyShard,
                   writerVars>>

\* cancelFuture, called by the watchdog of a request that putFuture has still to
\* pack: the future leaves its list now and is done only later.
Cancel(r) ==
    /\ HasCtx(r) /\ r \in Listed /\ pc[r] = "put"
    /\ cancelled' = cancelled \cup {r}
    /\ UNCHANGED <<c, dials, closed, broken, settled, resets, reqVars, buf, dirtyShard,
                   writerVars>>

CancelSettle(r) ==
    /\ r \in cancelled \ settled
    /\ settled' = settled \cup {r}
    /\ UNCHANGED <<c, dials, closed, broken, cancelled, resets, reqVars, buf, dirtyShard,
                   writerVars>>

Writer(w) == Take(w) \/ Idle(w) \/ Flush(w) \/ Swap(w) \/ PutBack(w) \/ Write(w) \/ WriterEnds(w)
Sender(r) == PutFuture(r) \/ Announce(r)

Next ==
    \/ \E r \in ReqIds : Register(r) \/ Sender(r) \/ End(r) \/ Cancel(r) \/ CancelSettle(r)
    \/ \E w \in Sockets : Writer(w)
    \/ Break \/ Dial \/ \E forever \in BOOLEAN : CloseConnection(forever)

Spec == Init /\ [][Next]_vars

\* Every goroutine that can run does; a broken socket is noticed by its reader
\* or writer.
FairSpec ==
    /\ Spec /\ WF_vars(CloseConnection(FALSE))
    /\ \A r \in ReqIds : WF_vars(Sender(r)) /\ WF_vars(CancelSettle(r))
    /\ \A w \in Sockets : WF_vars(Writer(w))

-----------------------------------------------------------------------------
(* Properties.                                                             *)

\* Goroutines that have shard s in hand: senders about to announce it and
\* writers that took it out of dirtyShard.
Holders(s) ==
    {<<"r", r>> : r \in {q \in ReqIds : pc[q] = "announce" /\ ShardOf(q) = s}}
    \cup {<<"w", w>> : w \in {v \in Sockets : wpc[v] \in {"lock", "putback"} /\ shardn[v] = s}}

Announced(s) == {i \in DOMAIN dirtyShard : dirtyShard[i] = s}

\* No request is left behind in a buffer: whenever one holds something its
\* shard is in dirtyShard, or a sender or a writer is about to see to it,
\* although only the sender that finds the buffer empty announces it.
BufferAnnounced ==
    \A s \in Shards : buf[s] # <<>> => Announced(s) # {} \/ Holders(s) # {}

\* A shard is announced once for what its buffer holds and once for every full
\* buffer that a lost connection threw away: so the channel, which has room
\* for two announcements of each shard, fills up only when a shard loses two
\* buffers before the writer gets to run.
AnnouncementsBounded ==
    \A s \in Shards : Cardinality(Announced(s)) + Cardinality(Holders(s))
                        <= resets[s] + (IF buf[s] = <<>> THEN 0 ELSE 1)

\* What a writer has taken out of the buffers, in the order in which it goes out.
Way(w) == out[w] \o wbuf[w] \o packet[w]

\* A request goes out on the socket it was accepted for or not at all: its
\* future fails when that socket is lost, and the user may send it again.  Only a
\* future that its watchdog had taken out of the lists before it was packed, and
\* that was not done yet when putFuture looked, escapes closeConnection.
OnOwnSocket == \A w \in Sockets : \A r \in ToSet(Way(w)) : epoch[r] = w \/ r \in cancelled

\* Nothing is packed or taken twice: what is under way on a socket never
\* repeats, neither there nor on another socket nor in what the buffers hold.
NeverTwice ==
    /\ \A w \in Sockets :
        /\ IsInjective(Way(w))
        /\ \A v \in Sockets \ {w} : ToSet(Way(v)) \cap ToSet(Way(w)) = {}
    /\ \A s \in Shards :
        /\ IsInjective(buf[s])
        /\ \A w \in Sockets : ToSet(buf[s]) \cap ToSet(Way(w)) = {}
        /\ \A t \in Shards \ {s} : ToSet(buf[s]) \cap ToSet(buf[t]) = {}

\* A request that was packed is flushed to its socket or its future is done:
\* the writer never waits with requests in its hands.
EventuallyOut ==
    \A r \in ReqIds : pc[r] \in {"announce", "returned"}
        ~> (r \in settled \/ \E w \in Sockets : w = epoch[r] /\ r \in ToSet(out[w]))

\* Every buffer that holds something is announced, and not too often.
ShardsAnnounced == BufferAnnounced /\ AnnouncementsBounded

\* A request goes out at most once and, unless it was cancelled before it was
\* packed, to no other socket than its own, also when old writers, resets and new
\* sockets meet.
SentOnce == OnOwnSocket /\ NeverTwice

-----------------------------------------------------------------------------
(* What a comment of connection.go says and its code does not do: TLC finds *)
(* it violated (README, section 3).                                        *)

\* A writer waits with bufmut for room in dirtyShard and no goroutine is left to
\* make room: neither dial() nor Close gets the shard's lock any more.
Wedged(s) ==
    /\ ~BufFree(s) /\ Len(dirtyShard) = DirtyCap
    /\ \A w \in Sockets : \/ wpc[w] \in {"none", "putback", "ended"}
                          \/ wpc[w] = "lock" /\ shardn[w] = s

\* "when Tarantool is not reachable or disconnected, new connect attempt is
\* performed after pause" (connection.go:250): the attempt can be made.
ReconnectPossible == c = 0 /\ ~closed => \A s \in Shards : ~Wedged(s)
=============================================================================
