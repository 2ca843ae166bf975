------------------------------- MODULE Future -------------------------------
(***************************************************************************)
(* A future that is read while it is filled: pushes and one outcome come   *)
(* in, iterators and Get hand them out.  The mutex makes AppendPush,       *)
(* SetResponse, SetError and the reading part of Next atomic; waiting and  *)
(* decoding happen outside of it.                                          *)
(***************************************************************************)
EXTENDS Response

CONSTANTS
    Iters,       \* the iterators in use, each by one goroutine
    PushBodies,  \* bodies of the pushes
    Answers,     \* the responses the server may give, as <<code, body>>
    Stacks,      \* the errors it may give, each with the previous ones
    MaxPushes    \* bound: pushes

ASSUME MaxPushesAssumption == MaxPushes \in Nat

\* Codes have sixteen bits, bodies are maps: their keys differ.
ASSUME AnswersAssumption ==
    \A a \in Answers :
        /\ a[1] \in 0 .. 2 * ErrorCodeBit - 1
        /\ a[2] # Absent =>
              LET pairs == The(a[2]) IN
              /\ pairs \in Seq(ToSet(pairs))
              /\ \A m, n \in DOMAIN pairs : pairs[m].key = pairs[n].key => m = n

\* An error in full comes only with its message in the old form.
ASSUME StacksAssumption ==
    /\ \A s \in Stacks :
          /\ s \in Seq(ToSet(s)) /\ s # <<>>
          /\ \A e \in ToSet(s) : e = [k \in ErrorKeys \cup {"Fields"} |-> e[k]]
    /\ \A a \in Answers :
          LET pairs == IF a[2] = Absent THEN {} ELSE ToSet(The(a[2])) IN
          \A p \in pairs :
              p.key = "Error" =>
                  /\ \E s \in Stacks : p.val = Some(EncodeBoxError(s))
                  /\ \A q \in pairs : q.key \in {"Error", "Error24"} /\ q.val # Absent
ASSUME ItersAssumption == Iters # {}

VARIABLES
    pushes,  \* fut.pushes
    resp,    \* fut.resp, optional
    err,     \* fut.err is set
    done,    \* the channel done is closed
    ready,   \* tokens in the channel ready
    closed,  \* the channel ready is closed
    it,      \* the iterators
    yields,  \* history: what each iterator has handed out
    gets     \* history: what Get and GetTyped have returned

futVars == <<pushes, resp, err, done, ready, closed>>
vars == <<futVars, it, yields, gets>>

\* A pointer to a response: none, the n-th push, or fut.resp.
NoResp == 0
Final == -1
FutResp == IF resp = Absent THEN NoResp ELSE Final

Init ==
    /\ pushes = <<>> /\ resp = Absent /\ err = FALSE /\ done = FALSE
    /\ ready = 0 /\ closed = FALSE
    /\ it = [i \in Iters |-> [pc |-> "idle", timed |-> FALSE, resp |-> NoResp, err |-> "none",
                              last |-> FALSE, curPos |-> 0, done |-> FALSE]]
    /\ yields = [i \in Iters |-> <<>>] /\ gets = {}

-----------------------------------------------------------------------------
(* Filling the future.                                                     *)

AppendPush(body) ==
    /\ Len(pushes) < MaxPushes /\ ~done
    /\ pushes' = Append(pushes, MakeResponse(PushCode, body))
    /\ ready' = ready + 1
    /\ UNCHANGED <<resp, err, done, closed, it, yields, gets>>

\* Mutant: only done is closed.
CloseChannelsNot == done' = TRUE /\ UNCHANGED closed

CloseChannels == done' = TRUE /\ closed' = TRUE

SetResponse(answer) ==
    /\ ~done
    /\ resp' = Some(MakeResponse(answer[1], answer[2]))
    /\ CloseChannels
    /\ UNCHANGED <<pushes, err, ready, it, yields, gets>>

SetError ==
    /\ ~done
    /\ err' = TRUE
    /\ CloseChannels
    /\ UNCHANGED <<pushes, resp, ready, it, yields, gets>>

-----------------------------------------------------------------------------
(* asyncResponseIterator.Next, with or without a timeout, which the user   *)
(* may change before every call.                                           *)

\* Next returns; its local variables are forgotten.
Returned(rec) == [rec EXCEPT !.pc = "idle", !.timed = FALSE, !.last = FALSE]

Call(i, timed) ==
    /\ it[i].pc = "idle"
    /\ it' = [it EXCEPT ![i] = IF @.done \/ @.err # "none" THEN [@ EXCEPT !.resp = NoResp]
                               ELSE [@ EXCEPT !.timed = timed, !.resp = NoResp, !.pc = "read"]]
    /\ UNCHANGED <<futVars, yields, gets>>

\* Mutant: the response comes before the pushes that are left.
NextResponseNot(i) == FutResp

NextResponse(i) ==
    IF it[i].curPos < Len(pushes) THEN it[i].curPos + 1
    ELSE IF it[i].curPos = Len(pushes) THEN FutResp ELSE NoResp

\* The critical section: one look at the future.
Read(i) ==
    LET r == NextResponse(i) IN
    /\ it[i].pc = "read"
    /\ it' = [it EXCEPT ![i].resp = r, ![i].last = (r = FutResp),
                        ![i].err = IF err THEN "future" ELSE "none",
                        ![i].pc = IF ~it[i].timed \/ r # NoResp \/ err THEN "decode" ELSE "wait"]
    /\ UNCHANGED <<futVars, yields, gets>>

\* A token, or the closed channel; the iterator looks again.
Wake(i) ==
    /\ it[i].pc = "wait" /\ (ready > 0 \/ closed)
    /\ ready' = IF ready > 0 THEN ready - 1 ELSE 0
    /\ it' = [it EXCEPT ![i].pc = "read"]
    /\ UNCHANGED <<pushes, resp, err, done, closed, yields, gets>>

\* The timeout ends Next without another look.
Expire(i) ==
    /\ it[i].pc = "wait"
    /\ it' = [it EXCEPT ![i].pc = "decode"]
    /\ UNCHANGED <<futVars, yields, gets>>

\* Mutant: the error of the future is kept although there is a response.
ErrAfterDecodeNot(i, decoded) ==
    IF it[i].err # "none" THEN it[i].err ELSE IF decoded.err = Absent THEN "none" ELSE "body"

\* it.err is known by where it comes from: fut.err or the body of a response.
ErrAfterDecode(i, decoded) == IF decoded.err = Absent THEN "none" ELSE "body"

\* The rest of Next, after the loop.
Decode(i) ==
    LET r == it[i].resp
        decoded == DecodeBody(IF r = Final THEN The(resp) ELSE pushes[r])
        e == ErrAfterDecode(i, decoded)
    IN
    /\ it[i].pc = "decode"
    /\ IF r = NoResp
       THEN it' = [it EXCEPT ![i] = Returned(@)] /\ UNCHANGED <<pushes, resp, yields>>
       ELSE /\ IF r = Final THEN resp' = Some(decoded) /\ UNCHANGED pushes
                            ELSE pushes' = [pushes EXCEPT ![r] = decoded] /\ UNCHANGED resp
            /\ IF e # "none"
               THEN /\ it' = [it EXCEPT ![i] = Returned([@ EXCEPT !.resp = NoResp, !.err = e])]
                    /\ UNCHANGED yields
               ELSE /\ it' = [it EXCEPT ![i] = Returned([it[i] EXCEPT
                                !.err = "none", !.done = it[i].last,
                                !.curPos = IF it[i].last THEN it[i].curPos ELSE it[i].curPos + 1])]
                    /\ yields' = [yields EXCEPT ![i] = Append(@, r)]
    /\ UNCHANGED <<err, done, ready, closed, gets>>

-----------------------------------------------------------------------------
(* Get and GetTyped, after wait.                                           *)

Outcome(how, e, data) == [how |-> how, err |-> e, data |-> data]

GetResult(how) ==
    /\ done
    /\ LET decoded == IF how = "Get" THEN DecodeBody(The(resp)) ELSE DecodeBodyTyped(The(resp))
           data == IF how = "Get" THEN decoded.Data ELSE TypedResult(The(resp))
       IN IF err THEN /\ gets' = gets \cup {Outcome(how, Some([kind |-> "future"]), Absent)}
                      /\ UNCHANGED resp
          ELSE gets' = gets \cup {Outcome(how, decoded.err, data)} /\ resp' = Some(decoded)
    /\ UNCHANGED <<pushes, err, done, ready, closed, it, yields>>

Get == GetResult("Get")
GetTyped == GetResult("GetTyped")

Next ==
    \/ \E b \in PushBodies : AppendPush(b)
    \/ \E a \in Answers : SetResponse(a)
    \/ SetError \/ Get \/ GetTyped
    \/ \E i \in Iters :
          \/ \E timed \in BOOLEAN : Call(i, timed)
          \/ Read(i) \/ Wake(i) \/ Expire(i) \/ Decode(i)

Spec == Init /\ [][Next]_vars

-----------------------------------------------------------------------------
(* Properties.                                                             *)

\* What there is to hand out: the pushes, then the response.
Everything == [n \in 1 .. Len(pushes) |-> n] \o (IF resp = Absent THEN <<>> ELSE <<Final>>)

\* Every iterator hands out all pushes in their order and then the response,
\* each once, whatever the other iterators and the timeouts do.
YieldsInOrder == \A i \in Iters : IsPrefix(yields[i], Everything)

\* An iterator ends with the error of the future only after it has handed out
\* every push that came before the error: Next reads both at once and the push
\* comes first.
ErrorAfterPushes ==
    \A i \in Iters :
        it[i].pc = "idle" /\ it[i].err = "future" => Len(yields[i]) = Len(pushes)

\* When every iterator waits, one of them has seen all there is, or there is
\* a token to wake one, or the channel is closed: no push and no outcome is
\* left to the timers.  One of several iterators may miss a push, as they take
\* each other's tokens: it sees the push after its timeout.
SomeoneSeesAll ==
    (\A i \in Iters : it[i].pc = "wait")
        => closed \/ ready > 0 \/ \E i \in Iters : NextResponse(i) = NoResp /\ ~err

\* No error, or one whose code is OkCode or PushCode without its error bit: as
\* resp.Code loses the bit with the first call, a later one finds no error.
Fading(e) == e = Absent \/ (The(e).kind = "server" /\ The(e).code \in {OkCode, PushCode})

\* Two calls of Get, or of GetTyped, on one future return the same data and the
\* same error, unless that fades: decoding in place, also by the iterators, loses
\* neither the body of a good response nor the error of a bad one.
RepeatedGetsAgree ==
    \A g, h \in gets : g.how = h.how =>
        /\ g.data = h.data
        /\ g.err = h.err \/ (Fading(g.err) /\ Fading(h.err))

\* The error of the server comes out with the stack the server sent, additional
\* fields included: encodeBoxError and decodeBoxError are inverse.
StackComesBack ==
    \A g \in gets :
        resp # Absent /\ The(resp).body # Absent /\ g.err # Absent =>
            \A p \in ToSet(The(The(resp).body)) :
                p.key = "Error" =>
                    /\ The(g.err).kind = "server" /\ The(g.err).extended # Absent
                    /\ EncodeBoxError(The(The(g.err).extended)) = The(p.val)

\* Iterators hand out everything in order, the error last.
HandedOutInOrder == YieldsInOrder /\ ErrorAfterPushes

\* The outcome can be asked for again and again, whole.
OutcomeKept == RepeatedGetsAgree /\ StackComesBack
=============================================================================
