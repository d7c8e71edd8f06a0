------------------------------ MODULE Transport ------------------------------
(***************************************************************************)
(* The renter side of the RHPv3 transport (rhp/v3, src/unnamed/part_000):  *)
(* one Transport, its seed handshake and one RPC stream at a time, against *)
(* a host that follows the protocol of spec 4.4.                           *)
(*                                                                         *)
(* A stream is two FIFO channels of frames, one per direction.  A frame is *)
(* named by what it carries; its bytes are abstracted away.  Each RPC      *)
(* function is a script: the blocking calls it makes on its stream, in     *)
(* order, and the renter executes one call per step, returning at the      *)
(* first error it does not ignore.  The host is the mirror script, written *)
(* from the spec (its code is not in this repository); at any response it  *)
(* may send an RPCError instead and close, and a request frame it cannot  *)
(* decode ends the RPC the same way.  A stream may be reset, and the       *)
(* Transport closed, at any moment: frames in flight are then lost.        *)
(* Streams are independent in the mux, so one at a time is enough.         *)
(***************************************************************************)
EXTENDS Naturals, Sequences

CONSTANTS
    RPCs,      \* the RPC functions the caller may call
    Payments   \* "contract" (PayByContractRequest) or "account"

FrameKinds ==
    {"sub", "ack", "ackerr", "error", "seed", "id", "rawid", "account",
     "settingsid", "fundreq", "paymenttype", "payment", "paymentresp",
     "pricetable", "ptack", "balance", "fundresp", "program", "token", "execresp"}

\* The responses a host may replace by an RPCError.
ErrorKinds ==
    {"pricetable", "paymentresp", "ptack", "balance", "fundresp", "token", "execresp"}

\* One blocking call on a stream.
W(k) == [op |-> "write", kind |-> k]     \* writeResponse / Write
R(k) == [op |-> "read", kind |-> k]      \* readResponse
Drain(k) == [op |-> "drain", kind |-> k] \* readResponse whose error is ignored
Local == [op |-> "local", kind |-> "none"]    \* json.Unmarshal, paymentFunc
CheckLen(k) == [op |-> "check", kind |-> k]   \* the OutputLength test
RawRead == [op |-> "raw", kind |-> "none"]    \* s.Read(buf) of the output

Ops == [op : {"write", "read", "drain", "local", "check", "raw"},
        kind : FrameKinds \cup {"none", "read", "update"}]

\* Fault variant: the request is written even when it is nil.
writeRequestNil(req) == <<W("id"), W(req)>>

\* writeRequest: the id, then the request unless it is nil, each framed by
\* writeResponse (u64 length prefix and response envelope).
writeRequest(req) == <<W("id")>> \o (IF req = "nil" THEN <<>> ELSE <<W(req)>>)

processPayment(p) ==
    <<W("paymenttype"), W("payment")>>
    \o (IF p = "contract" THEN <<R("paymentresp")>> ELSE <<>>)

RPCPriceTable(p) ==
    writeRequest("nil") \o <<R("pricetable"), Local>> \o processPayment(p) \o <<R("ptack")>>

RPCAccountBalance(p) == writeRequest("account") \o <<R("balance")>>

RPCFundAccount(p) ==
    writeRequest("settingsid") \o <<W("fundreq")>> \o processPayment(p) \o <<R("fundresp")>>

\* s.Write(rpcExecuteProgramID[:]) writes the ExecuteProgram id as 16 raw
\* bytes, without writeResponse's framing ("rawid"); the cancellation token
\* is drained.  The output length test and the raw output read end the
\* script; no spec 4.4 host gets that far (see HostRead).
RPCReadRegistry(p) ==
    <<W("rawid")>> \o processPayment(p)
    \o <<W("program"), Drain("token"), R("execresp"), CheckLen("read"), RawRead>>

RPCUpdateRegistry(p) ==
    <<W("rawid")>> \o processPayment(p)
    \o <<W("program"), Drain("token"), R("execresp"), CheckLen("update")>>

performSeedHandshake == <<W("seed"), R("seed")>>

RenterScript(r, p) ==
    CASE r = "PriceTable"     -> RPCPriceTable(p)
      [] r = "AccountBalance" -> RPCAccountBalance(p)
      [] r = "FundAccount"    -> RPCFundAccount(p)
      [] r = "ReadRegistry"   -> RPCReadRegistry(p)
      [] r = "UpdateRegistry" -> RPCUpdateRegistry(p)

\* The host's side, from spec 4.4: it answers the subscriber, reads the
\* framed RPC id, then mirrors the RPC.
HostPayment(p) ==
    <<R("paymenttype"), R("payment")>>
    \o (IF p = "contract" THEN <<W("paymentresp")>> ELSE <<>>)

HostScript(r, p) ==
    <<R("sub"), W("ack"), R("id")>>
    \o CASE r = "PriceTable"     -> <<W("pricetable")>> \o HostPayment(p) \o <<W("ptack")>>
         [] r = "AccountBalance" -> <<R("account"), W("balance")>>
         [] r = "FundAccount"    -> <<R("settingsid"), R("fundreq")>> \o HostPayment(p) \o <<W("fundresp")>>
         [] OTHER -> HostPayment(p) \o <<R("program"), W("token"), W("execresp")>>

HostSeed == <<R("seed"), W("seed")>>

VARIABLES
    session,       \* the Transport: "down", "handshake" (seed stream), "open",
                   \* or "failed" (returned with the handshake's error, mux open)
    rpc,           \* what the current stream is for: an RPC or "seed"
    rstate,        \* "run" while the RPC function runs, "done" once it returned
    script,        \* the renter's calls still to make
    hscript,       \* the host's calls still to make
    toHost,        \* frames in flight to the host
    toRenter,      \* frames in flight to the renter
    renterClosed,  \* the renter's end is closed (defer s.Close(), or reset)
    hostClosed,    \* the host's end is closed
    acked,         \* stream.once: "no", "ok", or "err" (readSubscriberResponseErr)
    result,        \* what the RPC function returned
    hostErr        \* history: the host sent an RPCError (or an error ack) on this stream

vars == <<session, rpc, rstate, script, hscript, toHost, toRenter,
          renterClosed, hostClosed, acked, result, hostErr>>

Results == {"none", "ok", "io", "remote", "ack", "local"}

TypeOK ==
    /\ session \in {"down", "handshake", "open", "failed"}
    /\ rpc \in RPCs \cup {"seed"}
    /\ rstate \in {"run", "done"}
    /\ script \in Seq(Ops) /\ hscript \in Seq(Ops)
    /\ toHost \in Seq(FrameKinds) /\ toRenter \in Seq(FrameKinds)
    /\ renterClosed \in BOOLEAN /\ hostClosed \in BOOLEAN
    /\ acked \in {"no", "ok", "err"}
    /\ result \in Results
    /\ hostErr \in BOOLEAN

Init ==
    /\ session = "down"
    /\ rpc = "seed" /\ rstate = "done"
    /\ script = <<>> /\ hscript = <<>>
    /\ toHost = <<>> /\ toRenter = <<>>
    /\ renterClosed = TRUE /\ hostClosed = TRUE
    /\ acked = "ok" /\ result = "none" /\ hostErr = FALSE

StreamDone == rstate = "done" /\ hscript = <<>>

OpenStream(r, scr, hscr, ack, first) ==
    /\ rpc' = r /\ rstate' = "run"
    /\ script' = scr /\ hscript' = hscr
    /\ toHost' = first /\ toRenter' = <<>>
    /\ renterClosed' = FALSE /\ hostClosed' = FALSE
    /\ acked' = ack /\ result' = "none" /\ hostErr' = FALSE

\* mux.Dial, then performSeedHandshake on a raw mux stream (no subscriber,
\* so no subscriber response to drain).  A failed mux.Dial changes nothing.
NewRenterTransport ==
    /\ session = "down" /\ StreamDone
    /\ session' = "handshake"
    /\ OpenStream("seed", performSeedHandshake, HostSeed, "ok", <<>>)

\* An RPC function's t.DialStream(): the subscriber frame is written at
\* once (its error ignored) and the stream's once is fresh.
DialStream(r, p) ==
    /\ session = "open" /\ StreamDone
    /\ OpenStream(r, RenterScript(r, p), HostScript(r, p), "no", <<"sub">>)
    /\ UNCHANGED session

\* Fault variant: the RPC returns without closing its stream (no defer
\* s.Close()).
FinishNoClose(r) ==
    /\ rstate' = "done" /\ result' = r /\ script' = <<>>
    /\ UNCHANGED renterClosed
    /\ session' = IF rpc = "seed" THEN IF r = "ok" THEN "open" ELSE "failed"
                  ELSE session

\* The RPC function returns r; the deferred s.Close() closes its end.  The
\* handshake's outcome is NewRenterTransport's: on an error it still
\* returns t, its mux open, with that error.
Finish(r) ==
    /\ rstate' = "done" /\ result' = r /\ script' = <<>>
    /\ renterClosed' = TRUE
    /\ session' = IF rpc = "seed" THEN IF r = "ok" THEN "open" ELSE "failed"
                  ELSE session

Pop == script' = Tail(script)
Going == UNCHANGED <<session, rstate, result, renterClosed>>

RenterOp(o) == rstate = "run" /\ script # <<>> /\ Head(script).op = o

RenterWrite ==
    /\ RenterOp("write")
    /\ \/ ~hostClosed /\ toHost' = Append(toHost, Head(script).kind) /\ Pop /\ Going
       \/ hostClosed /\ Finish("io") /\ UNCHANGED toHost
    /\ UNCHANGED <<rpc, hscript, toRenter, hostClosed, acked, hostErr>>

\* stream.Read's once.Do(readSubscriberResponse), before the first read of
\* an RPC stream: 16 bytes, then errLen bytes of error if errLen > 0.  A
\* failure (EOF included) is kept and returned by every later Read.
ReadSubscriberResponse ==
    /\ rstate = "run" /\ script # <<>>
    /\ Head(script).op \in {"read", "drain"}
    /\ acked = "no"
    /\ \/ /\ toRenter # <<>> /\ Head(toRenter) \in {"ack", "ackerr"}
          /\ acked' = IF Head(toRenter) = "ack" THEN "ok" ELSE "err"
          /\ toRenter' = Tail(toRenter)
       \/ toRenter = <<>> /\ hostClosed /\ acked' = "err" /\ UNCHANGED toRenter
    /\ UNCHANGED <<session, rpc, rstate, script, hscript, toHost, renterClosed,
                   hostClosed, result, hostErr>>

\* readResponse of the head frame: the expected response, an RPCError, or
\* the stream's error (the subscriber response's, or EOF).  A drained read
\* ignores whatever error it gets.  A frame of another kind would be a
\* decode error; RenterInSync shows none arrives.
Surface(e) ==
    IF Head(script).op = "drain" THEN Pop /\ Going ELSE Finish(e)

\* Fault variant: readResponse returns nil for a decoded RPCError.
RemoteErrorIgnored == Pop /\ Going

\* readResponse decoded an RPCError instead of the response: return it.
RemoteError == Surface("remote")

ReadResponse ==
    /\ rstate = "run" /\ script # <<>> /\ Head(script).op \in {"read", "drain"}
    /\ acked # "no"
    /\ \/ /\ acked = "ok" /\ toRenter # <<>> /\ Head(toRenter) = Head(script).kind
          /\ toRenter' = Tail(toRenter) /\ Pop /\ Going
       \/ /\ acked = "ok" /\ toRenter # <<>> /\ Head(toRenter) = "error"
          /\ toRenter' = Tail(toRenter) /\ RemoteError
       \/ /\ \/ acked = "err"
             \/ acked = "ok" /\ toRenter = <<>> /\ hostClosed
          /\ UNCHANGED toRenter
          /\ Surface(IF acked = "err" THEN "ack" ELSE "io")
    /\ UNCHANGED <<rpc, hscript, toHost, hostClosed, hostErr>>

\* Fault variant: stream.Read without sync.Once reads a subscriber response
\* before every Read.
RenterReadNoOnce == ReadResponse /\ acked' = "no"

\* The once is spent: later reads go to the stream.
RenterRead == ReadResponse /\ UNCHANGED acked

\* json.Unmarshal of the price table and the caller's paymentFunc.
LocalCheck ==
    /\ RenterOp("local")
    /\ \/ Pop /\ Going
       \/ Finish("local")
    /\ UNCHANGED <<rpc, hscript, toHost, toRenter, hostClosed, acked, hostErr>>

RenterReturn ==
    /\ rstate = "run" /\ script = <<>>
    /\ Finish("ok")
    /\ UNCHANGED <<rpc, hscript, toHost, toRenter, hostClosed, acked, hostErr>>

RenterStep ==
    \/ RenterWrite \/ ReadSubscriberResponse \/ RenterRead \/ LocalCheck
    \/ RenterReturn

-----------------------------------------------------------------------------
(* The host, from spec 4.4.  It closes its end when its script ends, when *)
(* it sends an error, and when a read or write finds the renter gone.     *)

HPop == hscript' = Tail(hscript) /\ hostClosed' = (hostClosed \/ Tail(hscript) = <<>>)
HStop == hscript' = <<>> /\ hostClosed' = TRUE

\* A frame that does not decode as the message the host reads (the raw
\* ExecuteProgram id, whose first 8 bytes are no length prefix) is a
\* framing/decode failure, fatal to the RPC (spec 4.4): the host ends it,
\* with an RPCError or by just closing.
HostRead ==
    /\ hscript # <<>> /\ Head(hscript).op = "read"
    /\ \/ /\ toHost # <<>> /\ Head(toHost) = Head(hscript).kind
          /\ toHost' = Tail(toHost) /\ HPop /\ UNCHANGED <<toRenter, hostErr>>
       \/ /\ toHost # <<>> /\ Head(toHost) # Head(hscript).kind
          /\ toHost' = Tail(toHost) /\ HStop
          /\ \/ ~renterClosed /\ toRenter' = Append(toRenter, "error") /\ hostErr' = TRUE
             \/ UNCHANGED <<toRenter, hostErr>>
       \/ /\ toHost = <<>> /\ renterClosed /\ HStop
          /\ UNCHANGED <<toHost, toRenter, hostErr>>
    /\ UNCHANGED <<session, rpc, rstate, script, renterClosed, acked, result>>

HostWrite ==
    /\ hscript # <<>> /\ Head(hscript).op = "write"
    /\ LET k == Head(hscript).kind IN
       \/ renterClosed /\ HStop /\ UNCHANGED <<toRenter, hostErr>>
       \/ /\ ~renterClosed /\ toRenter' = Append(toRenter, k) /\ HPop
          /\ UNCHANGED hostErr
       \/ /\ ~renterClosed /\ k \in ErrorKinds \cup {"ack"}
          /\ toRenter' = Append(toRenter, IF k = "ack" THEN "ackerr" ELSE "error")
          /\ HStop /\ hostErr' = TRUE
    /\ UNCHANGED <<session, rpc, rstate, script, toHost, renterClosed, acked, result>>

HostStep == HostRead \/ HostWrite

\* The stream is reset (connection lost): both ends see it closed and the
\* frames in flight are lost.
ResetStream ==
    /\ ~(renterClosed /\ hostClosed)
    /\ toHost' = <<>> /\ toRenter' = <<>>
    /\ renterClosed' = TRUE /\ hostClosed' = TRUE
    /\ UNCHANGED <<session, rpc, rstate, script, hscript, acked, result, hostErr>>

\* Transport.Close: mux.Close ends every stream.  The caller may close a
\* Transport whose handshake failed, too.
Close ==
    /\ session \in {"open", "failed"} /\ session' = "down"
    /\ toHost' = <<>> /\ toRenter' = <<>>
    /\ renterClosed' = TRUE /\ hostClosed' = TRUE
    /\ UNCHANGED <<rpc, rstate, script, hscript, acked, result, hostErr>>

Next ==
    \/ NewRenterTransport
    \/ \E r \in RPCs, p \in Payments : DialStream(r, p)
    \/ RenterStep \/ HostStep \/ ResetStream \/ Close

\* The RPC runs on the caller's goroutine; the host is assumed to follow the
\* protocol and to keep answering.  Resets and Close need not happen.
Spec == Init /\ [][Next]_vars /\ WF_vars(RenterStep) /\ WF_vars(HostStep)

-----------------------------------------------------------------------------
(* Properties.                                                            *)

\* What the renter may read next.  Before its first read it drains the
\* subscriber response; after it, a response or an RPCError.
RenterExpects ==
    IF acked = "no" THEN {"ack", "ackerr"} ELSE {Head(script).kind, "error"}

\* Spec 4.4, renter side: on every stream the next frame the renter reads
\* is one it can decode: the subscriber response exactly once and first,
\* then each response of its RPC (the payment response only for a contract
\* payment) or the host's RPCError, whatever the host, resets and errors do.
RenterInSync ==
    rstate = "run" /\ script # <<>> /\ Head(script).op \in {"read", "drain"}
    /\ toRenter # <<>> => Head(toRenter) \in RenterExpects

\* Spec 4.4, host side: "every message (including requests) is
\* length-prefixed"; the next frame the host reads is the framed message
\* its handler expects, so no RPC ends in a decode failure.
HostInSync ==
    hscript # <<>> /\ Head(hscript).op = "read" /\ toHost # <<>>
    => Head(toHost) = Head(hscript).kind

\* Every RPC returns and its stream is closed at both ends: the renter's
\* calls (deferred s.Close() included) never leave the host's handler, or
\* the renter, waiting for a frame that will not come.
StreamsEnd == rstate = "run" ~> StreamDone

\* Spec 4.4: "reading a response that carries an error surfaces it as a
\* typed error to the caller".  A renter read that consumes the host's
\* RPCError ends the RPC with it, the cancellation token's read included.
HostErrorSurfaced ==
    [][rstate = "run" /\ toRenter # <<>> /\ Head(toRenter) = "error"
       /\ toRenter' = Tail(toRenter) /\ script' # script
       => result' = "remote"]_vars

\* An RPC function returns without error only when the host served it: a
\* host that answered a response with an RPCError, rejected an undecodable
\* frame, or answered the subscriber with an error, never sees the renter
\* report success.  This holds for the registry RPCs too, whose
\* cancellation-token read drops the host's error: the host closes after
\* it, so the next readResponse fails.
OkOnlyIfServed == rstate = "done" /\ result = "ok" => ~hostErr

=============================================================================
