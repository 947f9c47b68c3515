------------------------------ MODULE RawHttp -------------------------------
(***************************************************************************)
(* One HTTP exchange of the rig probe: raw_http_get of common/raw_http.hpp *)
(* and the verdict of common/completion_authority.hpp on its receipt.      *)
(*                                                                         *)
(* Octets are counted, not spelled.  The peer sends peer.sent octets of a  *)
(* response, a head of peer.head octets (with its CRLFCRLF) and a body;    *)
(* the network hands them over in any pieces.  Then the peer closes,       *)
(* resets, or says nothing more.  The deadline passes at any moment, and   *)
(* every blocking call is armed with what is left of it: armed is TRUE     *)
(* from a successful arm_remaining_timeout to the return of that call.     *)
(***************************************************************************)
EXTENDS Integers, Sequences

CONSTANTS
    Req,       \* octets of the request
    MaxHead, MaxBody,
    Addrs,     \* how many addresses the host has
    Peers,     \* what the peer may do
    Expected   \* the landing length the caller expects

\* te: the Transfer-Encoding fields; cl: the values of the Content-Length fields,
\* Malformed where one is not a plain decimal.
ASSUME HttpAssumption ==
    /\ {Req, MaxHead} \subseteq Nat \ {0}
    /\ {MaxBody, Addrs, Expected} \subseteq Nat
    /\ \A p \in Peers :
          /\ p.head \in Nat \ {0}
          /\ p.malformed \in BOOLEAN
          /\ p.te \in {"none", "chunked", "other"}
          /\ p.cl \in Seq(Int)
          /\ p.sent \in Nat
          /\ p.end \in {"close", "reset", "stall"}

Malformed == -1

VARIABLES
    pc,        \* "build", "resolve", "connect", "send", "head", "body", "done" or "thrown"
    armed,     \* inside a blocking socket call
    expired,   \* the deadline has passed
    resolver,  \* the helper thread in getaddrinfo: "none", "running", "ok" or "error"
    addr,      \* addresses not tried yet
    off,       \* request octets accepted by the socket
    got,       \* response octets received
    peer,      \* the peer (external)
    r,         \* the RawResponse
    option     \* a socket option could not be set (history variable)

vars == <<pc, armed, expired, resolver, addr, off, got, peer, r, option>>

NoResponse ==
    [request_sent |-> FALSE, request_partial |-> FALSE, head_complete |-> FALSE, head_malformed |-> FALSE,
     framing |-> "none", body_octets |-> 0, body_truncated |-> FALSE, message_complete |-> FALSE,
     transport_error |-> FALSE]

Init ==
    /\ pc = "build"
    /\ armed = FALSE
    /\ expired = FALSE
    /\ resolver = "none"
    /\ addr = Addrs
    /\ off = 0
    /\ got = 0
    /\ peer \in Peers
    /\ r = NoResponse
    /\ option = FALSE

\* build_request accepts the request, or throws invalid_argument before any I/O.
Build ==
    /\ pc = "build"
    /\ pc' \in {"resolve", "thrown"}
    /\ UNCHANGED <<armed, expired, resolver, addr, off, got, peer, r, option>>

-----------------------------------------------------------------------------
(* Resolution. *)

\* A numeric host needs no resolver; a name is given to a helper thread, whose
\* start may throw.
Resolve ==
    /\ pc = "resolve"
    /\ resolver = "none"
    /\ \/ pc' = "connect" /\ UNCHANGED resolver
       \/ resolver' = "running" /\ UNCHANGED pc
       \/ pc' = "thrown" /\ UNCHANGED resolver
    /\ UNCHANGED <<armed, expired, addr, off, got, peer, r, option>>

\* getaddrinfo returns, maybe long after the call that wanted it.
ResolverReturns ==
    /\ resolver = "running"
    /\ resolver' \in {"ok", "error"}
    /\ UNCHANGED <<pc, armed, expired, addr, off, got, peer, r, option>>

\* Mutant: the future is waited for without the deadline.
ResolvedUnbounded ==
    /\ pc = "resolve"
    /\ resolver \in {"ok", "error"}
    /\ pc' = IF resolver = "ok" THEN "connect" ELSE "done"
    /\ r' = [r EXCEPT !.transport_error = (resolver # "ok")]
    /\ UNCHANGED <<armed, expired, resolver, addr, off, got, peer, option>>

\* wait_until(deadline) on the helper's future.
Resolved ==
    /\ pc = "resolve"
    /\ resolver # "none"
    /\ resolver = "running" => expired
    /\ pc' = IF resolver = "ok" THEN "connect" ELSE "done"
    /\ r' = [r EXCEPT !.transport_error = (resolver # "ok")]
    /\ UNCHANGED <<armed, expired, resolver, addr, off, got, peer, option>>

-----------------------------------------------------------------------------
(* Sockets. *)

\* Mutant: every failed request counts as never emitted.
GiveUpNotEmitted ==
    /\ pc' = "done"
    /\ armed' = FALSE
    /\ r' = [r EXCEPT !.transport_error = TRUE]

\* A call of this stage failed: what the receipt says then.
GiveUp ==
    /\ pc' = "done"
    /\ armed' = FALSE
    /\ r' = [r EXCEPT !.transport_error = TRUE,
                      !.request_partial = (pc = "send" /\ off > 0)]

\* socket() or connect() fails, also when interrupted: the next address.
ConnectFails ==
    /\ pc = "connect"
    /\ addr > 0
    /\ addr' = addr - 1
    /\ armed' = FALSE
    /\ UNCHANGED <<pc, expired, resolver, off, got, peer, r, option>>

NoAddress ==
    /\ pc = "connect"
    /\ addr = 0
    /\ GiveUp
    /\ UNCHANGED <<expired, resolver, addr, off, got, peer, option>>

Connected ==
    /\ pc = "connect"
    /\ armed
    /\ pc' = "send"
    /\ armed' = FALSE
    /\ UNCHANGED <<expired, resolver, addr, off, got, peer, r, option>>

\* send() takes n octets.
Send(n) ==
    /\ pc = "send"
    /\ armed
    /\ armed' = FALSE
    /\ off' = off + n
    /\ IF off + n = Req
       THEN pc' = "head" /\ r' = [r EXCEPT !.request_sent = TRUE]
       ELSE UNCHANGED <<pc, r>>
    /\ UNCHANGED <<expired, resolver, addr, got, peer, option>>

\* EINTR from send() or recv(): the loop arms the socket again.
Interrupted ==
    /\ pc \in {"send", "head", "body"}
    /\ armed
    /\ armed' = FALSE
    /\ UNCHANGED <<pc, expired, resolver, addr, off, got, peer, r, option>>

-----------------------------------------------------------------------------
(* The response. *)

classify_framing ==
    CASE peer.te # "none" -> IF peer.te = "chunked" /\ peer.cl = <<>> THEN "chunked" ELSE "invalid"
      [] peer.te = "none" /\ peer.cl = <<>> -> "close"
      [] OTHER -> IF \A i \in DOMAIN peer.cl : peer.cl[i] # Malformed /\ peer.cl[i] = peer.cl[1]
                  THEN "length" ELSE "invalid"

MessageComplete(framing, body, eof, error, truncated) ==
    CASE framing = "length" -> ~error /\ ~truncated /\ body = peer.cl[1]
      [] framing = "close" -> eof /\ ~error /\ ~truncated
      [] OTHER -> FALSE

\* The end of raw_http_get once reading of the body has stopped with n octets in all.
Conclude(framing, n, eof, error) ==
    LET body == IF n - peer.head > MaxBody THEN MaxBody ELSE n - peer.head
        truncated == n - peer.head > MaxBody
    IN  /\ pc' = "done"
        /\ r' = [r EXCEPT !.head_complete = TRUE, !.framing = framing, !.body_octets = body,
                          !.body_truncated = truncated, !.transport_error = error,
                          !.message_complete = MessageComplete(framing, body, eof, error, truncated)]

\* The loop over the body goes on until its end is known or the cap is passed.
Proceed(framing, n) ==
    IF n - peer.head > MaxBody \/ (framing = "length" /\ n - peer.head >= peer.cl[1])
    THEN Conclude(framing, n, FALSE, FALSE)
    ELSE /\ pc' = "body"
         /\ r' = [r EXCEPT !.head_complete = TRUE, !.framing = framing]

\* A call of this stage fails.
CallFails == IF pc = "body" THEN armed' = FALSE /\ Conclude(r.framing, got, FALSE, TRUE) ELSE GiveUp

\* arm_remaining_timeout fails when the budget is used up, or because a socket
\* option cannot be set.
Arm ==
    /\ pc \in {"connect", "send", "head", "body"}
    /\ pc = "connect" => addr > 0
    /\ ~armed
    /\ \/ ~expired /\ armed' = TRUE /\ UNCHANGED <<pc, r, option>>
       \/ expired /\ CallFails /\ UNCHANGED option
       \/ ~expired /\ CallFails /\ option' = TRUE
    /\ UNCHANGED <<expired, resolver, addr, off, got, peer>>

\* Mutant: a head of exactly max_head octets is refused.
HeadFitsStrictly == peer.head < MaxHead

HeadFits == peer.head <= MaxHead

\* Whether the status line and all fields have the strict form.
parse_head == ~peer.malformed

\* recv() brings n octets: the head is still incomplete, too long, malformed, or
\* complete with the first octets of the body behind it.
RecvHead(n) ==
    /\ pc = "head"
    /\ armed
    /\ armed' = FALSE
    /\ got' = got + n
    /\ \/ /\ got + n < peer.head /\ got + n < MaxHead
          /\ UNCHANGED <<pc, r>>
       \/ /\ got + n >= peer.head \/ got + n >= MaxHead
          /\ got + n < peer.head \/ ~HeadFits
          /\ pc' = "done"
          /\ r' = [r EXCEPT !.transport_error = TRUE]
       \/ /\ got + n >= peer.head /\ HeadFits
          /\ ~parse_head
          /\ pc' = "done"
          /\ r' = [r EXCEPT !.head_complete = TRUE, !.head_malformed = TRUE]
       \/ /\ got + n >= peer.head /\ HeadFits
          /\ parse_head
          /\ Proceed(classify_framing, got + n)
    /\ UNCHANGED <<expired, resolver, addr, off, peer, option>>

RecvBody(n) ==
    /\ pc = "body"
    /\ armed
    /\ armed' = FALSE
    /\ got' = got + n
    /\ Proceed(r.framing, got + n)
    /\ UNCHANGED <<expired, resolver, addr, off, peer, option>>

\* recv() returns 0: the peer has closed and everything it sent was read.
RecvEof ==
    /\ pc \in {"head", "body"}
    /\ armed
    /\ peer.end = "close"
    /\ got = peer.sent
    /\ \/ pc = "head" /\ GiveUp
       \/ pc = "body" /\ armed' = FALSE /\ Conclude(r.framing, got, TRUE, FALSE)
    /\ UNCHANGED <<expired, resolver, addr, off, got, peer, option>>

\* send() fails for whatever reason; recv() because the peer reset the connection
\* or the armed timeout ran out.
IoFails ==
    /\ pc \in {"send", "head", "body"}
    /\ armed
    /\ expired \/ peer.end = "reset" \/ pc = "send"
    /\ CallFails
    /\ UNCHANGED <<expired, resolver, addr, off, got, peer, option>>

Deadline ==
    /\ ~expired
    /\ pc \notin {"build", "done", "thrown"}
    /\ expired' = TRUE
    /\ UNCHANGED <<pc, armed, resolver, addr, off, got, peer, r, option>>

Caller ==
    \/ Build \/ Resolve \/ Resolved \/ Arm \/ ConnectFails \/ NoAddress \/ Connected \/ Interrupted
    \/ \E n \in 1..(Req - off) : Send(n)
    \/ \E n \in 1..(peer.sent - got) : RecvHead(n) \/ RecvBody(n)
    \/ RecvEof \/ IoFails

Next == Caller \/ ResolverReturns \/ Deadline

Spec == Init /\ [][Next]_vars

\* The caller is scheduled, a call with a socket timeout returns, and time
\* passes.  getaddrinfo and the peer owe nothing.
FairSpec == Spec /\ WF_vars(Caller) /\ WF_vars(Deadline)

-----------------------------------------------------------------------------
(* The verdict on the receipt; f: status line and RDMA fields of the head. *)

Fields ==
    LET numbers == {200, 206, 500, Malformed}
        some(S) == {<<>>} \cup {<<a>> : a \in S} \cup {<<a, a>> : a \in S}
    IN  [status : {200, 206, 500}, reply : some(numbers), count : some({0, Expected, Expected + 1, Malformed})]

\* Mutant: the message need not be complete.
ViewHeadOnly == r.head_complete /\ ~r.head_malformed

\* ReceiptView::complete.
ViewComplete ==
    r.head_complete /\ ~r.head_malformed /\ r.message_complete /\ ~r.transport_error /\ ~r.body_truncated

\* base64: the legacy convention; requested: size of the callback.
completion_authority(f, base64, requested) ==
    /\ ViewComplete
    /\ f.status \in {200, 206}
    /\ Len(f.reply) = 1 /\ Len(f.count) = 1
    /\ f.count[1] = Expected /\ f.count[1] <= requested
    /\ IF base64 THEN f.reply[1] = 200 /\ Expected = requested
                 ELSE f.reply[1] = f.status /\ r.body_octets = 0

-----------------------------------------------------------------------------
(* Properties. *)

\* The emission class is exact when the call returns: all octets of the request
\* were accepted, some, or none.  rig_callback takes a submission back only for
\* "none", so a request that may have reached the server is never forgotten.
EmissionExact ==
    pc = "done" =>
        /\ r.request_sent <=> off = Req
        /\ r.request_partial <=> off \in 1..(Req - 1)

\* Whatever the head says, authority is given only to an answer to the whole
\* request, of which the whole head and exactly the declared body, or all that
\* a closing peer sent, arrived within the caps; on the standard contract there
\* was no body.
QualifiedIsWhole ==
    pc \in {"done", "thrown"} =>
        \A f \in Fields, base64 \in BOOLEAN : completion_authority(f, base64, Expected) =>
            /\ off = Req
            /\ peer.head <= MaxHead /\ got - peer.head \in 0..MaxBody
            /\ IF peer.cl = <<>> THEN peer.end = "close" /\ got = peer.sent
                                ELSE \A i \in DOMAIN peer.cl : peer.cl[i] = got - peer.head
            /\ peer.te = "none"
            /\ base64 \/ got = peer.head

\* The peer sends the answer of the gateway, well framed and within the caps.
AnswersWell ==
    /\ ~peer.malformed /\ peer.te = "none"
    /\ peer.head <= MaxHead /\ peer.sent - peer.head \in 0..MaxBody
    /\ \/ Len(peer.cl) > 0 /\ peer.end # "reset" /\ \A i \in DOMAIN peer.cl : peer.cl[i] = peer.sent - peer.head
       \/ peer.cl = <<>> /\ peer.end = "close"

\* A good transfer is recognised: with the legacy convention, the gateway's
\* 200 or 206 with reply 200 and the right count qualifies, in whatever pieces it
\* arrives, unless the deadline passed or a socket option failed.
GatewayQualifies ==
    pc = "done" /\ r.request_sent /\ ~expired /\ ~option /\ AnswersWell =>
        \A status \in {200, 206} :
            completion_authority([status |-> status, reply |-> <<200>>, count |-> <<Expected>>], TRUE, Expected)

\* raw_http_get returns, even if the resolver hangs, the peer never says
\* anything, or signals keep interrupting.
ExchangeEnds == <>(pc \in {"done", "thrown"})
=============================================================================
