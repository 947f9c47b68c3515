--------------------------- MODULE RawHttpProofs ----------------------------
(***************************************************************************)
(* What a receipt of raw_http_get may be trusted for, whatever the peer    *)
(* sends, in whatever pieces it arrives and whenever the deadline passes.  *)
(*                                                                         *)
(* The receipt is written in several stages: the request loop settles the  *)
(* emission class, the head is parsed once, and the body loop ends at one  *)
(* of several places.  The invariant says for each stage what the receipt  *)
(* holds so far and how it relates to the octets counted, and for the end  *)
(* what a complete view means and when the view must be complete.          *)
(***************************************************************************)
EXTENDS RawHttp, TLAPS

Framings == {"none", "length", "close", "chunked", "invalid"}

Receipt ==
    [request_sent : BOOLEAN, request_partial : BOOLEAN, head_complete : BOOLEAN, head_malformed : BOOLEAN,
     framing : Framings, body_octets : Int, body_truncated : BOOLEAN, message_complete : BOOLEAN,
     transport_error : BOOLEAN]

Types ==
    /\ peer \in Peers
    /\ off \in 0..Req /\ got \in 0..peer.sent
    /\ r \in Receipt
    /\ expired \in BOOLEAN /\ option \in BOOLEAN

\* The receipt while the request is not out.
Unsent == ~r.request_sent /\ ~r.request_partial /\ ~r.head_complete

\* The receipt once it is, while the exchange goes on.
Sent == off = Req /\ r.request_sent /\ ~r.request_partial /\ ~r.head_malformed

\* The head was accepted.
HeadIn == peer.head <= MaxHead /\ ~peer.malformed /\ got >= peer.head

Stages ==
    /\ pc \in {"build", "resolve", "connect", "send", "head", "body", "done", "thrown"}
    /\ pc \in {"build", "resolve", "connect", "thrown"} => off = 0
    /\ pc \in {"build", "resolve", "connect", "send", "thrown"} => Unsent /\ ~r.head_malformed /\ got = 0
    /\ pc = "send" => off < Req
    /\ pc \in {"head", "body"} => Sent
    /\ pc = "head" => ~r.head_complete /\ got < peer.head
    /\ pc = "body" =>
          /\ HeadIn /\ r.framing = classify_framing
          /\ got - peer.head <= MaxBody
          /\ r.framing = "length" => got - peer.head < peer.cl[1]

\* What a complete view says at the end.
ViewMeans ==
    pc = "done" /\ ViewComplete =>
        /\ off = Req /\ HeadIn
        /\ r.body_octets = got - peer.head /\ got - peer.head <= MaxBody
        /\ \/ classify_framing = "length" /\ peer.cl[1] = got - peer.head
           \/ classify_framing = "close" /\ peer.end = "close" /\ got = peer.sent

\* Nothing but the deadline and a socket option keeps a good answer from a complete view.
ViewOfGood == pc = "done" /\ r.request_sent /\ ~expired /\ ~option /\ AnswersWell => ViewComplete

HInv == Types /\ Stages /\ EmissionExact /\ ViewMeans /\ ViewOfGood

-----------------------------------------------------------------------------
(* Operators. *)

\* What the peer may be.
LEMMA PeerFacts ==
    ASSUME peer \in Peers
    PROVE  /\ peer.head \in Nat /\ peer.head > 0 /\ peer.sent \in Nat /\ peer.malformed \in BOOLEAN
           /\ peer.te \in {"none", "chunked", "other"} /\ peer.cl \in Seq(Int)
           /\ peer.end \in {"close", "reset", "stall"}
           /\ Req \in Nat /\ Req > 0 /\ MaxHead \in Nat /\ MaxBody \in Nat /\ Expected \in Nat
BY HttpAssumption

\* classify_framing: a length only where all Content-Length fields agree, the close of the
\* connection only without any, and no other reading of a well-framed head.
LEMMA FramingFacts ==
    ASSUME peer \in Peers
    PROVE  /\ classify_framing \in Framings \ {"none"}
           /\ classify_framing = "length" =>
                 /\ peer.te = "none" /\ peer.cl # <<>> /\ peer.cl[1] \in Int
                 /\ \A i \in DOMAIN peer.cl : peer.cl[i] = peer.cl[1]
           /\ classify_framing = "close" => peer.te = "none" /\ peer.cl = <<>>
           /\ peer.te = "none" /\ peer.cl = <<>> => classify_framing = "close"
           /\ \A k \in Nat : peer.te = "none" /\ Len(peer.cl) > 0 /\ (\A i \in DOMAIN peer.cl : peer.cl[i] = k)
                                => classify_framing = "length" /\ peer.cl[1] = k
<1> DEFINE cl == peer.cl
           te == peer.te
<1>1. te \in {"none", "chunked", "other"} /\ cl \in Seq(Int)
  BY PeerFacts, Zenon
<1>2. cl # <<>> => 1 \in DOMAIN cl /\ cl[1] \in Int
  BY <1>1
<1>3. Len(cl) > 0 => cl # <<>>
  BY <1>1
<1> HIDE DEF cl, te
<1>4. classify_framing = CASE te # "none" -> IF te = "chunked" /\ cl = <<>> THEN "chunked" ELSE "invalid"
                           [] te = "none" /\ cl = <<>> -> "close"
                           [] OTHER -> IF \A i \in DOMAIN cl : cl[i] # Malformed /\ cl[i] = cl[1]
                                       THEN "length" ELSE "invalid"
  BY Zenon DEF classify_framing, cl, te
<1>5. CASE te # "none"
  BY <1>1, <1>4, <1>5, Zenon DEF Framings, cl, te
<1>6. CASE te = "none" /\ cl = <<>>
  BY <1>3, <1>4, <1>6, Zenon DEF Framings, cl, te
<1>7. CASE te = "none" /\ cl # <<>>
  <2>1. classify_framing = IF \A i \in DOMAIN cl : cl[i] # Malformed /\ cl[i] = cl[1] THEN "length" ELSE "invalid"
    BY <1>4, <1>7, Zenon
  <2>2. ASSUME NEW k \in Nat, \A i \in DOMAIN cl : cl[i] = k
        PROVE  classify_framing = "length" /\ cl[1] = k
    BY <1>2, <1>7, <2>1, <2>2 DEF Malformed
  <2> QED
    BY <1>2, <1>7, <2>1, <2>2, Zenon DEF Framings, cl, te
<1> QED
  BY <1>5, <1>6, <1>7, Zenon

-----------------------------------------------------------------------------
(* The ends of an exchange. *)

\* The receipt that GiveUp leaves.
LEMMA ReceiptGivenUp ==
    ASSUME NEW x \in Receipt, NEW p \in BOOLEAN, NEW y,
           y = [x EXCEPT !.transport_error = TRUE, !.request_partial = p]
    PROVE  /\ y \in Receipt /\ y.transport_error /\ y.request_partial = p
           /\ y.request_sent = x.request_sent
BY Zenon DEF Receipt

\* GiveUp: a call before the body fails, on time, for no reason of the peer's, only by the
\* deadline or a socket option.
LEMMA GiveUpInv ==
    ASSUME HInv, GiveUp, pc \in {"connect", "send", "head"}, UNCHANGED <<off, got, peer>>,
           expired' \in BOOLEAN, option' \in BOOLEAN,
           pc = "head" => expired' \/ option' \/ ~AnswersWell
    PROVE  HInv'
<1>1. Types /\ Stages
  BY Zenon DEF HInv
<1> DEFINE p == pc = "send" /\ off > 0
<1>2. r' \in Receipt /\ r'.transport_error /\ r'.request_partial = p /\ r'.request_sent = r.request_sent
  <2>1. r \in Receipt /\ p \in BOOLEAN /\ r' = [r EXCEPT !.transport_error = TRUE, !.request_partial = p]
    BY <1>1, Zenon DEF GiveUp, Types
  <2> HIDE DEF p
  <2> QED
    BY <2>1, ReceiptGivenUp, Zenon
<1>3. off \in 0..Req /\ Req \in Nat /\ Req > 0 /\ r.request_sent \in BOOLEAN
  BY <1>1, PeerFacts, Zenon DEF Types, Receipt
<1>4. Types' /\ Stages'
  BY <1>1, <1>2, Zenon DEF Types, Stages, GiveUp
<1>5. EmissionExact'
  <2>0. (r'.request_partial <=> p) /\ (r'.request_sent <=> r.request_sent) /\ off' = off
    BY <1>2, Zenon
  <2>1. CASE pc = "connect"
    <3>1. ~r.request_sent /\ off = 0
      BY <1>1, <2>1, Zenon DEF Stages, Unsent
    <3> QED
      BY <1>3, <2>0, <2>1, <3>1 DEF EmissionExact
  <2>2. CASE pc = "send"
    <3>1. ~r.request_sent /\ off < Req
      BY <1>1, <2>2, Zenon DEF Stages, Unsent
    <3> QED
      BY <1>3, <2>0, <2>2, <3>1 DEF EmissionExact
  <2>3. CASE pc = "head"
    <3>1. r.request_sent /\ off = Req
      BY <1>1, <2>3, Zenon DEF Stages, Sent
    <3> QED
      BY <1>3, <2>0, <2>3, <3>1 DEF EmissionExact
  <2> QED
    BY <2>1, <2>2, <2>3, Zenon
<1>6. ViewMeans'
  BY <1>2, Zenon DEF ViewMeans, ViewComplete
<1>7. ViewOfGood'
  <2>1. AnswersWell' = AnswersWell
    BY Zenon DEF AnswersWell
  <2> QED
    BY <1>1, <1>2, <2>1, Zenon DEF ViewOfGood, Stages, Unsent
<1> QED
  BY <1>4, <1>5, <1>6, <1>7, Zenon DEF HInv

\* The receipt that Conclude leaves.
Concluded(x, f, b, t, e, m) ==
    [x EXCEPT !.head_complete = TRUE, !.framing = f, !.body_octets = b, !.body_truncated = t,
              !.transport_error = e, !.message_complete = m]

\* Conclude, from each of the places that call it: the view is complete exactly when the body
\* ended where its framing says.
LEMMA ConcludeInv ==
    ASSUME Types, Sent, NEW n \in Nat, n >= peer.head, n <= peer.sent, peer.head <= MaxHead, ~peer.malformed,
           NEW eof \in BOOLEAN, NEW error \in BOOLEAN,
           Conclude(classify_framing, n, eof, error), got' = n, UNCHANGED <<off, peer>>,
           expired' \in BOOLEAN, option' \in BOOLEAN,
           eof => peer.end = "close" /\ n = peer.sent /\ ~error,
           error => expired' \/ option' \/ peer.end = "reset",
           ~eof /\ ~error =>
               n - peer.head > MaxBody \/ (classify_framing = "length" /\ n - peer.head >= peer.cl[1]),
           eof /\ classify_framing = "length" => n - peer.head < peer.cl[1]
    PROVE  HInv'
<1> DEFINE f == classify_framing
           b == IF n - peer.head > MaxBody THEN MaxBody ELSE n - peer.head
           t == n - peer.head > MaxBody
           m == MessageComplete(f, b, eof, error, t)
<1>1. peer.head \in Nat /\ peer.head > 0 /\ peer.sent \in Nat /\ MaxBody \in Nat /\ Req \in Nat /\ Req > 0
  BY PeerFacts, Zenon DEF Types
<1>2. f \in Framings /\ b \in Int /\ t \in BOOLEAN /\ (f = "length" => peer.cl[1] \in Int)
  BY <1>1, FramingFacts DEF Types
<1>3. m \in BOOLEAN
  BY Zenon DEF MessageComplete
<1>4. m <=> \/ f = "length" /\ ~error /\ ~t /\ b = peer.cl[1]
            \/ f = "close" /\ eof /\ ~error /\ ~t
  BY <1>2, Zenon DEF MessageComplete
<1>5. pc' = "done" /\ r' = Concluded(r, f, b, t, error, m)
  BY Zenon DEF Conclude, Concluded
<1>6. (~t => b = n - peer.head) /\ (t <=> n - peer.head > MaxBody)
  BY <1>1, Zenon
<1> HIDE DEF b, t, m, f
<1>7. /\ r' \in Receipt /\ r'.head_complete /\ r'.body_octets = b /\ r'.body_truncated = t
      /\ r'.transport_error = error /\ r'.message_complete = m
      /\ r'.head_malformed = r.head_malformed /\ r'.request_sent = r.request_sent
      /\ r'.request_partial = r.request_partial
  <2>1. r \in Receipt
    BY Zenon DEF Types
  <2>2. LET y == Concluded(r, f, b, t, error, m)
        IN  /\ y \in Receipt /\ y.head_complete /\ y.body_octets = b /\ y.body_truncated = t
            /\ y.transport_error = error /\ y.message_complete = m
            /\ y.head_malformed = r.head_malformed /\ y.request_sent = r.request_sent
            /\ y.request_partial = r.request_partial
    <3> DEFINE y == Concluded(r, f, b, t, error, m)
    <3>1. y \in Receipt
      BY <1>2, <1>3, <2>1, Zenon DEF Concluded, Receipt
    <3>2. y.head_complete /\ y.body_octets = b /\ y.body_truncated = t
      BY <1>2, <1>3, <2>1, Zenon DEF Concluded, Receipt
    <3>3. y.transport_error = error /\ y.message_complete = m
      BY <1>2, <1>3, <2>1, Zenon DEF Concluded, Receipt
    <3>4. y.head_malformed = r.head_malformed /\ y.request_sent = r.request_sent
          /\ y.request_partial = r.request_partial
      BY <1>2, <1>3, <2>1, Zenon DEF Concluded, Receipt
    <3> QED
      BY <3>1, <3>2, <3>3, <3>4, Zenon
  <2> QED
    BY <1>5, <2>2, Zenon
<1>8. ViewComplete' <=> m /\ ~error /\ ~t
  BY <1>7, Zenon DEF ViewComplete, Sent
<1>9. classify_framing' = f /\ AnswersWell' = AnswersWell
  BY Zenon DEF classify_framing, AnswersWell, f
<1>10. Types'
  BY <1>1, <1>7 DEF Types
<1>11. Stages'
  BY <1>5, Zenon DEF Stages
<1>12. EmissionExact'
  BY <1>1, <1>7 DEF EmissionExact, Sent
<1>13. ViewMeans'
  <2> SUFFICES ASSUME ViewComplete' PROVE ViewMeans'
    BY Zenon DEF ViewMeans
  <2>1. m /\ ~error /\ ~t
    BY <1>8, Zenon
  <2>2. HeadIn' /\ off' = Req
    BY Zenon DEF HeadIn, Sent
  <2>3. r'.body_octets = n - peer.head /\ n - peer.head <= MaxBody
    BY <1>1, <1>6, <1>7, <2>1
  <2>4. \/ f = "length" /\ peer.cl[1] = n - peer.head
        \/ f = "close" /\ peer.end = "close" /\ n = peer.sent
    BY <1>4, <1>6, <2>1, Zenon
  <2> QED
    BY <1>9, <2>2, <2>3, <2>4, Zenon DEF ViewMeans
<1>14. ViewOfGood'
  <2> SUFFICES ASSUME ~expired', ~option', AnswersWell PROVE m /\ ~error /\ ~t
    BY <1>8, <1>9, Zenon DEF ViewOfGood
  <2>1. ~error /\ ~t /\ b = n - peer.head
    BY <1>1, <1>6 DEF AnswersWell
  <2>2. CASE peer.cl = <<>> /\ peer.end = "close"
    <3>1. f = "close"
      BY <2>2, FramingFacts, Zenon DEF AnswersWell, Types, f
    <3>2. eof
      BY <1>6, <2>1, <3>1, Zenon DEF f
    <3> QED
      BY <1>4, <2>1, <3>1, <3>2, Zenon
  <2>3. CASE Len(peer.cl) > 0 /\ \A i \in DOMAIN peer.cl : peer.cl[i] = peer.sent - peer.head
    <3>1. peer.sent - peer.head \in Nat
      BY <1>1 DEF AnswersWell
    <3>2. f = "length" /\ peer.cl[1] = peer.sent - peer.head
      BY <2>3, <3>1, FramingFacts, Zenon DEF AnswersWell, Types, f
    <3>3. n = peer.sent
      BY <1>1, <1>6, <2>1, <3>2 DEF f
    <3> QED
      BY <1>4, <2>1, <3>2, <3>3, Zenon
  <2> QED
    BY <2>2, <2>3, Zenon DEF AnswersWell
<1> QED
  BY <1>10, <1>11, <1>12, <1>13, <1>14, Zenon DEF HInv

\* Proceed keeps what the body loop relies on, or concludes at the end of the body or past
\* the cap.
LEMMA ProceedInv ==
    ASSUME Types, Sent, NEW n \in Nat, n >= peer.head, n <= peer.sent, peer.head <= MaxHead, ~peer.malformed,
           Proceed(classify_framing, n), got' = n, UNCHANGED <<off, peer, expired, option>>
    PROVE  HInv'
<1>1. peer.head \in Nat /\ peer.sent \in Nat /\ MaxBody \in Nat
  BY PeerFacts, Zenon DEF Types
<1>2. classify_framing \in Framings /\ (classify_framing = "length" => peer.cl[1] \in Int)
  BY FramingFacts, Zenon DEF Types
<1>3. expired' \in BOOLEAN /\ option' \in BOOLEAN
  BY Zenon DEF Types
<1>4. CASE n - peer.head > MaxBody \/ (classify_framing = "length" /\ n - peer.head >= peer.cl[1])
  <2>1. Conclude(classify_framing, n, FALSE, FALSE)
    BY <1>4, Zenon DEF Proceed
  <2> QED
    BY <1>3, <1>4, <2>1, ConcludeInv, Zenon
<1>5. CASE ~(n - peer.head > MaxBody \/ (classify_framing = "length" /\ n - peer.head >= peer.cl[1]))
  <2>1. pc' = "body" /\ r' = [r EXCEPT !.head_complete = TRUE, !.framing = classify_framing]
    BY <1>5, Zenon DEF Proceed
  <2>2. /\ r' \in Receipt /\ r'.framing = classify_framing
        /\ r'.head_malformed = r.head_malformed /\ r'.request_sent = r.request_sent
        /\ r'.request_partial = r.request_partial
    BY <1>2, <2>1, Zenon DEF Types, Receipt
  <2>3. Types'
    BY <1>1, <2>2 DEF Types
  <2>4. classify_framing' = classify_framing
    BY Zenon DEF classify_framing
  <2>5. Stages'
    BY <1>1, <1>2, <1>5, <2>1, <2>2, <2>4 DEF Stages, Sent, HeadIn
  <2> QED
    BY <2>1, <2>3, <2>5, Zenon DEF HInv, EmissionExact, ViewMeans, ViewOfGood
<1> QED
  BY <1>4, <1>5, Zenon

-----------------------------------------------------------------------------
(* The invariant. *)

\* An exchange starts with nothing sent and an empty receipt.
LEMMA InitInv == Init => HInv
<1> SUFFICES ASSUME Init PROVE HInv
  BY Zenon
<1>1. Req \in Nat /\ Req > 0 /\ peer.sent \in Nat /\ peer.head \in Nat
  BY PeerFacts, Zenon DEF Init
<1>2. r \in Receipt /\ Unsent /\ ~r.head_malformed
  <2>1. NoResponse \in Receipt
    BY DEF NoResponse, Receipt, Framings
  <2> QED
    BY <2>1, Zenon DEF Init, NoResponse, Unsent
<1>3. Types
  <2>1. off \in 0..Req /\ got \in 0..peer.sent
    BY <1>1 DEF Init
  <2> QED
    BY <1>2, <2>1, Zenon DEF Types, Init
<1> QED
  BY <1>2, <1>3, Zenon DEF HInv, Stages, Init, EmissionExact, ViewMeans, ViewOfGood

\* What the invariant says depends on these variables only.
LEMMA SameInv ==
    ASSUME HInv, UNCHANGED <<pc, off, got, peer, r, option>>, expired' \in BOOLEAN, ~expired' => ~expired
    PROVE  HInv'
<1>1. Types' /\ Stages'
  BY Zenon DEF HInv, Types, Stages, Unsent, Sent, HeadIn, classify_framing
<1>2. EmissionExact' /\ ViewMeans'
  BY Zenon DEF HInv, EmissionExact, ViewMeans, ViewComplete, HeadIn, classify_framing
<1>3. ViewOfGood'
  <2>1. AnswersWell' = AnswersWell /\ ViewComplete' = ViewComplete
    BY Zenon DEF AnswersWell, ViewComplete
  <2> QED
    BY <2>1, Zenon DEF HInv, ViewOfGood
<1> QED
  BY <1>1, <1>2, <1>3, Zenon DEF HInv

\* The stages before the request: nothing was sent, and a failure says so.
LEMMA BeforeInv ==
    ASSUME HInv, Build \/ Resolve \/ Resolved \/ Connected
    PROVE  HInv'
<1>1. Types /\ Stages /\ UNCHANGED <<off, got, peer, expired, option>>
  BY Zenon DEF HInv, Build, Resolve, Resolved, Connected
<1>2. pc \in {"build", "resolve", "connect"} /\ off = 0 /\ Unsent /\ ~r.head_malformed /\ r \in Receipt
  BY <1>1, Zenon DEF Build, Resolve, Resolved, Connected, Stages, Types
<1>3. Req \in Nat /\ Req > 0
  BY <1>1, PeerFacts, Zenon DEF Types
<1>4. /\ r' \in Receipt /\ ~r'.request_sent /\ ~r'.request_partial /\ ~r'.head_complete /\ ~r'.head_malformed
      /\ pc' \in {"resolve", "connect", "send", "thrown", "done"}
  <2>1. CASE r' = r /\ pc' \in {"resolve", "connect", "send", "thrown"}
    BY <1>2, <2>1, Zenon DEF Unsent
  <2>2. CASE r' = [r EXCEPT !.transport_error = (resolver # "ok")] /\ pc' \in {"connect", "done"}
    BY <1>2, <2>2, Zenon DEF Unsent, Receipt
  <2> QED
    BY <1>2, <2>1, <2>2, Zenon DEF Build, Resolve, Resolved, Connected
<1>5. Types'
  BY <1>1, <1>4, Zenon DEF Types
<1>6. Stages'
  BY <1>1, <1>2, <1>3, <1>4, Zenon DEF Stages, Unsent
<1>7. EmissionExact' /\ ViewMeans' /\ ViewOfGood'
  BY <1>1, <1>2, <1>3, <1>4 DEF EmissionExact, ViewMeans, ViewOfGood, ViewComplete
<1> QED
  BY <1>5, <1>6, <1>7, Zenon DEF HInv

\* The request loop counts what the socket accepted.
LEMMA SendInv == ASSUME HInv, NEW n \in 1..(Req - off), Send(n) PROVE HInv'
<1>1. Types /\ Stages /\ UNCHANGED <<got, peer, expired, option>> /\ pc = "send" /\ off' = off + n
  BY Zenon DEF HInv, Send
<1>2. Unsent /\ ~r.head_malformed /\ off < Req /\ r \in Receipt
  BY <1>1, Zenon DEF Stages, Types
<1>3. Req \in Nat /\ Req > 0 /\ off \in Nat /\ n \in Nat /\ off + n \in 0..Req /\ off + n <= Req
      /\ peer.head \in Nat /\ peer.head > 0
  BY <1>1, PeerFacts DEF Types
<1>4. CASE off + n = Req
  <2>1. pc' = "head" /\ r' = [r EXCEPT !.request_sent = TRUE]
    BY <1>4, Zenon DEF Send
  <2>2. /\ r' \in Receipt /\ r'.request_sent /\ r'.request_partial = r.request_partial
        /\ r'.head_complete = r.head_complete /\ r'.head_malformed = r.head_malformed
    BY <1>2, <2>1, Zenon DEF Receipt
  <2>3. Types'
    BY <1>1, <1>3, <2>2, Zenon DEF Types
  <2>4. got = 0
    BY <1>1, Zenon DEF Stages
  <2>5. Stages'
    BY <1>1, <1>2, <1>3, <1>4, <2>1, <2>2, <2>4, Zenon DEF Stages, Sent, Unsent
  <2> QED
    BY <2>1, <2>3, <2>5, Zenon DEF HInv, EmissionExact, ViewMeans, ViewOfGood
<1>5. CASE off + n # Req
  <2>1. pc' = pc /\ r' = r
    BY <1>5, Zenon DEF Send
  <2>2. Types'
    BY <1>1, <1>3, <2>1, Zenon DEF Types
  <2>3. Stages'
    BY <1>1, <1>2, <1>3, <1>5, <2>1 DEF Stages, Unsent
  <2> QED
    BY <1>1, <2>1, <2>2, <2>3, Zenon DEF HInv, EmissionExact, ViewMeans, ViewOfGood
<1> QED
  BY <1>4, <1>5, Zenon

\* A call of the body loop fails: the exchange is concluded with an error.
LEMMA BodyFails ==
    ASSUME HInv, pc = "body", NEW eof \in BOOLEAN, NEW error \in BOOLEAN,
           Conclude(r.framing, got, eof, error), UNCHANGED <<off, got, peer>>,
           expired' \in BOOLEAN, option' \in BOOLEAN, eof \/ error,
           eof => peer.end = "close" /\ got = peer.sent /\ ~error,
           error => expired' \/ option' \/ peer.end = "reset"
    PROVE  HInv'
<1>1. Types /\ Stages
  BY Zenon DEF HInv
<1>2. Sent /\ HeadIn /\ r.framing = classify_framing /\ (r.framing = "length" => got - peer.head < peer.cl[1])
  BY <1>1, Zenon DEF Stages
<1>3. peer.head \in Nat /\ peer.sent \in Nat /\ got \in Nat /\ got <= peer.sent
  BY <1>1, PeerFacts DEF Types
<1>4. Conclude(classify_framing, got, eof, error)
  BY <1>2, Zenon
<1>5. got >= peer.head /\ peer.head <= MaxHead /\ ~peer.malformed
  BY <1>2, Zenon DEF HeadIn
<1> QED
  BY <1>1, <1>2, <1>3, <1>4, <1>5, ConcludeInv, Zenon

\* A call that fails because of the deadline, a socket option or a reset.
LEMMA CallFailsInv ==
    ASSUME HInv, pc \in {"connect", "send", "head", "body"}, CallFails, UNCHANGED <<off, got, peer>>,
           expired' \in BOOLEAN, option' \in BOOLEAN,
           pc \in {"head", "body"} => expired' \/ option' \/ peer.end = "reset"
    PROVE  HInv'
<1>1. CASE pc = "body"
  <2>1. Conclude(r.framing, got, FALSE, TRUE)
    BY <1>1, Zenon DEF CallFails
  <2> QED
    BY <1>1, <2>1, BodyFails, Zenon
<1>2. CASE pc # "body"
  <2>1. GiveUp
    BY <1>2, Zenon DEF CallFails
  <2>2. pc = "head" => expired' \/ option' \/ ~AnswersWell
    BY Zenon DEF AnswersWell
  <2> QED
    BY <1>2, <2>1, <2>2, GiveUpInv, Zenon
<1> QED
  BY <1>1, <1>2, Zenon

\* Arming a call, or failing to.
LEMMA ArmInv == ASSUME HInv, Arm PROVE HInv'
<1>1. expired \in BOOLEAN /\ option \in BOOLEAN /\ UNCHANGED <<off, got, peer, expired>>
  BY Zenon DEF HInv, Types, Arm
<1>2. pc \in {"connect", "send", "head", "body"}
  BY Zenon DEF Arm
<1>3. CASE UNCHANGED <<pc, r, option>>
  BY <1>1, <1>3, SameInv, Zenon
<1>4. CASE expired /\ CallFails /\ UNCHANGED option
  BY <1>1, <1>2, <1>4, CallFailsInv, Zenon
<1>5. CASE CallFails /\ option' = TRUE
  BY <1>1, <1>2, <1>5, CallFailsInv, Zenon
<1> QED
  BY <1>3, <1>4, <1>5, Zenon DEF Arm

\* A call that fails once it is armed.
LEMMA IoFailsInv == ASSUME HInv, IoFails PROVE HInv'
<1>1. expired \in BOOLEAN /\ option \in BOOLEAN /\ UNCHANGED <<off, got, peer, expired, option>>
  BY Zenon DEF HInv, Types, IoFails
<1>2. pc \in {"send", "head", "body"} /\ CallFails /\ (expired \/ peer.end = "reset" \/ pc = "send")
  BY Zenon DEF IoFails
<1> QED
  BY <1>1, <1>2, CallFailsInv, Zenon

\* The peer closes: too early in the head, the end of the message or too early in the body.
LEMMA EofInv == ASSUME HInv, RecvEof PROVE HInv'
<1>1. expired \in BOOLEAN /\ option \in BOOLEAN /\ UNCHANGED <<off, got, peer, expired, option>> /\ Types /\ Stages
  BY Zenon DEF HInv, Types, RecvEof
<1>2. peer.end = "close" /\ got = peer.sent
  BY Zenon DEF RecvEof
<1>3. CASE pc = "head" /\ GiveUp
  <2>1. got < peer.head /\ peer.head \in Nat /\ peer.sent \in Nat /\ MaxBody \in Nat
    BY <1>1, <1>3, PeerFacts, Zenon DEF Stages, Types
  <2>2. ~AnswersWell
    BY <1>2, <2>1 DEF AnswersWell
  <2> QED
    BY <1>1, <1>3, <2>2, GiveUpInv, Zenon
<1>4. CASE pc = "body" /\ Conclude(r.framing, got, TRUE, FALSE)
  BY <1>1, <1>2, <1>4, BodyFails, Zenon
<1> QED
  BY <1>3, <1>4, Zenon DEF RecvEof

\* recv() in the body.
LEMMA RecvBodyInv == ASSUME HInv, NEW n \in 1..(peer.sent - got), RecvBody(n) PROVE HInv'
<1>1. Types /\ Stages /\ pc = "body" /\ got' = got + n /\ UNCHANGED <<off, peer, expired, option>>
  BY Zenon DEF HInv, RecvBody
<1>2. Sent /\ HeadIn /\ r.framing = classify_framing
  BY <1>1, Zenon DEF Stages
<1>3. peer.head \in Nat /\ peer.sent \in Nat /\ got \in Nat /\ got <= peer.sent
  BY <1>1, PeerFacts DEF Types
<1>4. got + n \in Nat /\ got + n >= peer.head /\ got + n <= peer.sent
  BY <1>2, <1>3 DEF HeadIn
<1>5. Proceed(classify_framing, got + n)
  BY <1>2, Zenon DEF RecvBody
<1> QED
  BY <1>1, <1>2, <1>4, <1>5, ProceedInv, Zenon DEF HeadIn

\* recv() in the head: one of four outcomes.
LEMMA RecvHeadInv == ASSUME HInv, NEW n \in 1..(peer.sent - got), RecvHead(n) PROVE HInv'
<1>1. /\ Types /\ Stages /\ pc = "head" /\ got' = got + n /\ UNCHANGED <<off, peer, expired, option>>
      /\ r \in Receipt
  BY Zenon DEF HInv, RecvHead, Types
<1>2. Sent /\ ~r.head_complete /\ got < peer.head
  BY <1>1, Zenon DEF Stages
<1>3. /\ peer.head \in Nat /\ peer.sent \in Nat /\ got \in Nat /\ got <= peer.sent /\ n \in Nat
      /\ MaxHead \in Nat /\ MaxBody \in Nat
  BY <1>1, PeerFacts DEF Types
<1>4. got + n \in Nat /\ got + n <= peer.sent
  BY <1>3
<1>5. CASE got + n < peer.head /\ UNCHANGED <<pc, r>>
  <2>1. Types'
    BY <1>1, <1>4, <1>5 DEF Types
  <2>2. Stages'
    BY <1>1, <1>2, <1>5, Zenon DEF Stages, Sent
  <2> QED
    BY <1>1, <1>5, <2>1, <2>2, Zenon DEF HInv, EmissionExact, ViewMeans, ViewOfGood
<1>6. CASE /\ got + n >= peer.head \/ got + n >= MaxHead
           /\ got + n < peer.head \/ ~HeadFits
           /\ pc' = "done" /\ r' = [r EXCEPT !.transport_error = TRUE]
  <2>1. /\ r' \in Receipt /\ r'.transport_error /\ r'.request_partial = r.request_partial
        /\ r'.request_sent = r.request_sent
    BY <1>1, <1>6, Zenon DEF Receipt
  <2>2. peer.head > MaxHead
    BY <1>3, <1>6 DEF HeadFits
  <2>3. ~AnswersWell'
    BY <1>1, <1>3, <2>2 DEF AnswersWell
  <2>4. Types' /\ Stages'
    BY <1>1, <1>4, <1>6, <2>1 DEF Types, Stages
  <2>5. EmissionExact'
    BY <1>1, <1>2, <2>1, PeerFacts DEF EmissionExact, Sent, Types
  <2> QED
    BY <2>1, <2>3, <2>4, <2>5, Zenon DEF HInv, ViewMeans, ViewOfGood, ViewComplete
<1>7. CASE ~parse_head /\ pc' = "done" /\ r' = [r EXCEPT !.head_complete = TRUE, !.head_malformed = TRUE]
  <2>1. /\ r' \in Receipt /\ r'.head_malformed /\ r'.request_partial = r.request_partial
        /\ r'.request_sent = r.request_sent
    BY <1>1, <1>7, Zenon DEF Receipt
  <2>2. ~AnswersWell'
    BY <1>1, <1>7, Zenon DEF AnswersWell, parse_head
  <2>3. Types' /\ Stages'
    BY <1>1, <1>4, <1>7, <2>1 DEF Types, Stages
  <2>4. EmissionExact'
    BY <1>1, <1>2, <2>1, PeerFacts DEF EmissionExact, Sent, Types
  <2> QED
    BY <2>1, <2>2, <2>3, <2>4, Zenon DEF HInv, ViewMeans, ViewOfGood, ViewComplete
<1>8. CASE got + n >= peer.head /\ HeadFits /\ parse_head /\ Proceed(classify_framing, got + n)
  BY <1>1, <1>2, <1>4, <1>8, ProceedInv, Zenon DEF HeadFits, parse_head
<1> QED
  BY <1>5, <1>6, <1>7, <1>8, Zenon DEF RecvHead

\* Every step of an exchange keeps the invariant.
LEMMA StepInv == ASSUME HInv, [Next]_vars PROVE HInv'
<1>1. expired \in BOOLEAN
  BY Zenon DEF HInv, Types
<1>2. CASE ConnectFails \/ Interrupted \/ ResolverReturns \/ Deadline \/ UNCHANGED vars
  <2>1. UNCHANGED <<pc, off, got, peer, r, option>>
    BY <1>2, Zenon DEF ConnectFails, Interrupted, ResolverReturns, Deadline, vars
  <2>2. expired' = expired \/ expired' = TRUE
    BY <1>2, Zenon DEF ConnectFails, Interrupted, ResolverReturns, Deadline, vars
  <2> QED
    BY <1>1, <2>1, <2>2, SameInv, Zenon
<1>3. CASE NoAddress
  BY <1>1, <1>3, GiveUpInv, Zenon DEF NoAddress, HInv, Types
<1> QED
  BY <1>2, <1>3, BeforeInv, SendInv, ArmInv, IoFailsInv, EofInv, RecvBodyInv, RecvHeadInv, Zenon DEF Next, Caller

\* The invariant holds in every state of an exchange.
LEMMA Invariance == Spec => []HInv
BY InitInv, StepInv, PTL DEF Spec

-----------------------------------------------------------------------------
(* Theorems. *)

\* The emission class of a returned receipt is exact: "sent" if and only if the socket took
\* every octet of the request, "partial" if and only if it took some.
THEOREM EmissionIsExact == Spec => []EmissionExact
<1>1. HInv => EmissionExact
  BY Zenon DEF HInv
<1> QED
  BY <1>1, Invariance, PTL

\* completion_authority qualifies nothing but a whole answer to a whole request.
THEOREM OnlyWhole == Spec => []QualifiedIsWhole
<1>1. HInv => QualifiedIsWhole
  <2> SUFFICES ASSUME HInv, pc \in {"done", "thrown"}, NEW f \in Fields, NEW base64 \in BOOLEAN,
                      completion_authority(f, base64, Expected)
               PROVE  /\ off = Req
                      /\ peer.head <= MaxHead /\ got - peer.head \in 0..MaxBody
                      /\ IF peer.cl = <<>> THEN peer.end = "close" /\ got = peer.sent
                                          ELSE \A i \in DOMAIN peer.cl : peer.cl[i] = got - peer.head
                      /\ peer.te = "none"
                      /\ base64 \/ got = peer.head
    BY Zenon DEF QualifiedIsWhole
  <2>1. Types /\ Stages /\ ViewMeans /\ ViewComplete /\ (base64 \/ r.body_octets = 0)
    BY Zenon DEF HInv, completion_authority
  <2>2. pc = "done"
    BY <2>1, Zenon DEF Stages, Unsent, ViewComplete
  <2>3. peer.head \in Nat /\ got \in Nat /\ MaxBody \in Nat
    BY <2>1, PeerFacts DEF Types
  <2>4. /\ off = Req /\ HeadIn
        /\ r.body_octets = got - peer.head /\ got - peer.head <= MaxBody
    BY <2>1, <2>2, Zenon DEF ViewMeans
  <2>5. \/ classify_framing = "length" /\ peer.cl[1] = got - peer.head
        \/ classify_framing = "close" /\ peer.end = "close" /\ got = peer.sent
    BY <2>1, <2>2, Zenon DEF ViewMeans
  <2>6. peer.te = "none" /\ IF peer.cl = <<>> THEN peer.end = "close" /\ got = peer.sent
                                             ELSE \A i \in DOMAIN peer.cl : peer.cl[i] = got - peer.head
    BY <2>1, <2>5, FramingFacts, Zenon DEF Types
  <2> QED
    BY <2>1, <2>3, <2>4, <2>6 DEF HeadIn
<1> QED
  BY <1>1, Invariance, PTL

\* A well-framed answer of the gateway qualifies in whatever pieces it arrives, as long as
\* the deadline has not passed and no socket option failed.
THEOREM GatewayAnswersQualify == Spec => []GatewayQualifies
<1>1. HInv => GatewayQualifies
  <2> SUFFICES ASSUME HInv, pc = "done", r.request_sent, ~expired, ~option, AnswersWell, NEW status \in {200, 206}
               PROVE  completion_authority([status |-> status, reply |-> <<200>>, count |-> <<Expected>>],
                                           TRUE, Expected)
    BY Zenon DEF GatewayQualifies
  <2>1. ViewComplete
    BY Zenon DEF HInv, ViewOfGood
  <2> QED
    BY <2>1, HttpAssumption DEF completion_authority
<1> QED
  BY <1>1, Invariance, PTL

-----------------------------------------------------------------------------
(* The deadline.  ExchangeEnds needs fairness; that the deadline is worth  *)
(* something does not: once it has passed, the call is over after a number *)
(* of steps that depends on the number of addresses only, and none of them *)
(* waits for the resolver or for the peer.                                 *)

\* What is left of the call once the deadline has passed: at most an armed call at each
\* stage, the remaining addresses, and the resolution.
Left ==
    LET inCall == IF armed THEN 1 ELSE 0
    IN  CASE pc = "build" -> 2 * Addrs + 11
          [] pc = "resolve" -> 2 * Addrs + IF resolver = "none" THEN 10 ELSE 9
          [] pc = "connect" -> 2 * addr + 7 + inCall
          [] pc = "send" -> 5 + inCall
          [] pc = "head" -> 3 + inCall
          [] pc = "body" -> 1 + inCall
          [] pc \in {"done", "thrown"} -> 0

\* Each step takes some of it, but for the late return of getaddrinfo in its own thread.
Overdue == expired => Left' < Left \/ (ResolverReturns /\ Left' = Left)

\* The guards of the steps that need neither the resolver nor the peer: Resolve, Resolved,
\* ConnectFails, NoAddress, Arm and IoFails.
OverdueReady ==
    expired /\ pc \notin {"done", "thrown"} =>
        \/ pc = "resolve" /\ resolver = "none"
        \/ pc = "resolve" /\ resolver # "none" /\ (resolver = "running" => expired)
        \/ pc = "connect" /\ addr > 0
        \/ pc = "connect" /\ addr = 0
        \/ pc \in {"send", "head", "body"} /\ ~armed
        \/ pc \in {"send", "head", "body"} /\ armed /\ expired

LeftBounded == expired => Left \in 0..(2 * Addrs + 10)

\* The clock starts after build_request, and addresses are used up one by one.
DInv ==
    /\ pc \in {"build", "resolve", "connect", "send", "head", "body", "done", "thrown"}
    /\ pc = "build" => ~expired
    /\ armed \in BOOLEAN
    /\ addr \in 0..Addrs

\* Left at each stage.
LEMMA LeftIs ==
    ASSUME DInv
    PROVE  /\ pc \in {"done", "thrown"} => Left = 0
           /\ pc = "body" => Left = IF armed THEN 2 ELSE 1
           /\ pc = "head" => Left = IF armed THEN 4 ELSE 3
           /\ pc = "send" => Left = IF armed THEN 6 ELSE 5
           /\ pc = "connect" => Left = 2 * addr + IF armed THEN 8 ELSE 7
           /\ pc = "resolve" => Left = 2 * Addrs + IF resolver = "none" THEN 10 ELSE 9
           /\ pc = "build" => Left = 2 * Addrs + 11
<1>1. CASE pc \in {"done", "thrown"}
  BY <1>1, Zenon DEF Left
<1>2. CASE pc = "body"
  BY <1>2 DEF Left
<1>3. CASE pc = "head"
  BY <1>3 DEF Left
<1>4. CASE pc = "send"
  BY <1>4 DEF Left
<1>5. CASE pc = "connect"
  BY <1>5, HttpAssumption DEF Left, DInv
<1>6. CASE pc = "resolve"
  BY <1>6, Zenon DEF Left
<1>7. CASE pc = "build"
  BY <1>7, Zenon DEF Left
<1> QED
  BY <1>1, <1>2, <1>3, <1>4, <1>5, <1>6, <1>7, Zenon DEF DInv

\* The same after a step.
LEMMA LeftIsNext ==
    ASSUME DInv'
    PROVE  /\ pc' \in {"done", "thrown"} => Left' = 0
           /\ pc' = "body" => Left' = IF armed' THEN 2 ELSE 1
           /\ pc' = "head" => Left' = IF armed' THEN 4 ELSE 3
           /\ pc' = "send" => Left' = IF armed' THEN 6 ELSE 5
           /\ pc' = "connect" => Left' = 2 * addr' + IF armed' THEN 8 ELSE 7
           /\ pc' = "resolve" => Left' = 2 * Addrs + IF resolver' = "none" THEN 10 ELSE 9
<1>1. CASE pc' \in {"done", "thrown"}
  BY <1>1, Zenon DEF Left
<1>2. CASE pc' = "body"
  BY <1>2 DEF Left
<1>3. CASE pc' = "head"
  BY <1>3 DEF Left
<1>4. CASE pc' = "send"
  BY <1>4 DEF Left
<1>5. CASE pc' = "connect"
  BY <1>5, HttpAssumption DEF Left, DInv
<1>6. CASE pc' = "resolve"
  BY <1>6, Zenon DEF Left
<1>7. CASE pc' = "build"
  BY <1>7, Zenon
<1> QED
  BY <1>1, <1>2, <1>3, <1>4, <1>5, <1>6, <1>7, Zenon DEF DInv

\* Left is a number, and positive until the call is over.
LEMMA LeftBound ==
    ASSUME DInv
    PROVE  Left \in Nat /\ LeftBounded /\ (pc \notin {"done", "thrown"} => Left > 0)
<1>1. Addrs \in Nat /\ addr \in Nat /\ addr <= Addrs
  BY HttpAssumption DEF DInv
<1>2. CASE pc \in {"done", "thrown"}
  BY <1>1, <1>2, LeftIs DEF LeftBounded
<1>3. CASE pc \in {"body", "head", "send"}
  BY <1>1, <1>3, LeftIs DEF LeftBounded
<1>4. CASE pc = "connect"
  BY <1>1, <1>4, LeftIs DEF LeftBounded
<1>5. CASE pc = "resolve"
  BY <1>1, <1>5, LeftIs DEF LeftBounded
<1>6. CASE pc = "build"
  BY <1>1, <1>6, LeftIs DEF LeftBounded, DInv
<1> QED
  BY <1>2, <1>3, <1>4, <1>5, <1>6, Zenon DEF DInv

\* What one step of raw_http_get does to its stage once the deadline has passed.
Ends == pc \notin {"build", "done", "thrown"} /\ pc' \in {"done", "thrown"}
Loops == pc \in {"send", "head", "body"} /\ armed /\ armed' = FALSE /\ UNCHANGED <<pc, addr>>
Advances ==
    /\ \/ pc = "connect" /\ pc' = "send"
       \/ pc = "send" /\ pc' = "head"
       \/ pc = "head" /\ pc' = "body"
    /\ armed /\ armed' = FALSE
    /\ UNCHANGED addr
Resolves == pc = "resolve" /\ pc' = "connect" /\ UNCHANGED <<armed, addr>>
Spawns == pc = "resolve" /\ resolver = "none" /\ resolver' = "running" /\ UNCHANGED <<pc, armed, addr>>

\* No other step is left: a call that was not armed fails, one that was returns.
LEMMA OverdueSteps ==
    ASSUME DInv, expired, Caller
    PROVE  Ends \/ Loops \/ Advances \/ Resolves \/ Spawns \/ ConnectFails
<1>1. pc # "build"
  BY Zenon DEF DInv
<1>2. CASE Build
  BY <1>1, <1>2, Zenon DEF Build
<1>3. CASE Resolve
  BY <1>3, Zenon DEF Resolve, Ends, Resolves, Spawns
<1>4. CASE Resolved
  BY <1>4, Zenon DEF Resolved, Ends, Resolves
<1>5. CASE Arm
  <2>1. pc \in {"connect", "send", "head", "body"} /\ UNCHANGED addr /\ CallFails
    BY <1>5, Zenon DEF Arm
  <2>2. pc' = "done" /\ armed' = FALSE
    BY <2>1, Zenon DEF CallFails, Conclude, GiveUp
  <2> QED
    BY <2>1, <2>2, Zenon DEF Ends
<1>6. CASE NoAddress
  BY <1>6, Zenon DEF NoAddress, GiveUp, Ends
<1>7. CASE Connected
  BY <1>7, Zenon DEF Connected, Advances
<1>8. CASE Interrupted
  BY <1>8, Zenon DEF Interrupted, Loops
<1>9. ASSUME NEW n \in 1..(Req - off), Send(n) PROVE Loops \/ Advances
  <2>1. pc = "send" /\ armed /\ armed' = FALSE /\ UNCHANGED addr /\ (pc' = "head" \/ pc' = pc)
    BY <1>9, Zenon DEF Send
  <2> QED
    BY <2>1, Zenon DEF Loops, Advances
<1>10. ASSUME NEW f, NEW n, Proceed(f, n) PROVE pc' \in {"body", "done"}
  <2>1. pc' = "body" \/ pc' = "done"
    BY <1>10, Zenon DEF Proceed, Conclude
  <2> QED
    BY <2>1, Zenon
<1>11. ASSUME NEW n \in 1..(peer.sent - got), RecvHead(n) PROVE Ends \/ Loops \/ Advances
  <2>1. pc = "head" /\ armed /\ armed' = FALSE /\ UNCHANGED addr
    BY <1>11, Zenon DEF RecvHead
  <2>2. pc' = pc \/ pc' = "done" \/ Proceed(classify_framing, got + n)
    BY <1>11, Zenon DEF RecvHead
  <2>3. pc' = pc \/ pc' \in {"body", "done"}
    BY <1>10, <2>2, Zenon
  <2> QED
    BY <2>1, <2>3, Zenon DEF Ends, Loops, Advances
<1>12. ASSUME NEW n \in 1..(peer.sent - got), RecvBody(n) PROVE Ends \/ Loops
  <2>1. pc = "body" /\ armed /\ armed' = FALSE /\ UNCHANGED addr
    BY <1>12, Zenon DEF RecvBody
  <2>2. pc' \in {"body", "done"}
    BY <1>10, <1>12, Zenon DEF RecvBody
  <2> QED
    BY <2>1, <2>2, Zenon DEF Ends, Loops
<1>13. CASE RecvEof
  <2>1. pc \in {"head", "body"} /\ UNCHANGED addr /\ pc' = "done" /\ armed' = FALSE
    BY <1>13, Zenon DEF RecvEof, GiveUp, Conclude
  <2> QED
    BY <2>1, Zenon DEF Ends
<1>14. CASE IoFails
  <2>1. pc \in {"send", "head", "body"} /\ UNCHANGED addr /\ CallFails
    BY <1>14, Zenon DEF IoFails
  <2>2. pc' = "done" /\ armed' = FALSE
    BY <2>1, Zenon DEF CallFails, Conclude, GiveUp
  <2> QED
    BY <2>1, <2>2, Zenon DEF Ends
<1> QED
  BY <1>2, <1>3, <1>4, <1>5, <1>6, <1>7, <1>8, <1>9, <1>11, <1>12, <1>13, <1>14, Zenon DEF Caller

\* Each of them takes some of Left.
LEMMA LeftFalls ==
    ASSUME DInv, DInv', Ends \/ Loops \/ Advances \/ Resolves \/ Spawns \/ ConnectFails
    PROVE  Left' < Left
<1>1. Addrs \in Nat /\ addr \in Nat /\ addr <= Addrs /\ armed \in BOOLEAN /\ Left \in Nat
  BY HttpAssumption, LeftBound DEF DInv
<1>2. CASE Ends
  <2>1. Left' = 0 /\ Left > 0
    BY <1>2, LeftIsNext, LeftBound, Zenon DEF Ends
  <2> QED
    BY <2>1, Zenon
<1>3. CASE Loops
  <2>1. CASE pc = "send"
    BY <1>3, <2>1, LeftIs, LeftIsNext DEF Loops
  <2>2. CASE pc = "head"
    BY <1>3, <2>2, LeftIs, LeftIsNext DEF Loops
  <2>3. CASE pc = "body"
    BY <1>3, <2>3, LeftIs, LeftIsNext DEF Loops
  <2> QED
    BY <1>3, <2>1, <2>2, <2>3, Zenon DEF Loops
<1>4. CASE Advances
  <2>0. armed /\ ~armed' /\ addr' = addr
    BY <1>4, Zenon DEF Advances
  <2>1. CASE pc = "connect" /\ pc' = "send"
    BY <1>1, <2>0, <2>1, LeftIs, LeftIsNext
  <2>2. CASE pc = "send" /\ pc' = "head"
    BY <2>0, <2>2, LeftIs, LeftIsNext
  <2>3. CASE pc = "head" /\ pc' = "body"
    BY <2>0, <2>3, LeftIs, LeftIsNext
  <2> QED
    BY <1>4, <2>1, <2>2, <2>3, Zenon DEF Advances
<1>5. CASE Resolves
  <2>1. Left = 2 * Addrs + 10 \/ Left = 2 * Addrs + 9
    BY <1>5, LeftIs, Zenon DEF Resolves
  <2>2. Left' = 2 * addr + 8 \/ Left' = 2 * addr + 7
    BY <1>5, LeftIsNext, Zenon DEF Resolves
  <2> QED
    BY <1>1, <2>1, <2>2
<1>6. CASE Spawns
  <2>1. Left = 2 * Addrs + 10 /\ Left' = 2 * Addrs + 9
    BY <1>6, LeftIs, LeftIsNext, Zenon DEF Spawns
  <2> QED
    BY <1>1, <2>1
<1>7. CASE ConnectFails
  <2>1. pc = "connect" /\ pc' = "connect" /\ addr' = addr - 1 /\ armed' = FALSE
    BY <1>7, Zenon DEF ConnectFails
  <2>2. (Left = 2 * addr + 8 \/ Left = 2 * addr + 7) /\ Left' = 2 * (addr - 1) + 7
    BY <1>1, <2>1, LeftIs, LeftIsNext, Zenon
  <2> QED
    BY <1>1, <2>2
<1> QED
  BY <1>2, <1>3, <1>4, <1>5, <1>6, <1>7, Zenon

\* What Left counts is kept by every step.
LEMMA StepDInv == ASSUME HInv, HInv', DInv, [Next]_vars PROVE DInv'
<1>1. Addrs \in Nat /\ pc' \in {"build", "resolve", "connect", "send", "head", "body", "done", "thrown"}
  BY HttpAssumption, Zenon DEF HInv, Stages
<1>2. CASE UNCHANGED <<pc, armed, expired, addr>>
  BY <1>2, Zenon DEF DInv
<1>3. CASE ResolverReturns \/ UNCHANGED vars
  BY <1>2, <1>3, Zenon DEF ResolverReturns, vars
<1>4. CASE Deadline
  BY <1>4, Zenon DEF Deadline, DInv
<1>5. CASE Caller
  <2>1. UNCHANGED expired
    BY <1>5, Zenon DEF Caller, Build, Resolve, Resolved, Arm, ConnectFails, NoAddress, Connected, Interrupted,
         Send, RecvHead, RecvBody, RecvEof, IoFails
  <2>2. armed' \in BOOLEAN
    <3>1. armed' = armed \/ armed' = TRUE \/ armed' = FALSE
      BY <1>5, Zenon DEF Caller, Build, Resolve, Resolved, Arm, ConnectFails, NoAddress, Connected, Interrupted,
           Send, RecvHead, RecvBody, RecvEof, IoFails, GiveUp, CallFails
    <3> QED
      BY <3>1, Zenon DEF DInv
  <2>3. addr' = addr \/ (addr > 0 /\ addr' = addr - 1)
    BY <1>5, Zenon DEF Caller, Build, Resolve, Resolved, Arm, ConnectFails, NoAddress, Connected, Interrupted,
         Send, RecvHead, RecvBody, RecvEof, IoFails
  <2>4. addr' \in 0..Addrs
    BY <1>1, <2>3 DEF DInv
  <2>5. expired => pc' # "build"
    <3> SUFFICES ASSUME expired PROVE pc' # "build"
      BY Zenon
    <3>1. pc # "build" /\ (Ends \/ Loops \/ Advances \/ Resolves \/ Spawns \/ ConnectFails)
      BY <1>5, OverdueSteps, Zenon DEF DInv
    <3>2. CASE Ends
      BY <3>2, Zenon DEF Ends
    <3>3. CASE Advances
      BY <3>3, Zenon DEF Advances
    <3>4. CASE Resolves
      BY <3>4, Zenon DEF Resolves
    <3>5. CASE Loops \/ Spawns \/ ConnectFails
      <4>1. pc' = pc
        BY <3>5, Zenon DEF Loops, Spawns, ConnectFails
      <4> QED
        BY <3>1, <4>1, Zenon
    <3> QED
      BY <3>1, <3>2, <3>3, <3>4, <3>5, Zenon
  <2> QED
    BY <1>1, <2>1, <2>2, <2>4, <2>5, Zenon DEF DInv
<1> QED
  BY <1>3, <1>4, <1>5, Zenon DEF Next

\* Late or not, the call never waits for anybody once the deadline has passed.
LEMMA AlwaysOverdueReady == DInv => OverdueReady
BY HttpAssumption DEF DInv, OverdueReady

\* After the deadline of raw_http_get has passed, every step of the calling thread takes it
\* nearer to its return, a step that waits neither for getaddrinfo nor for the peer is always
\* possible until then, and there are at most 2 * Addrs + 10 of them, whatever the peer
\* sends, however the octets arrive and however often signals interrupt the calls.
THEOREM DeadlineEnds == Spec => [](OverdueReady /\ LeftBounded) /\ [][Overdue]_vars
<1>1. Init => DInv
  <2> SUFFICES ASSUME Init PROVE DInv
    BY Zenon
  <2>1. addr \in 0..Addrs
    BY HttpAssumption DEF Init
  <2>2. pc = "build" /\ expired = FALSE /\ armed = FALSE
    BY Zenon DEF Init
  <2> QED
    BY <2>1, <2>2, Zenon DEF DInv
<1>2. HInv /\ HInv' /\ DInv /\ [Next]_vars => DInv'
  BY StepDInv, Zenon
<1>3. DInv => OverdueReady /\ LeftBounded
  BY AlwaysOverdueReady, LeftBound, Zenon
<1>4. DInv /\ DInv' /\ [Next]_vars => [Overdue]_vars
  <2> SUFFICES ASSUME DInv, DInv', Next, expired PROVE Left' < Left \/ (ResolverReturns /\ Left' = Left)
    BY Zenon DEF Overdue
  <2>1. CASE Caller
    BY <2>1, OverdueSteps, LeftFalls, Zenon
  <2>2. CASE ResolverReturns
    <3>1. Left' = Left
      BY <2>2, Zenon DEF ResolverReturns, Left
    <3> QED
      BY <2>2, <3>1, Zenon
  <2>3. CASE Deadline
    BY <2>3, Zenon DEF Deadline
  <2> QED
    BY <2>1, <2>2, <2>3, Zenon DEF Next
<1> QED
  BY <1>1, <1>2, <1>3, <1>4, Invariance, PTL DEF Spec
=============================================================================
