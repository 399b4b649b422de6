----------------------------- MODULE HttpClient -----------------------------
(***************************************************************************)
(* The HTTP client of src/src/http_client.c: sendDataToCloud sends the     *)
(* head and the body of a request as two IPv4 frames, each until the XBee  *)
(* confirms it, and waits for the response.  The handlers run inside       *)
(* xbee_dev_tick, a few frames a tick, and leave their findings in         *)
(* sendContext and recvContext for the loops to look at between ticks.     *)
(* The XBee and the server beyond it are external: frames are delivered    *)
(* and confirmed in order, the response comes back in pieces.              *)
(***************************************************************************)
EXTENDS HttpParse

CONSTANTS
  MaxReq,       (* bound: requests made                                     *)
  MaxId,        (* frame ids go from 1 to MaxId (255)                       *)
  MaxDispatch,  (* XBEE_DEV_MAX_DISPATCH_PER_TICK                           *)
  BodyLengths,  (* the body lengths of the server's responses               *)
  MaxCuts       (* bound: how often the headers of responses are cut        *)

ASSUME HttpAssumption ==
  /\ MaxReq \in Nat \ {0} /\ MaxId \in Nat \ {0} /\ MaxDispatch \in Nat \ {0}
  /\ BodyLengths \subseteq Nat /\ MaxCuts \in Nat

\* DEV_DATA_LIMIT is 10, there are 255 ids: no request meets the confirmation of
\* one so long ago that its id is in use again.
ASSUME IdAssumption == MaxReq <= MaxId

Requests == 1 .. MaxReq

VARIABLES
  \* the client
  pc,        (* "idle"; "head", "body": in httpClientSend; "recv"           *)
  req,       (* the requests made so far; the last one is being served      *)
  timed,     (* it was given a timeout                                      *)
  expired,   (* the timeout has passed                                      *)
  frameId,   (* xbee->frame_id                                              *)
  send,      (* sendContext                                                 *)
  txStat,    (* txStat                                                      *)
  recv,      (* recvContext                                                 *)
  dispatched,(* frames dispatched in this tick                              *)
  ret,       (* what sendDataToCloud returned for each request              *)
  \* the XBee and the server
  air,       (* frames written and not yet confirmed                        *)
  up,        (* the frames from the XBee: confirmations and response pieces *)
  pending,   (* what the server has of a request: the request whose head it *)
             (*   got last, 0 if none                                       *)
  down,      (* responses on their way to the XBee                          *)
  \* history
  got,       (* the frames that reached the server                          *)
  accepted,  (* the requests the server got whole                           *)
  answers,   (* the responses sent                                          *)
  cuts,      (* the cuts through headers                                    *)
  split      (* one was where the receiver cannot join the pieces           *)

client == <<pc, req, timed, expired, frameId, send, txStat, recv, dispatched, ret>>
module == <<air, up, pending, down, got, accepted, answers, cuts, split>>
vars == <<client, module>>

-----------------------------------------------------------------------------
(* httpClientSend                                                            *)

\* xbee_next_frame_id
NextId(id) == IF id = MaxId THEN 1 ELSE id + 1

\* xbee_ipv4_envelope_send uses up an id; xbee_frame_write accepts the frame or
\* fails.
Write(part, r) ==
  /\ frameId' = NextId(frameId)
  /\ air' = Append(air, [id |-> frameId', part |-> part, req |-> r])

WriteFails ==
  /\ frameId' = NextId(frameId)
  /\ UNCHANGED air

\* sendDataToCloud returns code to its caller.
Return(code) == pc' = "idle" /\ ret' = [ret EXCEPT ![req] = code]

\* Expect the id the frame is going to get, and send it.
Transmit(part, r, p) ==
  \/ /\ send' = [state |-> "WAIT", frameId |-> NextId(frameId)]
     /\ Write(part, r)
     /\ pc' = p /\ UNCHANGED ret
  \/ /\ send' = [state |-> "ERROR", frameId |-> NextId(frameId)]
     /\ WriteFails
     /\ pc' = "idle" /\ ret' = [ret EXCEPT ![r] = "failed"]

\* httpClientConnect up to the first transmission.
Connect ==
  /\ pc = "idle" /\ req < MaxReq
  /\ req' = req + 1
  /\ timed' \in BOOLEAN /\ expired' = FALSE
  /\ recv' = [recv EXCEPT !.contentLength = 0]
  /\ txStat' = "none"
  /\ dispatched' = 0
  /\ Transmit("head", req', "head")
  /\ UNCHANGED <<up, pending, down, got, accepted, answers, cuts, split>>

TimedOut == timed /\ expired

\* After a tick in the loop of httpClientSend.
Sending == pc \in {"head", "body"}

\* Fault: the clock is not looked at while the frame is unconfirmed.
SendTimesOutLate ==
  /\ Sending /\ TimedOut /\ send.state # "WAIT"
  /\ send' = [send EXCEPT !.state = "ERROR"]
  /\ Return("timeout")
  /\ UNCHANGED <<req, timed, expired, frameId, txStat, recv, dispatched, module>>

SendTimesOut ==
  /\ Sending /\ TimedOut
  /\ send' = [send EXCEPT !.state = "ERROR"]
  /\ Return("timeout")
  /\ UNCHANGED <<req, timed, expired, frameId, txStat, recv, dispatched, module>>

SendTicksOn ==
  /\ Sending /\ ~TimedOut /\ send.state = "WAIT" /\ dispatched > 0
  /\ dispatched' = 0
  /\ UNCHANGED <<pc, req, timed, expired, frameId, send, txStat, recv, ret, module>>

\* The head is out: send the body.
HeadDone ==
  /\ pc = "head" /\ ~TimedOut /\ send.state = "DONE"
  /\ txStat' = "none"
  /\ dispatched' = 0
  /\ Transmit("body", req, "body")
  /\ UNCHANGED <<req, timed, expired, recv, up, pending, down, got, accepted,
                 answers, cuts, split>>

\* Fault: recvContext is not brought back to its empty state.
BodyDoneKeepsRecv ==
  /\ pc = "body" /\ ~TimedOut /\ send.state = "DONE"
  /\ dispatched' = 0
  /\ pc' = "recv"
  /\ UNCHANGED <<req, timed, expired, frameId, send, txStat, recv, ret, module>>

\* The body is out: httpClientRecv begins from the empty state.
BodyDone ==
  /\ pc = "body" /\ ~TimedOut /\ send.state = "DONE"
  /\ recv' = Fresh
  /\ dispatched' = 0
  /\ pc' = "recv"
  /\ UNCHANGED <<req, timed, expired, frameId, send, txStat, ret, module>>

\* The XBee is out of resources: give up.
SendGivesUp ==
  /\ Sending /\ ~TimedOut /\ send.state = "RESEND" /\ txStat = "resources"
  /\ send' = [send EXCEPT !.state = "ERROR"]
  /\ Return("busy")
  /\ UNCHANGED <<req, timed, expired, frameId, txStat, recv, dispatched, module>>

\* Any other failure: send the frame again, under the next id.
Resend ==
  /\ Sending /\ ~TimedOut /\ send.state = "RESEND" /\ txStat # "resources"
  /\ dispatched' = 0
  /\ Transmit(pc, req, pc)
  /\ UNCHANGED <<req, timed, expired, txStat, recv, up, pending, down, got, accepted,
                 answers, cuts, split>>

-----------------------------------------------------------------------------
(* httpClientRecv, and what sendDataToCloud makes of it                      *)

RecvDone ==
  /\ pc = "recv" /\ recv.state = "DONE"
  /\ Return(IF recv.status \in 200 .. 299 THEN "ok" ELSE "refused")
  /\ UNCHANGED <<req, timed, expired, frameId, send, txStat, recv, dispatched, module>>

RecvTimesOut ==
  /\ pc = "recv" /\ recv.state \notin {"DONE", "FAULT"} /\ TimedOut
  /\ recv' = [recv EXCEPT !.state = "ERROR", !.contentLength = 0]
  /\ Return("timeout")
  /\ UNCHANGED <<req, timed, expired, frameId, send, txStat, dispatched, module>>

\* Fault: an error is looked at only when the timeout has passed.
RecvFailsLate ==
  /\ pc = "recv" /\ recv.state = "ERROR" /\ TimedOut
  /\ recv' = [recv EXCEPT !.contentLength = 0]
  /\ Return("failed")
  /\ UNCHANGED <<req, timed, expired, frameId, send, txStat, dispatched, module>>

RecvFails ==
  /\ pc = "recv" /\ recv.state = "ERROR" /\ ~TimedOut
  /\ recv' = [recv EXCEPT !.contentLength = 0]
  /\ Return("failed")
  /\ UNCHANGED <<req, timed, expired, frameId, send, txStat, dispatched, module>>

RecvTicksOn ==
  /\ pc = "recv" /\ recv.state \in {"NONE", "HEADER", "BODY"} /\ ~TimedOut
  /\ dispatched > 0
  /\ dispatched' = 0
  /\ UNCHANGED <<pc, req, timed, expired, frameId, send, txStat, recv, ret, module>>

-----------------------------------------------------------------------------
(* xbee_dev_tick dispatches a frame                                          *)

\* Fault: any confirmation will do.
StatusHandlerAnyId(id, delivery) ==
  IF send.state = "WAIT"
  THEN /\ txStat' = delivery
       /\ send' = [send EXCEPT !.state = IF delivery = "success" THEN "DONE" ELSE "RESEND"]
  ELSE UNCHANGED <<send, txStat>>

StatusHandler(id, delivery) ==
  IF send.state = "WAIT" /\ send.frameId = id
  THEN /\ txStat' = delivery
       /\ send' = [send EXCEPT !.state = IF delivery = "success" THEN "DONE" ELSE "RESEND"]
  ELSE UNCHANGED <<send, txStat>>

Dispatch ==
  /\ pc # "idle" /\ up # <<>> /\ dispatched < MaxDispatch
  /\ dispatched' = dispatched + 1
  /\ up' = Tail(up)
  /\ \/ /\ Head(up).type = "TX_STATUS"
        /\ StatusHandler(Head(up).id, Head(up).delivery)
        /\ UNCHANGED recv
     \/ /\ Head(up).type = "IPV4"
        /\ recv' = Receive(recv, Head(up).payload)
        /\ UNCHANGED <<send, txStat>>
  /\ UNCHANGED <<pc, req, timed, expired, frameId, ret, air, pending, down, got, accepted,
                 answers, cuts, split>>

\* The seconds timer reaches the timeout.
Expire ==
  /\ pc # "idle" /\ timed /\ ~expired
  /\ expired' = TRUE
  /\ UNCHANGED <<pc, req, timed, frameId, send, txStat, recv, dispatched, ret, module>>

-----------------------------------------------------------------------------
(* The XBee and the server                                                   *)

Answer(code) ==
  \E n \in BodyLengths :
    /\ down' = Append(down, Response(code, n))
    /\ answers' = answers \cup {[status |-> code, length |-> n]}

\* A head opens a request, what follows completes it: with the body that
\* belongs to it, or else with what the server can only reject.
Serve(f) ==
  \/ /\ pending = 0 /\ f.part = "head"
     /\ pending' = f.req
     /\ UNCHANGED <<down, answers, accepted>>
  \/ /\ pending = f.req /\ f.part = "body"
     /\ pending' = 0
     /\ accepted' = accepted \cup {f.req}
     /\ Answer(200)
  \/ /\ \/ pending = 0 /\ f.part = "body"
        \/ pending # 0 /\ <<pending, "body">> # <<f.req, f.part>>
     /\ pending' = 0
     /\ Answer(400)
     /\ UNCHANGED accepted

Confirm(f, delivery) ==
  up' = Append(up, [type |-> "TX_STATUS", id |-> f.id, delivery |-> delivery])

Deliver ==
  /\ air # <<>>
  /\ air' = Tail(air)
  /\ Confirm(Head(air), "success")
  /\ got' = got \cup {<<Head(air).req, Head(air).part>>}
  /\ Serve(Head(air))
  /\ UNCHANGED <<client, cuts, split>>

Undeliverable ==
  /\ air # <<>>
  /\ air' = Tail(air)
  /\ \E delivery \in {"failure", "resources"} : Confirm(Head(air), delivery)
  /\ UNCHANGED <<client, pending, down, got, accepted, answers, cuts, split>>

\* History: the receiver can go on after the first k bytes of s, where headers
\* are cut: behind the status line, before it looks for an end; behind a later
\* line, while it waits for a body.  It cannot within a line, between CR and LF,
\* or when no body is to come.
Joins(s, k) ==
  s[k] = LF /\ (s[k + 1][1] = "length" \/ Last(s)[1] = "body")

\* The first k bytes of s end within its headers.
CutsHeaders(s, k) == k < Len(s) /\ s[k + 1][1] # "body"

\* The next piece of a response, cut anywhere: the code has no say in it.
Forward ==
  /\ down # <<>>
  /\ \E k \in 1 .. Len(Head(down)) :
       LET response == Head(down)
           through == CutsHeaders(response, k)
       IN /\ through => cuts < MaxCuts
          /\ cuts' = IF through THEN cuts + 1 ELSE cuts
          /\ split' = (split \/ (through /\ ~Joins(response, k)))
          /\ up' = Append(up, [type |-> "IPV4", payload |-> SubSeq(response, 1, k)])
          /\ down' = IF k = Len(response) THEN Tail(down)
                     ELSE <<SubSeq(response, k + 1, Len(response))>> \o Tail(down)
  /\ UNCHANGED <<client, air, pending, got, accepted, answers>>

-----------------------------------------------------------------------------
Init ==
  /\ pc = "idle" /\ req = 0 /\ timed = FALSE /\ expired = FALSE
  /\ frameId = 0
  /\ send = [state |-> "NONE", frameId |-> 0] /\ txStat = "none"
  /\ recv = Fresh
  /\ dispatched = 0
  /\ ret = [r \in Requests |-> "none"]
  /\ air = <<>> /\ up = <<>> /\ pending = 0 /\ down = <<>>
  /\ got = {} /\ accepted = {} /\ answers = {} /\ cuts = 0 /\ split = FALSE

Step == \/ SendTimesOut \/ SendTicksOn \/ HeadDone \/ BodyDone \/ SendGivesUp \/ Resend
        \/ RecvDone \/ RecvTimesOut \/ RecvFails \/ RecvTicksOn

Next == \/ Connect \/ Step \/ Dispatch \/ Expire
        \/ Deliver \/ Undeliverable \/ Forward

Spec == Init /\ [][Next]_vars

\* The loops keep ticking and the clock runs; the XBee hands on what it has got.
FairSpec == Spec /\ WF_vars(Step \/ Dispatch) /\ WF_vars(Expire) /\ WF_vars(Forward)

-----------------------------------------------------------------------------
(* Properties                                                                *)

TypeOK ==
  /\ pc \in {"idle", "head", "body", "recv"}
  /\ req \in 0 .. MaxReq
  /\ timed \in BOOLEAN /\ expired \in BOOLEAN
  /\ frameId \in 0 .. MaxId
  /\ send.state \in {"NONE", "WAIT", "RESEND", "DONE", "ERROR"}
  /\ send.frameId \in 0 .. MaxId
  /\ txStat \in {"none", "success", "failure", "resources"}
  /\ recv.state \in {"NONE", "HEADER", "BODY", "DONE", "ERROR", "FAULT"}
  /\ Len(recv.buf) <= BufLength
  /\ dispatched \in 0 .. MaxDispatch
  /\ ret \in [Requests -> {"none", "ok", "refused", "timeout", "failed", "busy"}]
  /\ pending \in 0 .. MaxReq
  /\ cuts \in 0 .. MaxCuts /\ split \in BOOLEAN

\* "Confirmation received, send complete" (http_client.c:77): httpClientSend
\* returns 0 only when this very frame reached the other side, whatever
\* confirmations of earlier, timed out frames come in late.
SendMeansDelivered ==
  /\ pc \in {"body", "recv"} => <<req, "head">> \in got
  /\ pc = "recv" => <<req, "body">> \in got

\* The receiver holds a response of the server with its whole body.
HoldsAnswer ==
  \E a \in answers : /\ recv.status = a.status /\ recv.contentLength = a.length
                     /\ recv.buf = Body(a.length)

\* What ipv4ReceiveHandler takes for a whole response is one, with its own length
\* and body, and its memcpy gets no negative size: however bodies are cut into
\* frames, and headers too, until they are cut where it cannot join the pieces
\* (Joins; DoneMeansComplete and CopiesInRoom are about the rest).
DoneMeansWhole ==
  ~split /\ pc = "recv" =>
    /\ recv.state # "FAULT"
    /\ recv.state = "DONE" => HoldsAnswer

\* "We have completed reading everything" (http_client.c:63): when the receiver
\* is done it holds a whole response, however the response was cut into frames.
DoneMeansComplete == pc = "recv" /\ recv.state = "DONE" => HoldsAnswer

\* "If we have room in the buffer" (http_client.c:313): what memcpy is given to copy
\* fits, however the response was cut into frames.  It does not hold: see the README.
CopiesInRoom == recv.state # "FAULT"

\* "Request was successful" (http_client.c:798): as long as no update fails,
\* an update reported sent was taken by the server, and its response is used up,
\* so that none is read twice or taken for that of a later request.  Of a client
\* that had a failure it says nothing (the response may come later and be read for
\* the next request), and nothing once headers were cut where the receiver cannot
\* join the pieces.
OkMeansAnswered ==
  ~split /\ pc = "idle" /\ (\A r \in 1 .. req : ret[r] = "ok") =>
    /\ 1 .. req \subseteq accepted
    /\ down = <<>>
    /\ \A k \in DOMAIN up : up[k].type # "IPV4"

\* The client is back, or memcpy has run over its memory.
Ended == pc = "idle" \/ recv.state = "FAULT"

\* A request with a timeout returns, whatever the XBee confirms or refuses and
\* however responses are cut.
TimedReturns == (pc # "idle" /\ timed) ~> Ended

\* A response under way when httpClientRecv begins to wait ends the wait, wherever
\* it is cut.
ResponseEndsWait ==
  (/\ pc = "recv" /\ recv.state = "NONE"
   /\ down # <<>> \/ \E k \in DOMAIN up : up[k].type = "IPV4") ~> Ended

\* "Blocks, waits for incoming/complete http response" (http_client.c:556): when the
\* server has taken the request and answered it, the wait ends.  It does not
\* hold: see the README.
AnswerEndsWait == (pc = "recv" /\ req \in accepted) ~> (pc = "idle")
=============================================================================
