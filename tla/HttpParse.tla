----------------------------- MODULE HttpParse -----------------------------
(***************************************************************************)
(* ipv4ReceiveHandler of src/src/http_client.c as an operator: what one    *)
(* received IPv4 frame does to recvContext and to the response it points   *)
(* to.  A response is a string of tokens, each standing where the code     *)
(* looks at one byte: the text of a status line, of a Content-Length       *)
(* header, of any other header, CR, LF, a byte of the body.                *)
(***************************************************************************)
EXTENDS Integers, Sequences, FiniteSetsExt, SequencesExt

CONSTANT BufLength  (* bufLength of the response, HTTP_BUFFER_LEN *)

ASSUME BufAssumption == BufLength \in Nat

CR == <<"CR", 0>>
LF == <<"LF", 0>>
StatusLine(code) == <<"status", code>>
ContentLength(n) == <<"length", n>>
OtherHeader == <<"other", 0>>
Body(n) == [k \in 1 .. n |-> <<"body", k>>]

\* A response of the server with a body of n bytes.
HeaderPart(code, n) ==
  <<StatusLine(code), CR, LF, ContentLength(n), CR, LF, OtherHeader, CR, LF, CR, LF>>
Response(code, n) == HeaderPart(code, n) \o Body(n)

\* recvContext and *recvContext.thisRepsonse; bodyLenRead is Len(buf).
Fresh == [state |-> "NONE", status |-> 0, contentLength |-> 0, buf |-> <<>>]

-----------------------------------------------------------------------------
\* headerToString from position s of f on: the first CR, 0 if there is none.
CrsFrom(f, s) == {k \in s .. Len(f) : f[k] = CR}
FirstCr(f, s) == IF CrsFrom(f, s) = {} THEN 0 ELSE Min(CrsFrom(f, s))

\* The positions where the header loop begins a line: s, and two bytes on from
\* each CR, LF being skipped unseen.
LineStarts(f, s) == {s} \cup {k + 2 : k \in CrsFrom(f, s)}

\* An empty line ends the headers.
EmptyLines(f, s) == CrsFrom(f, s) \cap LineStarts(f, s)

\* The lines processHeader sees: complete, and before the empty line.
HeaderLines(f, s) ==
  {p \in LineStarts(f, s) : /\ CrsFrom(f, p) # {}
                            /\ \A e \in EmptyLines(f, s) : p < e}

\* Where the loop leaves startHeader.
BodyStart(f, s) ==
  IF EmptyLines(f, s) # {} THEN Min(EmptyLines(f, s)) + 2 ELSE Max(LineStarts(f, s))

LengthsAt(f, lines) == {f[p][2] : p \in {q \in lines : f[q][1] = "length"}}

-----------------------------------------------------------------------------
\* Fault: the room in the buffer is not looked at.
ReceiveBodyUnchecked(r, f, s) ==
  LET copied == [r EXCEPT !.buf = @ \o SubSeq(f, s, Len(f))]
  IN IF Len(copied.buf) >= copied.contentLength
     THEN [copied EXCEPT !.state = "DONE"] ELSE copied

\* Case HTTP_RECEIVE_BODY with the bytes of f from s on.  A frame that ends
\* with CR has left payloadLen at -1: memcpy gets it as its size.
ReceiveBody(r, f, s) ==
  LET payloadLen == Len(f) - s + 1
      fits == BufLength >= Len(r.buf) + payloadLen
      copied == IF fits THEN [r EXCEPT !.buf = @ \o SubSeq(f, s, Len(f))]
                        ELSE [r EXCEPT !.state = "ERROR"]
  IN IF fits /\ payloadLen < 0 THEN [r EXCEPT !.state = "FAULT"]
     ELSE IF Len(copied.buf) >= copied.contentLength
          THEN [copied EXCEPT !.state = "DONE"] ELSE copied

\* Fault: a frame with headers but no Content-Length clears the length.
ReceiveHeaderForgets(r, f, s) ==
  LET lengths == LengthsAt(f, HeaderLines(f, s))
      seen == [r EXCEPT
                 !.contentLength = IF lengths = {} THEN 0 ELSE Max(lengths),
                 !.state = IF EmptyLines(f, s) # {} THEN "BODY" ELSE @]
  IN ReceiveBody(seen, f, BodyStart(f, s))

\* Case HTTP_RECEIVE_HEADER: the header loop, and on to the body in any case.
ReceiveHeader(r, f, s) ==
  LET lengths == LengthsAt(f, HeaderLines(f, s))
      seen == [r EXCEPT
                 !.contentLength = IF lengths = {} THEN @ ELSE Max(lengths),
                 !.state = IF EmptyLines(f, s) # {} THEN "BODY" ELSE @]
  IN ReceiveBody(seen, f, BodyStart(f, s))

\* Case HTTP_RECEIVE_NONE: the status line, and on to the headers if any follow.
ReceiveFirst(r, f) ==
  LET cr == FirstCr(f, 1)
  IN IF cr = 0 \/ f[1][1] # "status" THEN [r EXCEPT !.state = "ERROR"]
     ELSE LET seen == [r EXCEPT !.state = "HEADER", !.status = f[1][2]]
          IN IF cr + 2 <= Len(f) THEN ReceiveHeader(seen, f, cr + 2) ELSE seen

Receive(r, f) ==
  IF f = <<>> THEN r
  ELSE CASE r.state = "NONE"   -> ReceiveFirst(r, f)
         [] r.state = "HEADER" -> ReceiveHeader(r, f, 1)
         [] r.state = "BODY"   -> ReceiveBody(r, f, 1)
         [] OTHER              -> r
=============================================================================
