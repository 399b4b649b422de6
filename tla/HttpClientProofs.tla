-------------------------- MODULE HttpClientProofs --------------------------
(***************************************************************************)
(* Proved of HttpClient for every number of requests and ids, every buffer *)
(* and all responses: types, that the receiver stays within its buffer,    *)
(* and that a request goes on only when its own frames were delivered;     *)
(* and, for responses cut into frames in every way until one is cut where  *)
(* the receiver cannot join the pieces, that what it calls complete is     *)
(* whole, and that no response is read for another.                        *)
(***************************************************************************)
EXTENDS HttpClient, FiniteSetTheorems, SequenceTheorems, TLAPS

Token == {"CR", "LF", "status", "length", "other", "body"} \X Nat

\* recvContext with the response.
Recvs ==
  {r \in [state : {"NONE", "HEADER", "BODY", "DONE", "ERROR", "FAULT"},
          status : Nat, contentLength : Nat, buf : Seq(Token)] : Len(r.buf) <= BufLength}

\* Frames to and from the XBee.
Sent == [id : 1 .. MaxId, part : {"head", "body"}, req : Requests]
Deliveries == {"success", "failure", "resources"}
Frame == [type : {"TX_STATUS"}, id : 1 .. MaxId, delivery : Deliveries]
           \cup [type : {"IPV4"}, payload : Seq(Token)]

ClientTypes ==
  /\ pc \in {"idle", "head", "body", "recv"}
  /\ req \in 0 .. MaxReq
  /\ timed \in BOOLEAN /\ expired \in BOOLEAN
  /\ frameId \in 0 .. MaxId
  /\ send \in [state : {"NONE", "WAIT", "RESEND", "DONE", "ERROR"}, frameId : 0 .. MaxId]
  /\ txStat \in {"none"} \cup Deliveries
  /\ recv \in Recvs
  /\ dispatched \in 0 .. MaxDispatch
  /\ ret \in [Requests -> {"none", "ok", "refused", "timeout", "failed", "busy"}]

ModuleTypes ==
  /\ air \in Seq(Sent)
  /\ up \in Seq(Frame)
  /\ pending \in 0 .. MaxReq
  /\ down \in Seq(Seq(Token))
  /\ cuts \in 0 .. MaxCuts /\ split \in BOOLEAN

\* How many ids were used up since id, where at is the last one.
Age(id, at) == IF id <= at THEN at - id ELSE at - id + MaxId

\* The id of a frame that a request before this one gave up waiting for.
Stale(id) == Age(id, frameId) \in 1 .. req - 1

Status(k) == up[k].type = "TX_STATUS"

\* sendContext by the position of sendDataToCloud.
Position ==
  /\ Sending => req > 0 /\ send.state \in {"WAIT", "RESEND", "DONE"}
  /\ send.state \in {"WAIT", "RESEND"} => Sending
  /\ pc = "recv" => req > 0 /\ send.state = "DONE"
  /\ Sending /\ send.state = "DONE" => <<req, pc>> \in got

\* The frame waited for is the last on its way, or its confirmation is.
Waiting ==
  send.state = "WAIT" =>
    /\ send.frameId = frameId /\ frameId > 0
    /\ \A k \in DOMAIN air :
         \/ Stale(air[k].id)
         \/ k = Len(air) /\ air[k].id = frameId /\ air[k].req = req /\ air[k].part = pc
    /\ \A k \in DOMAIN up : Status(k) =>
         \/ Stale(up[k].id)
         \/ /\ up[k].id = frameId
            /\ air = << >>
            /\ \A j \in DOMAIN up : Status(j) => j <= k
            /\ up[k].delivery = "success" => <<req, pc>> \in got

\* Frames are confirmed in order: with the last one, all are.
Settled ==
  send.state \in {"DONE", "RESEND"} =>
    air = << >> /\ \A k \in DOMAIN up : ~Status(k)

\* What a request that failed has left.
Left ==
  send.state \in {"NONE", "ERROR"} =>
    /\ \A k \in DOMAIN air : Age(air[k].id, frameId) < req
    /\ \A k \in DOMAIN up : Status(k) => Age(up[k].id, frameId) < req

SendInv == Position /\ Waiting /\ Settled /\ Left /\ SendMeansDelivered

IInv == ClientTypes /\ ModuleTypes /\ SendInv

-----------------------------------------------------------------------------
(* The least and the greatest of a finite set of numbers                     *)

LEMMA MaxLemma ==
  ASSUME NEW S \in SUBSET Int, IsFiniteSet(S), S # {}
  PROVE  Max(S) \in S /\ \A y \in S : Max(S) >= y
<1> DEFINE Above(x) == {y \in S : y > x}
           T == {Above(x) : x \in S}
<1>1. T \subseteq FiniteSubsetsOf(S) /\ T # {}
  <2>1. T \subseteq SUBSET S /\ T # {}
    <3>1. \A x \in S : Above(x) \subseteq S
      OBVIOUS
    <3> HIDE DEF Above
    <3> QED
      BY <3>1
  <2> HIDE DEF T
  <2> QED
    BY <2>1, FS_FiniteSubsetsOfFinite
<1>2. PICK A \in T : \A B \in T : <<B, A>> \notin StrictSubsetOrdering(S)
  <2>1. IsWellFoundedOn(StrictSubsetOrdering(S), FiniteSubsetsOf(S))
    BY FS_StrictSubsetOrderingWellFounded
  <2> HIDE DEF T
  <2> QED
    BY <1>1, <2>1, WFMin
<1>3. PICK x \in S : A = Above(x)
  BY <1>2
<1>4. \A y \in S : x >= y
  <2> SUFFICES ASSUME NEW y \in S, y > x PROVE FALSE
    OBVIOUS
  <2>1. x \in Int /\ y \in Int
    OBVIOUS
  <2>3. Above(y) \subseteq Above(x)
    <3>1. \A z \in S : z \in Int
      OBVIOUS
    <3>2. \A z \in Int : z > y => z > x
      BY <2>1
    <3> QED
      BY <3>1, <3>2
  <2>4. Above(y) \in T
    OBVIOUS
  <2>2. y \in Above(x) /\ y \notin Above(y)
    OBVIOUS
  <2> QED
    BY <1>2, <1>3, <2>1, <2>2, <2>3, <2>4 DEF StrictSubsetOrdering
<1> QED
  BY <1>4 DEF Max

LEMMA MinLemma ==
  ASSUME NEW S \in SUBSET Int, IsFiniteSet(S), S # {}
  PROVE  Min(S) \in S /\ \A y \in S : Min(S) <= y
<1> DEFINE Below(x) == {y \in S : y < x}
           T == {Below(x) : x \in S}
<1>1. T \subseteq FiniteSubsetsOf(S) /\ T # {}
  <2>1. T \subseteq SUBSET S /\ T # {}
    <3>1. \A x \in S : Below(x) \subseteq S
      OBVIOUS
    <3> HIDE DEF Below
    <3> QED
      BY <3>1
  <2> HIDE DEF T
  <2> QED
    BY <2>1, FS_FiniteSubsetsOfFinite
<1>2. PICK A \in T : \A B \in T : <<B, A>> \notin StrictSubsetOrdering(S)
  <2>1. IsWellFoundedOn(StrictSubsetOrdering(S), FiniteSubsetsOf(S))
    BY FS_StrictSubsetOrderingWellFounded
  <2> HIDE DEF T
  <2> QED
    BY <1>1, <2>1, WFMin
<1>3. PICK x \in S : A = Below(x)
  BY <1>2
<1>4. \A y \in S : x <= y
  <2> SUFFICES ASSUME NEW y \in S, y < x PROVE FALSE
    OBVIOUS
  <2>1. x \in Int /\ y \in Int
    OBVIOUS
  <2>3. Below(y) \subseteq Below(x)
    <3>1. \A z \in S : z \in Int
      OBVIOUS
    <3>2. \A z \in Int : z < y => z < x
      BY <2>1
    <3> QED
      BY <3>1, <3>2
  <2>4. Below(y) \in T
    OBVIOUS
  <2>2. y \in Below(x) /\ y \notin Below(y)
    OBVIOUS
  <2> QED
    BY <1>2, <1>3, <2>1, <2>2, <2>3, <2>4 DEF StrictSubsetOrdering
<1> QED
  BY <1>4 DEF Min

-----------------------------------------------------------------------------
(* ipv4ReceiveHandler                                                        *)

\* Where a line begins is a position, not beyond the byte behind a CR and LF.
LEMMA StartsLemma ==
  ASSUME NEW f \in Seq(Token), NEW s \in Nat \ {0}
  PROVE  /\ CrsFrom(f, s) \subseteq Nat \ {0} /\ IsFiniteSet(CrsFrom(f, s))
         /\ LineStarts(f, s) \subseteq Nat \ {0} /\ IsFiniteSet(LineStarts(f, s))
         /\ \A p \in LineStarts(f, s) : CrsFrom(f, p) # {} => p \in 1 .. Len(f)
         /\ BodyStart(f, s) \in Nat \ {0}
<1>1. Len(f) \in Nat
  BY LenProperties
<1>2. CrsFrom(f, s) \subseteq s .. Len(f) /\ CrsFrom(f, s) \subseteq Nat \ {0}
  BY <1>1 DEF CrsFrom
<1>0. \A a, b \in Int : IsFiniteSet(a .. b)
  BY FS_Interval
<1>3. IsFiniteSet(CrsFrom(f, s))
  <2>1. IsFiniteSet(s .. Len(f))
    BY <1>0, <1>1
  <2> QED
    BY <1>2, <2>1, FS_Subset
<1>4. LineStarts(f, s) \subseteq 1 .. (Len(f) + 2 + s) /\ LineStarts(f, s) # {}
  BY <1>1, <1>2 DEF LineStarts
<1>5. IsFiniteSet(LineStarts(f, s)) /\ LineStarts(f, s) \subseteq Nat \ {0}
  <2>1. IsFiniteSet(1 .. (Len(f) + 2 + s))
    BY <1>0, <1>1
  <2>2. LineStarts(f, s) \subseteq Nat \ {0}
    BY <1>1, <1>4
  <2> QED
    BY <1>4, <2>1, <2>2, FS_Subset
<1>6. EmptyLines(f, s) \subseteq Nat \ {0} /\ IsFiniteSet(EmptyLines(f, s))
  BY <1>2, <1>3, FS_Subset DEF EmptyLines
<1>7. BodyStart(f, s) \in Nat \ {0}
  BY <1>4, <1>5, <1>6, MaxLemma, MinLemma DEF BodyStart
<1>8. \A p \in LineStarts(f, s) : CrsFrom(f, p) # {} => p \in 1 .. Len(f)
  BY <1>1, <1>5 DEF CrsFrom
<1> QED
  BY <1>2, <1>3, <1>5, <1>7, <1>8

LEMMA LengthsLemma ==
  ASSUME NEW f \in Seq(Token), NEW s \in Nat \ {0}
  PROVE  LET L == LengthsAt(f, HeaderLines(f, s))
         IN  L # {} => Max(L) \in Nat
<1> DEFINE P == {q \in HeaderLines(f, s) : f[q][1] = "length"}
           g == [p \in P |-> f[p][2]]
           L == {f[p][2] : p \in P}
<1>1. P \subseteq LineStarts(f, s) /\ P \subseteq 1 .. Len(f)
  BY StartsLemma DEF HeaderLines
<1>2. IsFiniteSet(P)
  BY <1>1, StartsLemma, FS_Subset
<1>3. L \subseteq Nat
  BY <1>1, LenProperties DEF Token
<1>4. g \in Surjection(P, L)
  BY DEF Surjection
<1>5. IsFiniteSet(L)
  <2> HIDE DEF g, L, P
  <2> QED
    BY <1>2, <1>4, FS_Surjection
<1>6. L # {} => Max(L) \in Nat
  <2> HIDE DEF L
  <2> QED
    <3>1. L \in SUBSET Int
      BY <1>3
    <3> QED
      BY <1>3, <1>5, <3>1, MaxLemma
<1> QED
  BY <1>6 DEF LengthsAt

LEMMA BodyLemma ==
  ASSUME NEW r \in Recvs, NEW f \in Seq(Token), NEW s \in Nat \ {0}
  PROVE  ReceiveBody(r, f, s) \in Recvs
<1> DEFINE part == SubSeq(f, s, Len(f))
           n == Len(f) - s + 1
           fits == BufLength >= Len(r.buf) + n
           copied == IF fits THEN [r EXCEPT !.buf = @ \o part] ELSE [r EXCEPT !.state = "ERROR"]
<1>1. Len(f) \in Nat /\ Len(r.buf) \in Nat /\ r.buf \in Seq(Token) /\ BufLength \in Nat
  BY LenProperties, BufAssumption DEF Recvs
<1>2. part \in Seq(Token) /\ Len(part) = IF s <= Len(f) THEN n ELSE 0
  BY <1>1, SubSeqProperties, LenProperties
<1> HIDE DEF part
<1>3. r.buf \o part \in Seq(Token) /\ Len(r.buf \o part) = Len(r.buf) + Len(part)
  BY <1>1, <1>2, ConcatProperties
<1>4. Len(r.buf) <= BufLength
  BY DEF Recvs
<1>5. fits => Len(r.buf \o part) <= BufLength
  <2>1. Len(part) = n \/ Len(part) = 0
    BY <1>2
  <2>2. Len(part) \in Nat
    BY <1>1, <1>2
  <2> HIDE DEF n
  <2> DEFINE m == Len(r.buf)
             k == Len(part)
  <2>3. m \in Nat /\ k \in Nat /\ m <= BufLength /\ BufLength \in Nat
    BY <1>1, <1>4, <2>2
  <2>4. (k = n \/ k = 0) /\ (fits => BufLength >= m + n)
    BY <2>1
  <2> HIDE DEF m, k, fits
  <2>5. fits => m + k <= BufLength
    BY <2>3, <2>4
  <2> QED
    BY <1>3, <2>5 DEF m, k
<1>6. copied \in Recvs
  <2> HIDE DEF fits
  <2>1. CASE fits
    <3> DEFINE b == r.buf \o part
    <3>1. b \in Seq(Token) /\ Len(b) <= BufLength
      BY <1>3, <1>5, <2>1
    <3> HIDE DEF b
    <3>2. [r EXCEPT !.buf = b] \in Recvs
      BY <3>1 DEF Recvs
    <3> QED
      BY <3>2, <2>1 DEF b
  <2>2. CASE ~fits
    BY <2>2 DEF Recvs
  <2> QED
    BY <2>1, <2>2
<1>7. [r EXCEPT !.state = "FAULT"] \in Recvs
  BY DEF Recvs
<1>8. [copied EXCEPT !.state = "DONE"] \in Recvs
  <2> HIDE DEF copied
  <2> QED
    BY <1>6 DEF Recvs
<1> QED
  BY <1>6, <1>7, <1>8 DEF ReceiveBody, part

LEMMA HeaderLemma ==
  ASSUME NEW r \in Recvs, NEW f \in Seq(Token), NEW s \in Nat \ {0}
  PROVE  ReceiveHeader(r, f, s) \in Recvs
<1> DEFINE lengths == LengthsAt(f, HeaderLines(f, s))
           c == IF lengths = {} THEN r.contentLength ELSE Max(lengths)
           z == IF EmptyLines(f, s) # {} THEN "BODY" ELSE r.state
           seen == [r EXCEPT !.contentLength = c, !.state = z]
<1>1. c \in Nat
  BY LengthsLemma DEF Recvs
<1>2. z \in {"NONE", "HEADER", "BODY", "DONE", "ERROR", "FAULT"}
  BY DEF Recvs
<1>3. seen \in Recvs
  <2> HIDE DEF c, z
  <2> QED
    BY <1>1, <1>2 DEF Recvs
<1>4. ReceiveHeader(r, f, s) = ReceiveBody(seen, f, BodyStart(f, s))
  BY DEF ReceiveHeader
<1> HIDE DEF seen
<1> QED
  BY <1>3, <1>4, StartsLemma, BodyLemma

LEMMA FirstLemma ==
  ASSUME NEW r \in Recvs, NEW f \in Seq(Token), f # << >>
  PROVE  ReceiveFirst(r, f) \in Recvs
<1> DEFINE cr == FirstCr(f, 1)
           code == f[1][2]
           seen == [r EXCEPT !.state = "HEADER", !.status = code]
<1>1. cr \in Nat
  BY StartsLemma, MinLemma DEF FirstCr
<1>2. code \in Nat
  BY LenProperties, EmptySeq DEF Token
<1>3. seen \in Recvs
  <2> HIDE DEF code
  <2> QED
    BY <1>2 DEF Recvs
<1>4. [r EXCEPT !.state = "ERROR"] \in Recvs
  BY DEF Recvs
<1>5. cr # 0 => ReceiveHeader(seen, f, cr + 2) \in Recvs
  <2> HIDE DEF seen, cr
  <2> QED
    BY <1>1, <1>3, HeaderLemma
<1> QED
  BY <1>3, <1>4, <1>5 DEF ReceiveFirst

LEMMA ReceiveLemma ==
  ASSUME NEW r \in Recvs, NEW f \in Seq(Token)
  PROVE  Receive(r, f) \in Recvs
<1>1. f # << >> => ReceiveFirst(r, f) \in Recvs
  BY FirstLemma
<1>2. ReceiveHeader(r, f, 1) \in Recvs /\ ReceiveBody(r, f, 1) \in Recvs
  BY HeaderLemma, BodyLemma
<1>3. CASE f = << >>
  BY <1>3 DEF Receive
<1>4. CASE f # << >> /\ r.state = "NONE"
  <2>1. Receive(r, f) = ReceiveFirst(r, f)
    BY <1>4 DEF Receive
  <2> QED
    BY <1>1, <1>4, <2>1
<1>5. CASE f # << >> /\ r.state = "HEADER"
  <2>1. Receive(r, f) = ReceiveHeader(r, f, 1)
    BY <1>5 DEF Receive
  <2> QED
    BY <1>2, <2>1
<1>6. CASE f # << >> /\ r.state = "BODY"
  <2>1. Receive(r, f) = ReceiveBody(r, f, 1)
    BY <1>6 DEF Receive
  <2> QED
    BY <1>2, <2>1
<1>7. CASE f # << >> /\ r.state \notin {"NONE", "HEADER", "BODY"}
  BY <1>7 DEF Receive
<1> QED
  BY <1>3, <1>4, <1>5, <1>6, <1>7

-----------------------------------------------------------------------------
(* Types                                                                     *)

LEMMA NextIdLemma ==
  ASSUME NEW at \in 0 .. MaxId
  PROVE  NextId(at) \in 1 .. MaxId /\ NextId(at) \in 0 .. MaxId
BY HttpAssumption DEF NextId

LEMMA FreshLemma == Fresh \in Recvs
  BY EmptySeq, BufAssumption DEF Fresh, Recvs

\* A request sends a frame, or fails.
LEMMA TransmitTypes ==
  ASSUME ClientTypes, air \in Seq(Sent),
         NEW r \in Requests, NEW p \in {"head", "body"}, Transmit(p, r, p)
  PROVE  /\ pc' \in {"idle", p}
         /\ frameId' = NextId(frameId) /\ frameId' \in 0 .. MaxId
         /\ send' \in [state : {"WAIT", "ERROR"}, frameId : 0 .. MaxId]
         /\ air' \in Seq(Sent)
         /\ ret' \in [Requests -> {"none", "ok", "refused", "timeout", "failed", "busy"}]
<1>1. NextId(frameId) \in 1 .. MaxId /\ NextId(frameId) \in 0 .. MaxId
  BY NextIdLemma DEF ClientTypes
<1> DEFINE f == [id |-> NextId(frameId), part |-> p, req |-> r]
<1>2. f \in Sent
  BY <1>1 DEF Sent
<1>3. Append(air, f) \in Seq(Sent)
  <2> HIDE DEF f
  <2> QED
    BY <1>2, AppendProperties
<1>4. frameId' = NextId(frameId) /\ (air' = Append(air, f) \/ air' = air)
  BY DEF Transmit, Write, WriteFails
<1>5. send' \in [state : {"WAIT", "ERROR"}, frameId : 0 .. MaxId]
  BY <1>1 DEF Transmit
<1>6. pc' \in {"idle", p} /\ (ret' = ret \/ ret' = [ret EXCEPT ![r] = "failed"])
  BY DEF Transmit
<1> QED
  BY <1>1, <1>3, <1>4, <1>5, <1>6 DEF ClientTypes

LEMMA ConfirmTypes ==
  ASSUME up \in Seq(Frame), NEW f \in Sent, NEW d \in Deliveries, Confirm(f, d)
  PROVE  up' \in Seq(Frame)
<1> DEFINE c == [type |-> "TX_STATUS", id |-> f.id, delivery |-> d]
<1>1. c \in Frame
  BY DEF Frame, Sent
<1>2. up' = Append(up, c)
  BY DEF Confirm
<1> HIDE DEF c
<1> QED
  BY <1>1, <1>2, AppendProperties

\* A token by itself is a response of one token.
LEMMA TupleSeq ==
  ASSUME NEW S, NEW x \in S
  PROVE  <<x>> \in Seq(S)
OBVIOUS

LEMMA ResponseTypes ==
  ASSUME NEW code \in Nat, NEW n \in Nat
  PROVE  Response(code, n) \in Seq(Token)
<1>1. HeaderPart(code, n) \in Seq(Token)
  <2>1. /\ StatusLine(code) \in Token /\ CR \in Token /\ LF \in Token
        /\ ContentLength(n) \in Token /\ OtherHeader \in Token
    BY DEF StatusLine, CR, LF, ContentLength, OtherHeader, Token
  <2> HIDE DEF Token
  <2> QED
    BY <2>1 DEF HeaderPart
<1>2. Body(n) \in Seq(Token)
  <2>1. Body(n) \in [1 .. n -> Token]
    BY DEF Body, Token
  <2> QED
    BY <2>1, SeqDef
<1> QED
  BY <1>1, <1>2, ConcatProperties DEF Response

LEMMA ServeTypes ==
  ASSUME ModuleTypes, NEW f \in Sent, Serve(f)
  PROVE  pending' \in 0 .. MaxReq /\ down' \in Seq(Seq(Token))
<1>1. ASSUME NEW code \in Nat, Answer(code)
      PROVE  down' \in Seq(Seq(Token))
  <2>1. PICK n \in BodyLengths : down' = Append(down, Response(code, n))
    BY <1>1 DEF Answer
  <2>2. Response(code, n) \in Seq(Token)
    BY HttpAssumption, ResponseTypes
  <2> QED
    BY <2>1, <2>2, AppendProperties DEF ModuleTypes
<1>2. f.req \in 0 .. MaxReq /\ 0 \in 0 .. MaxReq
  BY HttpAssumption DEF Sent, Requests
<1> QED
  BY <1>1, <1>2 DEF Serve, ModuleTypes

\* What is left of a response after a piece of it.
LEMMA ForwardTypes ==
  ASSUME ModuleTypes, Forward
  PROVE  /\ up' \in Seq(Frame) /\ down' \in Seq(Seq(Token))
         /\ cuts' \in 0 .. MaxCuts /\ split' \in BOOLEAN
<1> DEFINE h == Head(down)
<1>1. h \in Seq(Token) /\ Tail(down) \in Seq(Seq(Token))
  BY HeadTailProperties DEF Forward, ModuleTypes
<1>2. PICK k \in 1 .. Len(h) :
        /\ up' = Append(up, [type |-> "IPV4", payload |-> SubSeq(h, 1, k)])
        /\ down' = IF k = Len(h) THEN Tail(down)
                   ELSE <<SubSeq(h, k + 1, Len(h))>> \o Tail(down)
        /\ CutsHeaders(h, k) => cuts < MaxCuts
        /\ cuts' = IF CutsHeaders(h, k) THEN cuts + 1 ELSE cuts
        /\ split' = (split \/ (CutsHeaders(h, k) /\ ~Joins(h, k)))
  BY DEF Forward
<1>3. Len(h) \in Nat
  BY <1>1, LenProperties
<1>4. cuts' \in 0 .. MaxCuts /\ split' \in BOOLEAN
  <2> HIDE DEF h
  <2>1. cuts' \in 0 .. MaxCuts
    <3>1. /\ cuts \in 0 .. MaxCuts
          /\ cuts' = cuts \/ (cuts' = cuts + 1 /\ cuts < MaxCuts)
      BY <1>2 DEF ModuleTypes
    <3> QED
      BY <3>1, HttpAssumption
  <2>2. split' \in BOOLEAN
    BY Zenon, <1>2
  <2> QED
    BY <2>1, <2>2
<1> DEFINE a == SubSeq(h, 1, k)
           b == SubSeq(h, k + 1, Len(h))
<1>5. a \in Seq(Token) /\ b \in Seq(Token)
  <2>1. \A i \in 1 .. Len(h) : h[i] \in Token
    BY <1>1, LenProperties
  <2> HIDE DEF h
  <2> QED
    BY <1>1, <1>3, <2>1, SubSeqProperties
<1>6. [type |-> "IPV4", payload |-> a] \in Frame
  <2> HIDE DEF a
  <2> QED
    BY <1>5 DEF Frame
<1>7. up' \in Seq(Frame)
  BY <1>2, <1>6, AppendProperties DEF ModuleTypes
<1>8. <<b>> \in Seq(Seq(Token))
  BY <1>5, TupleSeq
<1>9. <<b>> \o Tail(down) \in Seq(Seq(Token))
  <2> HIDE DEF b
  <2> QED
    BY <1>1, <1>8, ConcatProperties
<1> QED
  BY <1>1, <1>2, <1>4, <1>7, <1>9

LEMMA DispatchTypes ==
  ASSUME ClientTypes, ModuleTypes, Dispatch
  PROVE  /\ send' \in [state : {"NONE", "WAIT", "RESEND", "DONE", "ERROR"},
                       frameId : 0 .. MaxId]
         /\ txStat' \in {"none"} \cup Deliveries
         /\ recv' \in Recvs
         /\ up' \in Seq(Frame)
<1> DEFINE h == Head(up)
<1>1. h \in Frame /\ Tail(up) \in Seq(Frame)
  BY HeadTailProperties DEF Dispatch, ModuleTypes
<1>2. h.type = "TX_STATUS" => h.delivery \in Deliveries
  BY <1>1 DEF Frame
<1>3. h.type = "IPV4" => h.payload \in Seq(Token)
  BY <1>1 DEF Frame
<1> HIDE DEF h
<1> DEFINE Sends == [state : {"NONE", "WAIT", "RESEND", "DONE", "ERROR"}, frameId : 0 .. MaxId]
<1>4. CASE h.type = "TX_STATUS" /\ StatusHandler(h.id, h.delivery) /\ UNCHANGED recv
  <2>1. send \in Sends /\ txStat \in {"none"} \cup Deliveries /\ recv' \in Recvs
    BY <1>4 DEF ClientTypes
  <2>2. /\ send' \in {send, [send EXCEPT !.state = "DONE"], [send EXCEPT !.state = "RESEND"]}
        /\ txStat' \in {txStat, h.delivery}
    BY <1>4 DEF StatusHandler
  <2>3. send' \in Sends
    BY <2>1, <2>2
  <2> QED
    BY <1>1, <1>2, <1>4, <2>1, <2>2, <2>3 DEF Dispatch
<1>5. CASE h.type = "IPV4" /\ recv' = Receive(recv, h.payload) /\ UNCHANGED <<send, txStat>>
  <2>1. Receive(recv, h.payload) \in Recvs
    BY <1>3, <1>5, ReceiveLemma DEF ClientTypes
  <2> QED
    BY <1>1, <1>5, <2>1 DEF Dispatch, ClientTypes
<1>6. \/ h.type = "TX_STATUS" /\ StatusHandler(h.id, h.delivery) /\ UNCHANGED recv
      \/ h.type = "IPV4" /\ recv' = Receive(recv, h.payload) /\ UNCHANGED <<send, txStat>>
  BY DEF Dispatch, h
<1> QED
  BY <1>4, <1>5, <1>6

\* Every action keeps the types.
LEMMA TypeStep ==
  ASSUME ClientTypes, ModuleTypes, Sending => req > 0, [Next]_vars
  PROVE  ClientTypes' /\ ModuleTypes'
<1> USE DEF ClientTypes, ModuleTypes
<1> DEFINE Sends == [state : {"NONE", "WAIT", "RESEND", "DONE", "ERROR"}, frameId : 0 .. MaxId]
           Rets == [Requests -> {"none", "ok", "refused", "timeout", "failed", "busy"}]
<1>0. 0 \in 0 .. MaxDispatch
  BY HttpAssumption
<1>a. /\ [send EXCEPT !.state = "ERROR"] \in Sends
      /\ \A c \in {"ok", "refused", "timeout", "failed", "busy"} :
           [ret EXCEPT ![req] = c] \in Rets
  OBVIOUS
<1>b. /\ [recv EXCEPT !.contentLength = 0] \in Recvs
      /\ [recv EXCEPT !.state = "ERROR", !.contentLength = 0] \in Recvs
  BY DEF Recvs
<1>1. CASE Connect
  <2>1. req' \in Requests /\ req' \in 0 .. MaxReq
    BY <1>1, HttpAssumption DEF Connect, Requests
  <2>2. Transmit("head", req', "head")
    BY <1>1 DEF Connect
  <2>3. /\ pc' \in {"idle", "head"} /\ frameId' \in 0 .. MaxId
        /\ send' \in [state : {"WAIT", "ERROR"}, frameId : 0 .. MaxId]
        /\ air' \in Seq(Sent) /\ ret' \in Rets
    BY <2>1, <2>2, TransmitTypes
  <2>4. send' \in Sends
    BY <2>3
  <2> QED
    BY <1>0, <1>1, <1>b, <2>1, <2>3, <2>4 DEF Connect
<1>2. CASE SendTimesOut
  BY <1>2, <1>a DEF SendTimesOut, Return, module
<1>3. CASE SendTicksOn
  BY <1>0, <1>3 DEF SendTicksOn, module
<1>4. CASE HeadDone \/ Resend
  <2>1. req \in Requests
    BY <1>4 DEF HeadDone, Resend, Sending, Requests
  <2>2. PICK p \in {"head", "body"} : Transmit(p, req, p)
    BY <1>4 DEF HeadDone, Resend, Sending
  <2>3. /\ pc' \in {"idle", p} /\ frameId' \in 0 .. MaxId
        /\ send' \in [state : {"WAIT", "ERROR"}, frameId : 0 .. MaxId]
        /\ air' \in Seq(Sent) /\ ret' \in Rets
    BY <2>1, <2>2, TransmitTypes
  <2>4. send' \in Sends
    BY <2>3
  <2> QED
    BY <1>0, <1>4, <2>3, <2>4 DEF HeadDone, Resend
<1>5. CASE BodyDone
  BY <1>0, <1>5, FreshLemma DEF BodyDone, module
<1>6. CASE SendGivesUp
  BY <1>6, <1>a DEF SendGivesUp, Return, module
<1>7. CASE RecvDone
  BY <1>7, <1>a DEF RecvDone, Return, module
<1>8. CASE RecvTimesOut
  BY <1>8, <1>a, <1>b DEF RecvTimesOut, Return, module
<1>9. CASE RecvFails
  BY <1>9, <1>a, <1>b DEF RecvFails, Return, module
<1>10. CASE RecvTicksOn
  BY <1>0, <1>10 DEF RecvTicksOn, module
<1>11. CASE Dispatch
  <2>1. dispatched' \in 0 .. MaxDispatch
    BY <1>11, HttpAssumption DEF Dispatch
  <2> QED
    BY <1>11, <2>1, DispatchTypes DEF Dispatch
<1>12. CASE Expire
  BY <1>12 DEF Expire, module
<1>13. CASE Deliver \/ Undeliverable
  <2>1. Head(air) \in Sent /\ Tail(air) \in Seq(Sent)
    BY <1>13, HeadTailProperties DEF Deliver, Undeliverable
  <2>2. PICK d \in Deliveries : Confirm(Head(air), d)
    BY <1>13 DEF Deliver, Undeliverable, Deliveries
  <2>3. up' \in Seq(Frame)
    BY <2>1, <2>2, ConfirmTypes
  <2>4. pending' \in 0 .. MaxReq /\ down' \in Seq(Seq(Token))
    BY <1>13, <2>1, ServeTypes DEF Deliver, Undeliverable
  <2> QED
    BY <1>13, <2>1, <2>3, <2>4 DEF Deliver, Undeliverable, client
<1>14. CASE Forward
  BY <1>14, ForwardTypes DEF Forward, client
<1>15. CASE UNCHANGED vars
  BY <1>15 DEF vars, client, module
<1> QED
  BY <1>1, <1>2, <1>3, <1>4, <1>5, <1>6, <1>7, <1>8, <1>9, <1>10, <1>11, <1>12, <1>13,
     <1>14, <1>15 DEF Next, Step

-----------------------------------------------------------------------------
(* Confirmations                                                             *)

LEMMA AgeLemma ==
  ASSUME NEW at \in 0 .. MaxId, NEW id \in 1 .. MaxId
  PROVE  /\ Age(id, at) \in Nat
         /\ id = at => Age(id, at) = 0
         /\ Age(id, at) + 1 < MaxId => Age(id, NextId(at)) = Age(id, at) + 1
BY HttpAssumption DEF Age, NextId

\* Frames on their way have an id.
LEMMA IdLemma ==
  ASSUME ModuleTypes
  PROVE  /\ \A k \in DOMAIN air : air[k].id \in 1 .. MaxId
         /\ \A k \in DOMAIN up : Status(k) => up[k].id \in 1 .. MaxId
         /\ Len(air) \in Nat /\ DOMAIN air = 1 .. Len(air)
         /\ Len(up) \in Nat /\ DOMAIN up = 1 .. Len(up)
         /\ air = << >> <=> Len(air) = 0
<1>1. \A k \in DOMAIN air : air[k] \in Sent
  BY LenProperties DEF ModuleTypes
<1>2. \A k \in DOMAIN up : up[k] \in Frame
  BY LenProperties DEF ModuleTypes
<1>3. \A k \in DOMAIN up : Status(k) => up[k].id \in 1 .. MaxId
  BY <1>2 DEF Status, Frame
<1>4. air = << >> <=> Len(air) = 0
  BY EmptySeq DEF ModuleTypes
<1> QED
  BY <1>1, <1>3, <1>4, LenProperties DEF ModuleTypes, Sent

\* A frame is sent when all others on their way are given up.
LEMMA TransmitSend ==
  ASSUME ClientTypes, ModuleTypes,
         NEW r \in Requests, req' = r,
         NEW p \in {"head", "body"}, Transmit(p, r, p),
         UNCHANGED <<up, got>>,
         \A k \in DOMAIN air : Age(air[k].id, frameId) + 1 < r,
         \A k \in DOMAIN up : Status(k) => Age(up[k].id, frameId) + 1 < r
  PROVE  /\ \/ send'.state = "WAIT" /\ pc' = p
            \/ send'.state = "ERROR" /\ pc' = "idle"
         /\ Waiting' /\ Settled' /\ Left'
<1>0. frameId \in 0 .. MaxId /\ frameId' = NextId(frameId) /\ frameId' \in 1 .. MaxId
      /\ r \in 1 .. MaxReq
  BY NextIdLemma DEF ClientTypes, Transmit, Write, WriteFails, Requests
<1>1. ASSUME NEW id \in 1 .. MaxId, Age(id, frameId) + 1 < r
      PROVE  Age(id, frameId') \in 1 .. r - 1 /\ Age(id, frameId') < r
  <2>1. Age(id, frameId) \in Nat /\ Age(id, frameId) + 1 < MaxId
    BY <1>0, <1>1, AgeLemma, IdAssumption, HttpAssumption
  <2> QED
    BY <1>0, <1>1, <2>1, AgeLemma
<1>2. \A k \in DOMAIN up : Status(k) =>
        Age(up[k].id, frameId') \in 1 .. r - 1 /\ Age(up[k].id, frameId') < r
  BY <1>1, IdLemma
<1>3. \A k \in DOMAIN air :
        Age(air[k].id, frameId') \in 1 .. r - 1 /\ Age(air[k].id, frameId') < r
  BY <1>1, IdLemma
<1>4. CASE send' = [state |-> "WAIT", frameId |-> NextId(frameId)] /\ Write(p, r) /\ pc' = p
  <2> DEFINE f == [id |-> frameId', part |-> p, req |-> r]
  <2>1. air' = Append(air, f)
    BY <1>4 DEF Write
  <2>2. f \in Sent
    BY <1>0 DEF Sent
  <2>3. /\ \A k \in DOMAIN air : air'[k] = air[k]
        /\ air'[Len(air) + 1] = f
        /\ Len(air') = Len(air) + 1 /\ air' \in Seq(Sent)
    <3> HIDE DEF f
    <3> QED
      BY <2>1, <2>2, AppendProperties, LenProperties DEF ModuleTypes
  <2>4. DOMAIN air' = DOMAIN air \cup {Len(air')}
    BY <2>3, LenProperties, IdLemma
  <2>5. \A k \in DOMAIN air' :
          \/ Age(air'[k].id, frameId') \in 1 .. req' - 1
          \/ k = Len(air') /\ air'[k].id = frameId' /\ air'[k].req = req' /\ air'[k].part = pc'
    BY <1>3, <1>4, <2>3, <2>4
  <2>6. send'.state = "WAIT" /\ send'.frameId = frameId'
    BY <1>0, <1>4
  <2>7. \A k \in DOMAIN up' : Status(k)' => Age(up'[k].id, frameId') \in 1 .. req' - 1
    BY <1>2 DEF Status
  <2>8. Waiting'
    BY <1>0, <2>5, <2>6, <2>7 DEF Waiting, Stale
  <2>9. Settled' /\ Left'
    BY <2>6 DEF Settled, Left
  <2> QED
    BY <1>4, <2>6, <2>8, <2>9
<1>5. CASE send' = [state |-> "ERROR", frameId |-> NextId(frameId)] /\ WriteFails /\ pc' = "idle"
  BY <1>2, <1>3, <1>5 DEF Waiting, Settled, Left, Status, WriteFails
<1> QED
  BY <1>4, <1>5 DEF Transmit

\* A request begins.
LEMMA ConnectSend ==
  ASSUME ClientTypes, ModuleTypes, SendInv, Connect
  PROVE  SendInv'
<1>1. req' = req + 1 /\ req' \in Requests /\ Transmit("head", req', "head")
      /\ UNCHANGED <<up, got>> /\ req \in Nat /\ pc = "idle"
  <2>1. req \in 0 .. MaxReq /\ req < MaxReq /\ req' = req + 1
    BY DEF Connect, ClientTypes
  <2>2. req' \in Requests /\ req \in Nat
    BY <2>1, HttpAssumption DEF Requests
  <2> QED
    BY <2>1, <2>2 DEF Connect
<1>2. send.state \in {"NONE", "ERROR", "DONE"}
  BY <1>1 DEF SendInv, Position, Sending, ClientTypes
<1>3. /\ \A k \in DOMAIN air : Age(air[k].id, frameId) < req
      /\ \A k \in DOMAIN up : Status(k) => Age(up[k].id, frameId) < req
  BY <1>2 DEF SendInv, Settled, Left
<1>4. /\ \A k \in DOMAIN air : Age(air[k].id, frameId) + 1 < req'
      /\ \A k \in DOMAIN up : Status(k) => Age(up[k].id, frameId) + 1 < req'
  <2>1. \A id \in 1 .. MaxId : Age(id, frameId) \in Nat
    BY AgeLemma DEF ClientTypes
  <2> QED
    BY <1>1, <1>3, <2>1, IdLemma
<1>5. /\ \/ send'.state = "WAIT" /\ pc' = "head"
         \/ send'.state = "ERROR" /\ pc' = "idle"
      /\ Waiting' /\ Settled' /\ Left'
  BY <1>1, <1>4, TransmitSend
<1>6. Position' /\ SendMeansDelivered'
  BY <1>1, <1>5 DEF Position, SendMeansDelivered, Sending
<1> QED
  BY <1>5, <1>6 DEF SendInv

\* The body is sent, or a frame is sent again.
LEMMA AgainSend ==
  ASSUME ClientTypes, ModuleTypes, SendInv, HeadDone \/ Resend
  PROVE  SendInv'
<1>1. PICK p \in {"head", "body"} :
        /\ Transmit(p, req, p)
        /\ \/ pc = "head" /\ p = "body" /\ send.state = "DONE"
           \/ pc = p /\ send.state = "RESEND"
  <2>1. CASE HeadDone
    BY <2>1 DEF HeadDone
  <2>2. CASE Resend
    BY <2>2 DEF Resend, Sending
  <2> QED
    BY <2>1, <2>2
<1>2. req \in Requests /\ req' = req /\ req > 0 /\ UNCHANGED <<up, got>>
  BY DEF HeadDone, Resend, SendInv, Position, Sending, ClientTypes, Requests
<1>3. air = << >> /\ \A k \in DOMAIN up : ~Status(k)
  BY <1>1 DEF SendInv, Settled
<1>4. /\ \/ send'.state = "WAIT" /\ pc' = p
         \/ send'.state = "ERROR" /\ pc' = "idle"
      /\ Waiting' /\ Settled' /\ Left'
  <2>1. \A k \in DOMAIN air : FALSE
    BY <1>3
  <2> QED
    BY <1>1, <1>2, <1>3, <2>1, TransmitSend
<1>5. Position'
  BY <1>2, <1>4 DEF Position, Sending
<1>6. SendMeansDelivered'
  BY <1>1, <1>2, <1>4 DEF SendMeansDelivered, SendInv, Position, Sending
<1> QED
  BY <1>4, <1>5, <1>6 DEF SendInv

\* A request gives up: what it waited for is left over.
LEMMA GiveUpSend ==
  ASSUME ClientTypes, ModuleTypes, SendInv, SendTimesOut \/ SendGivesUp
  PROVE  SendInv'
<1>1. /\ pc' = "idle" /\ send'.state = "ERROR" /\ req > 0 /\ req \in Nat
      /\ UNCHANGED <<req, frameId, air, up, got>> /\ frameId \in 0 .. MaxId
      /\ send.state \in {"WAIT", "RESEND", "DONE"}
  BY DEF SendTimesOut, SendGivesUp, Return, module, ClientTypes, SendInv, Position
<1>2. \A id \in 1 .. MaxId : Stale(id) \/ id = frameId => Age(id, frameId) < req
  BY <1>1, AgeLemma DEF Stale
<1>3. /\ \A k \in DOMAIN air : Age(air[k].id, frameId) < req
      /\ \A k \in DOMAIN up : Status(k) => Age(up[k].id, frameId) < req
  <2>1. CASE send.state = "WAIT"
    BY <1>2, <2>1, IdLemma DEF SendInv, Waiting
  <2>2. CASE send.state \in {"RESEND", "DONE"}
    BY <2>2 DEF SendInv, Settled
  <2> QED
    BY <1>1, <2>1, <2>2
<1>4. Left'
  BY <1>1, <1>3 DEF Left, Status
<1>5. Position' /\ Waiting' /\ Settled' /\ SendMeansDelivered'
  BY <1>1 DEF Position, Waiting, Settled, SendMeansDelivered, Sending
<1> QED
  BY <1>4, <1>5 DEF SendInv

\* The client moves on, or stays.
LEMMA MoveSend ==
  ASSUME SendInv,
         UNCHANGED <<req, frameId, send, air, up, got>>,
         \/ pc' = pc
         \/ pc = "body" /\ send.state = "DONE" /\ pc' = "recv"
         \/ pc = "recv" /\ pc' = "idle"
  PROVE  SendInv'
<1>1. CASE pc' = pc
  BY <1>1 DEF SendInv, Position, Waiting, Settled, Left, SendMeansDelivered, Sending, Stale, Status
<1>2. CASE pc' # pc
  <2>1. send.state = "DONE"
    BY <1>2 DEF SendInv, Position
  <2>2. Waiting' /\ Left'
    BY <2>1 DEF Waiting, Left
  <2>3. Settled'
    BY DEF Settled, Status, SendInv
  <2>4. Position' /\ SendMeansDelivered'
    BY <1>2, <2>1 DEF SendInv, Position, SendMeansDelivered, Sending
  <2> QED
    BY <2>2, <2>3, <2>4 DEF SendInv
<1> QED
  BY <1>1, <1>2

\* A piece of a response joins the frames from the XBee.
LEMMA ForwardSend ==
  ASSUME ModuleTypes, SendInv, Forward
  PROVE  SendInv'
<1>1. /\ UNCHANGED <<pc, req, frameId, send, air, got>>
      /\ \E x : up' = Append(up, [type |-> "IPV4", payload |-> x])
  BY DEF Forward, client
<1>2. PICK x : up' = Append(up, [type |-> "IPV4", payload |-> x])
  BY <1>1
<1> DEFINE f == [type |-> "IPV4", payload |-> x]
<1>3. /\ DOMAIN up' = DOMAIN up \cup {Len(up) + 1}
      /\ \A k \in DOMAIN up : up'[k] = up[k] /\ k < Len(up) + 1
      /\ up'[Len(up) + 1] = f
  <2>1. up \in Seq(Frame \cup {f})
    BY SeqMonotonic DEF ModuleTypes
  <2>2. up' = Append(up, f)
    BY <1>2
  <2>3. up' \in Seq(Frame \cup {f}) /\ Len(up') = Len(up) + 1 /\ Len(up) \in Nat
        /\ (\A k \in 1 .. Len(up) : up'[k] = up[k]) /\ up'[Len(up) + 1] = f
    <3> HIDE DEF f
    <3> QED
      BY <2>1, <2>2, AppendProperties, LenProperties
  <2>4. DOMAIN up' = 1 .. Len(up) + 1 /\ DOMAIN up = 1 .. Len(up)
    BY <2>1, <2>3, LenProperties
  <2> HIDE DEF f
  <2> QED
    BY <2>3, <2>4
<1>4. /\ \A k \in DOMAIN up' : Status(k)' <=> k \in DOMAIN up /\ Status(k)
      /\ \A k \in DOMAIN up : up'[k] = up[k]
  BY <1>3 DEF Status
<1>5. Waiting'
  BY <1>1, <1>3, <1>4 DEF SendInv, Waiting, Stale
<1>6. Settled' /\ Left'
  BY <1>1, <1>3, <1>4 DEF SendInv, Settled, Left
<1>7. Position' /\ SendMeansDelivered'
  BY <1>1 DEF SendInv, Position, SendMeansDelivered, Sending
<1> QED
  BY <1>5, <1>6, <1>7 DEF SendInv

\* A confirmation is for the frame waited for, or too old to be taken for it.
LEMMA DispatchSend ==
  ASSUME ClientTypes, ModuleTypes, SendInv, Dispatch
  PROVE  SendInv'
<1>1. /\ UNCHANGED <<pc, req, frameId, air, got>>
      /\ up # << >> /\ up' = Tail(up)
      /\ \/ Head(up).type = "TX_STATUS" /\ StatusHandler(Head(up).id, Head(up).delivery)
         \/ UNCHANGED send
  BY DEF Dispatch
<1>2. /\ Len(up) \in Nat \ {0} /\ DOMAIN up = 1 .. Len(up) /\ Head(up) = up[1]
      /\ DOMAIN up' = 1 .. Len(up) - 1
      /\ \A k \in DOMAIN up' : up'[k] = up[k + 1]
  <2>1. Tail(up) \in Seq(Frame) /\ Len(Tail(up)) = Len(up) - 1
        /\ (\A i \in 1 .. Len(Tail(up)) : Tail(up)[i] = up[i + 1])
    BY <1>1, HeadTailProperties DEF ModuleTypes
  <2>2. DOMAIN Tail(up) = 1 .. Len(Tail(up))
    BY <2>1, LenProperties
  <2>3. Len(up) \in Nat \ {0} /\ DOMAIN up = 1 .. Len(up) /\ Head(up) = up[1]
    BY <1>1, EmptySeq, LenProperties DEF ModuleTypes
  <2> QED
    BY <1>1, <2>1, <2>2, <2>3
<1>3. \A k \in DOMAIN up' :
        /\ k + 1 \in DOMAIN up /\ k \in Nat
        /\ up'[k] = up[k + 1]
        /\ Status(k)' <=> Status(k + 1)
  BY <1>2 DEF Status
<1>4. CASE UNCHANGED send
  <2>1. Waiting'
    <3>1. SUFFICES ASSUME send.state = "WAIT" PROVE Waiting'
      BY <1>4 DEF Waiting
    <3>2. ASSUME NEW k \in DOMAIN up', Status(k)', ~Stale(up'[k].id)
          PROVE  /\ up'[k].id = frameId /\ air = << >>
                 /\ \A j \in DOMAIN up' : Status(j)' => j <= k
                 /\ up'[k].delivery = "success" => <<req, pc>> \in got
      <4>1. k + 1 \in DOMAIN up /\ Status(k + 1) /\ up'[k] = up[k + 1] /\ k \in Nat
        BY <1>3, <3>2
      <4>2. /\ up[k + 1].id = frameId /\ air = << >>
            /\ \A j \in DOMAIN up : Status(j) => j <= k + 1
            /\ up[k + 1].delivery = "success" => <<req, pc>> \in got
        BY <3>1, <3>2, <4>1 DEF SendInv, Waiting
      <4>3. \A j \in DOMAIN up' : Status(j)' => j <= k
        BY <1>3, <4>1, <4>2
      <4> QED
        BY <4>1, <4>2, <4>3
    <3> QED
      BY <1>1, <1>4, <3>1, <3>2 DEF SendInv, Waiting, Stale
  <2>2. Settled' /\ Left'
    BY <1>1, <1>3, <1>4 DEF SendInv, Settled, Left
  <2>3. Position' /\ SendMeansDelivered'
    BY <1>1, <1>4 DEF SendInv, Position, SendMeansDelivered, Sending
  <2> QED
    BY <2>1, <2>2, <2>3 DEF SendInv
<1>5. CASE /\ up[1].type = "TX_STATUS" /\ send.state = "WAIT" /\ send.frameId = up[1].id
           /\ send' = [send EXCEPT !.state = IF up[1].delivery = "success"
                                             THEN "DONE" ELSE "RESEND"]
  <2>1. Status(1) /\ 1 \in DOMAIN up /\ up[1].id = frameId
    BY <1>2, <1>5 DEF Status, SendInv, Waiting
  <2>2. ~Stale(up[1].id)
    BY <2>1, IdLemma, AgeLemma DEF Stale, ClientTypes
  <2>3. /\ air = << >>
        /\ \A j \in DOMAIN up : Status(j) => j <= 1
        /\ up[1].delivery = "success" => <<req, pc>> \in got
    BY <1>5, <2>1, <2>2 DEF SendInv, Waiting
  <2>4. \A k \in DOMAIN up' : ~Status(k)'
    <3>1. \A k \in DOMAIN up' : k + 1 > 1
      BY <1>2
    <3> QED
      BY <1>3, <2>3, <3>1
  <2>5. /\ send'.state \in {"DONE", "RESEND"}
        /\ send'.state = "DONE" => <<req, pc>> \in got
    BY <1>5, <2>3 DEF ClientTypes
  <2>6. Waiting' /\ Settled' /\ Left'
    BY <1>1, <2>3, <2>4, <2>5 DEF Waiting, Settled, Left
  <2>7. Sending /\ req > 0
    BY <1>5 DEF SendInv, Position
  <2>8. Position' /\ SendMeansDelivered'
    BY <1>1, <2>5, <2>7 DEF SendInv, Position, SendMeansDelivered, Sending
  <2> QED
    BY <2>6, <2>8 DEF SendInv
<1> QED
  BY <1>1, <1>2, <1>4, <1>5 DEF StatusHandler

\* The XBee confirms the frames in the order in which it got them.
LEMMA ConfirmSend ==
  ASSUME ClientTypes, ModuleTypes, SendInv, Deliver \/ Undeliverable
  PROVE  SendInv'
<1>1. /\ UNCHANGED <<pc, req, frameId, send>>
      /\ air # << >> /\ air' = Tail(air)
      /\ got \subseteq got'
  BY DEF Deliver, Undeliverable, client
<1> DEFINE h == Head(air)
<1>2. /\ Len(air) \in Nat \ {0} /\ DOMAIN air = 1 .. Len(air) /\ h = air[1] /\ h \in Sent
      /\ Len(air') = Len(air) - 1 /\ DOMAIN air' = 1 .. Len(air) - 1
      /\ \A k \in DOMAIN air' : air'[k] = air[k + 1]
      /\ Len(air) = 1 => air' = << >>
  <2>1. Tail(air) \in Seq(Sent) /\ Len(Tail(air)) = Len(air) - 1
        /\ (\A i \in 1 .. Len(Tail(air)) : Tail(air)[i] = air[i + 1]) /\ h \in Sent
    BY <1>1, HeadTailProperties DEF ModuleTypes
  <2>2. DOMAIN Tail(air) = 1 .. Len(Tail(air))
    BY <2>1, LenProperties
  <2>3. Len(air) \in Nat \ {0} /\ DOMAIN air = 1 .. Len(air) /\ h = air[1]
    BY <1>1, EmptySeq, LenProperties DEF ModuleTypes
  <2>4. Len(Tail(air)) = 0 => Tail(air) = << >>
    BY <2>1, EmptySeq
  <2> QED
    BY <1>1, <2>1, <2>2, <2>3, <2>4
<1>3. PICK d \in Deliveries :
        /\ Confirm(h, d)
        /\ d = "success" => <<h.req, h.part>> \in got'
  <2>1. CASE Deliver
    BY <2>1 DEF Deliver, Deliveries
  <2>2. CASE Undeliverable
    BY <2>2 DEF Undeliverable, Deliveries
  <2> QED
    BY <2>1, <2>2
<1> DEFINE c == [type |-> "TX_STATUS", id |-> h.id, delivery |-> d]
<1>0. PICK n \in Nat : n = Len(up) + 1
  BY IdLemma
<1>4. /\ DOMAIN up' = DOMAIN up \cup {n} /\ n \in Nat
      /\ \A k \in DOMAIN up : up'[k] = up[k] /\ k < n
      /\ up'[n] = c
  <2>1. c \in Frame
    BY <1>2 DEF Frame, Sent
  <2>2. up' = Append(up, c)
    BY <1>3 DEF Confirm
  <2>3. up' \in Seq(Frame) /\ Len(up') = Len(up) + 1 /\ Len(up) \in Nat
        /\ (\A k \in 1 .. Len(up) : up'[k] = up[k]) /\ up'[Len(up) + 1] = c
    <3> HIDE DEF c
    <3> QED
      BY <2>1, <2>2, AppendProperties, LenProperties DEF ModuleTypes
  <2>4. DOMAIN up' = 1 .. Len(up) + 1 /\ DOMAIN up = 1 .. Len(up)
    BY <2>3, LenProperties DEF ModuleTypes
  <2> HIDE DEF c
  <2> QED
    BY <1>0, <2>3, <2>4
<1>5. \A k \in DOMAIN up : Status(k)' <=> Status(k)
  BY <1>4 DEF Status
<1>6. up'[n].id = h.id /\ up'[n].delivery = d /\ Status(n)'
  <2>1. c.id = h.id /\ c.delivery = d /\ c.type = "TX_STATUS"
    OBVIOUS
  <2>2. up'[n] = c
    BY <1>4
  <2>3. up'[n].type = "TX_STATUS"
    BY <2>1, <2>2
  <2> QED
    BY <2>1, <2>2, <2>3 DEF Status
<1> HIDE DEF c, h
<1>7. Waiting'
  <2> SUFFICES ASSUME send.state = "WAIT" PROVE Waiting'
    BY <1>1 DEF Waiting
  <2>0. Waiting /\ send.state = "WAIT"
    BY DEF SendInv
  <2>1. ASSUME NEW k \in DOMAIN air'
        PROVE  \/ Stale(air'[k].id)
               \/ /\ k = Len(air') /\ air'[k].id = frameId
                  /\ air'[k].req = req /\ air'[k].part = pc
    <3>1. k + 1 \in DOMAIN air /\ air'[k] = air[k + 1] /\ (k + 1 = Len(air) <=> k = Len(air'))
      BY <1>2
    <3> QED
      BY <2>0, <3>1 DEF Waiting
  <2>2. ASSUME NEW k \in DOMAIN up, Status(k)
        PROVE  Stale(up[k].id)
    BY <1>1, <2>0, <2>2 DEF Waiting
  <2>3. \/ Stale(h.id)
        \/ Len(air) = 1 /\ h.id = frameId /\ h.req = req /\ h.part = pc
    <3>1. 1 \in DOMAIN air /\ h = air[1]
      BY <1>2
    <3> QED
      BY <2>0, <3>1 DEF Waiting
  <2>4. ASSUME NEW k \in DOMAIN up', Status(k)'
        PROVE  \/ Stale(up'[k].id)
               \/ /\ up'[k].id = frameId
                  /\ air' = << >>
                  /\ \A j \in DOMAIN up' : Status(j)' => j <= k
                  /\ up'[k].delivery = "success" => <<req, pc>> \in got'
    <3>1. CASE k \in DOMAIN up
      BY <1>4, <1>5, <2>2, <2>4, <3>1
    <3>2. CASE k = n
      <4>1. \A j \in DOMAIN up' : j <= n
        BY <1>4, IdLemma
      <4>2. Len(air) = 1 => air' = << >>
        BY <1>2
      <4> QED
        BY <1>3, <1>6, <2>3, <3>2, <4>1, <4>2
    <3> QED
      BY <1>4, <3>1, <3>2
  <2> QED
    BY <1>1, <2>0, <2>1, <2>4 DEF Waiting, Stale
<1>8. Settled'
  BY <1>1 DEF SendInv, Settled
<1>9. Left'
  <2> SUFFICES ASSUME send.state \in {"NONE", "ERROR"} PROVE Left'
    BY <1>1 DEF Left
  <2>1. /\ \A k \in DOMAIN air : Age(air[k].id, frameId) < req
        /\ \A k \in DOMAIN up : Status(k) => Age(up[k].id, frameId) < req
    BY DEF SendInv, Left
  <2>2. Age(h.id, frameId) < req
    BY <1>2, <2>1
  <2>3. \A k \in DOMAIN air' : k + 1 \in DOMAIN air /\ air'[k] = air[k + 1]
    BY <1>2
  <2> QED
    BY <1>1, <1>4, <1>5, <1>6, <2>1, <2>2, <2>3 DEF Left
<1>10. Position' /\ SendMeansDelivered'
  BY <1>1 DEF SendInv, Position, SendMeansDelivered, Sending
<1> QED
  BY <1>7, <1>8, <1>9, <1>10 DEF SendInv

LEMMA SendStep ==
  ASSUME ClientTypes, ModuleTypes, SendInv, [Next]_vars
  PROVE  SendInv'
<1>1. CASE Connect
  BY <1>1, ConnectSend
<1>2. CASE HeadDone \/ Resend
  BY <1>2, AgainSend
<1>3. CASE SendTimesOut \/ SendGivesUp
  BY <1>3, GiveUpSend
<1>4. CASE Dispatch
  BY <1>4, DispatchSend
<1>5. CASE Deliver \/ Undeliverable
  BY <1>5, ConfirmSend
<1>6. CASE Forward
  BY <1>6, ForwardSend
<1>7. CASE SendTicksOn \/ RecvTicksOn \/ Expire
  BY <1>7, MoveSend DEF SendTicksOn, RecvTicksOn, Expire, module
<1>8. CASE BodyDone
  BY <1>8, MoveSend DEF BodyDone, module
<1>9. CASE RecvDone \/ RecvTimesOut \/ RecvFails
  BY <1>9, MoveSend DEF RecvDone, RecvTimesOut, RecvFails, Return, module
<1>10. CASE UNCHANGED vars
  BY <1>10, MoveSend DEF vars, client, module
<1> QED
  BY <1>1, <1>2, <1>3, <1>4, <1>5, <1>6, <1>7, <1>8, <1>9, <1>10 DEF Next, Step

-----------------------------------------------------------------------------
(* What a piece of a response does to the receiver                           *)

\* The bytes of a body behind the first a, up to the b-th.
Run(a, b) == [i \in 1 .. b - a |-> <<"body", a + i>>]

\* Run is a string of tokens of the length it should have.
LEMMA RunLemma ==
  ASSUME NEW a \in Nat, NEW b \in Nat, a <= b
  PROVE  /\ Run(a, b) \in Seq(Token) /\ Len(Run(a, b)) = b - a
         /\ \A i \in 1 .. b - a : Run(a, b)[i] = <<"body", a + i>>
<1>1. b - a \in Nat
  OBVIOUS
<1>2. PICK m \in Nat : m = b - a
  BY <1>1
<1>3. Run(a, b) \in [1 .. m -> Token]
  BY <1>2 DEF Run, Token
<1>4. Run(a, b) \in Seq(Token)
  BY <1>3, SeqDef
<1>5. Len(Run(a, b)) = m
  <2>1. DOMAIN Run(a, b) = 1 .. m /\ DOMAIN Run(a, b) = 1 .. Len(Run(a, b))
    BY <1>3, <1>4, LenProperties
  <2>2. Len(Run(a, b)) \in Nat
    BY <1>4, LenProperties
  <2>3. PICK l \in Nat : l = Len(Run(a, b))
    BY <2>2
  <2>4. 1 .. m = 1 .. l
    BY <2>1, <2>3
  <2>5. m = l
    <3>1. \A i \in Nat : i \in 1 .. m <=> i \in 1 .. l
      BY <2>4
    <3>2. m \in 1 .. m <=> m > 0
      OBVIOUS
    <3>3. l \in 1 .. l <=> l > 0
      OBVIOUS
    <3> QED
      BY <3>1, <3>2, <3>3
  <2> QED
    BY <2>3, <2>5
<1> QED
  BY <1>2, <1>4, <1>5 DEF Run

\* A whole body is the run from its first byte.
LEMMA BodyRun ==
  ASSUME NEW n \in Nat
  PROVE  Body(n) = Run(0, n) /\ Body(n) \in Seq(Token) /\ Len(Body(n)) = n
<1>1. 1 .. n - 0 = 1 .. n /\ \A i \in 1 .. n : 0 + i = i
  OBVIOUS
<1>2. Body(n) = Run(0, n)
  BY <1>1 DEF Body, Run
<1>3. Run(0, n) \in Seq(Token) /\ Len(Run(0, n)) = n - 0
  BY RunLemma
<1>4. n - 0 = n
  OBVIOUS
<1> QED
  BY <1>2, <1>3, <1>4

\* What was read of a body and the bytes behind it are what was read then.
LEMMA RunOfRuns ==
  ASSUME NEW a \in Nat, NEW b \in Nat, a <= b
  PROVE  Body(a) \o Run(a, b) = Body(b)
<1>1. /\ Body(a) \in Seq(Token) /\ Len(Body(a)) = a
      /\ Body(b) \in Seq(Token) /\ Len(Body(b)) = b
  BY BodyRun
<1>2. /\ Run(a, b) \in Seq(Token) /\ Len(Run(a, b)) = b - a
      /\ \A i \in 1 .. b - a : Run(a, b)[i] = <<"body", a + i>>
  BY RunLemma
<1>3. /\ Body(a) \o Run(a, b) \in Seq(Token)
      /\ Len(Body(a) \o Run(a, b)) = Len(Body(a)) + Len(Run(a, b))
      /\ \A i \in 1 .. Len(Body(a)) + Len(Run(a, b)) : (Body(a) \o Run(a, b))[i] =
           IF i <= Len(Body(a)) THEN Body(a)[i] ELSE Run(a, b)[i - Len(Body(a))]
  BY <1>1, <1>2, ConcatProperties
<1>4. a + (b - a) = b
  OBVIOUS
<1>5. \A i \in 1 .. b : (Body(a) \o Run(a, b))[i] = Body(b)[i]
  <2> SUFFICES ASSUME NEW i \in 1 .. b PROVE (Body(a) \o Run(a, b))[i] = Body(b)[i]
    OBVIOUS
  <2>1. Body(b)[i] = <<"body", i>>
    BY DEF Body
  <2>2. CASE i <= a
    <3>1. Body(a)[i] = <<"body", i>>
      BY <2>2 DEF Body
    <3> QED
      BY <1>1, <1>2, <1>3, <1>4, <2>1, <2>2, <3>1
  <2>3. CASE ~(i <= a)
    <3>1. i - a \in 1 .. b - a /\ a + (i - a) = i
      BY <2>3
    <3> QED
      BY <1>1, <1>2, <1>3, <1>4, <2>1, <2>3, <3>1
  <2> QED
    BY <2>2, <2>3
<1>6. Len(Body(a) \o Run(a, b)) = b
  BY <1>1, <1>2, <1>3, <1>4
<1> QED
  BY <1>1, <1>3, <1>5, <1>6, SeqEqual

\* The tokens of a response.
Tokens(f, code, n) ==
  /\ f \in Seq(Token) /\ Len(f) = 11 + n
  /\ f[1] = <<"status", code>> /\ f[4] = <<"length", n>> /\ f[7] = <<"other", 0>>
  /\ f[2] = CR /\ f[5] = CR /\ f[8] = CR /\ f[10] = CR
  /\ f[3] = LF /\ f[6] = LF /\ f[9] = LF /\ f[11] = LF
  /\ \A k \in 12 .. 11 + n : f[k] = <<"body", k - 11>>

\* A header token by token.
LEMMA HeaderTokens ==
  ASSUME NEW code \in Nat, NEW n \in Nat
  PROVE  LET h == HeaderPart(code, n)
         IN  /\ h \in Seq(Token) /\ Len(h) = 11
             /\ h[1] = <<"status", code>> /\ h[4] = <<"length", n>> /\ h[7] = <<"other", 0>>
             /\ h[2] = CR /\ h[5] = CR /\ h[8] = CR /\ h[10] = CR
             /\ h[3] = LF /\ h[6] = LF /\ h[9] = LF /\ h[11] = LF
<1>1. /\ StatusLine(code) \in Token /\ CR \in Token /\ LF \in Token
      /\ ContentLength(n) \in Token /\ OtherHeader \in Token
  BY DEF StatusLine, CR, LF, ContentLength, OtherHeader, Token
<1>2. HeaderPart(code, n) \in Seq(Token)
  <2> HIDE DEF Token
  <2> QED
    BY <1>1 DEF HeaderPart
<1> QED
  BY <1>2 DEF HeaderPart, StatusLine, ContentLength, OtherHeader

\* A response token by token.
LEMMA ResponseTokens ==
  ASSUME NEW code \in Nat, NEW n \in Nat
  PROVE  Tokens(Response(code, n), code, n)
<1> DEFINE h == HeaderPart(code, n)
           b == Body(n)
           f == h \o b
<1>1. h \in Seq(Token) /\ Len(h) = 11
  BY HeaderTokens
<1>2. /\ b \in Seq(Token) /\ Len(b) = n
      /\ \A i \in 1 .. n : b[i] = <<"body", i>>
  BY BodyRun DEF Body
<1> HIDE DEF h, b
<1>3. /\ f \in Seq(Token) /\ Len(f) = Len(h) + Len(b)
      /\ \A i \in 1 .. Len(h) + Len(b) : f[i] = IF i <= Len(h) THEN h[i] ELSE b[i - Len(h)]
  BY <1>1, <1>2, ConcatProperties
<1> HIDE DEF f
<1>4. /\ Len(f) = 11 + n
      /\ \A k \in 1 .. 11 : f[k] = h[k]
      /\ \A k \in 12 .. 11 + n : f[k] = <<"body", k - 11>>
  <2>1. /\ \A k \in 1 .. 11 : k \in 1 .. 11 + n /\ k <= 11
        /\ \A k \in 12 .. 11 + n : k \in 1 .. 11 + n /\ ~(k <= 11) /\ k - 11 \in 1 .. n
    OBVIOUS
  <2>2. \A i \in 1 .. 11 + n : f[i] = IF i <= 11 THEN h[i] ELSE b[i - 11]
    BY <1>1, <1>2, <1>3
  <2>3. Len(f) = 11 + n
    BY <1>1, <1>2, <1>3
  <2>4. \A k \in 1 .. 11 : f[k] = h[k]
    BY <2>1, <2>2
  <2>5. \A k \in 12 .. 11 + n : f[k] = b[k - 11]
    BY <2>1, <2>2
  <2> QED
    BY <1>2, <2>1, <2>3, <2>4, <2>5
<1>5. /\ h[1] = <<"status", code>> /\ h[4] = <<"length", n>> /\ h[7] = <<"other", 0>>
      /\ h[2] = CR /\ h[5] = CR /\ h[8] = CR /\ h[10] = CR
      /\ h[3] = LF /\ h[6] = LF /\ h[9] = LF /\ h[11] = LF
  BY ZenonT(60), HeaderTokens DEF h
<1>6. /\ f[1] = h[1] /\ f[2] = h[2] /\ f[3] = h[3] /\ f[4] = h[4] /\ f[5] = h[5] /\ f[6] = h[6]
      /\ f[7] = h[7] /\ f[8] = h[8] /\ f[9] = h[9] /\ f[10] = h[10] /\ f[11] = h[11]
  BY <1>4
<1>7. Tokens(f, code, n)
  BY <1>3, <1>4, <1>5, <1>6 DEF Tokens
<1> QED
  BY <1>7 DEF f, h, b, Response

\* The bytes of a response behind the first i, up to the j-th.
Piece(code, n, i, j) == SubSeq(Response(code, n), i + 1, j)

\* f is that piece of the response p.
Slice(f, p, i, j) ==
  f \in Seq(Token) /\ Len(f) = j - i /\ \A k \in 1 .. j - i : f[k] = p[i + k]

\* It is what its name says.
LEMMA PieceLemma ==
  ASSUME NEW code \in Nat, NEW n \in Nat, NEW i \in Nat, NEW j \in Nat, i < j, j <= 11 + n
  PROVE  Slice(Piece(code, n, i, j), Response(code, n), i, j)
<1>1. PICK p : p = Response(code, n)
  OBVIOUS
<1>2. p \in Seq(Token) /\ Len(p) = 11 + n
  BY <1>1, ResponseTokens DEF Tokens
<1>3. \A k \in i + 1 .. j : p[k] \in Token
  <2>1. \A k \in i + 1 .. j : k \in 1 .. Len(p)
    BY <1>2
  <2> QED
    BY <1>2, <2>1, ElementOfSeq
<1>4. /\ SubSeq(p, i + 1, j) \in Seq(Token)
      /\ Len(SubSeq(p, i + 1, j)) = IF i + 1 <= j THEN j - (i + 1) + 1 ELSE 0
      /\ \A k \in 1 .. j - (i + 1) + 1 : SubSeq(p, i + 1, j)[k] = p[i + 1 + k - 1]
  <2>1. i + 1 \in Int /\ j \in Int
    OBVIOUS
  <2> QED
    BY <1>3, <2>1, SubSeqProperties
<1>5. i + 1 <= j /\ j - (i + 1) + 1 = j - i /\ \A k \in 1 .. j - i : i + 1 + k - 1 = i + k
  OBVIOUS
<1> QED
  BY <1>1, <1>4, <1>5 DEF Slice, Piece

\* A piece cut in two.
LEMMA PieceCut ==
  ASSUME NEW code \in Nat, NEW n \in Nat, NEW i \in Nat, i < 11 + n,
         NEW k \in 1 .. 11 + n - i
  PROVE  LET h == Piece(code, n, i, 11 + n)
         IN  /\ SubSeq(h, 1, k) = Piece(code, n, i, i + k)
             /\ SubSeq(h, k + 1, Len(h)) = Piece(code, n, i + k, 11 + n)
<1>1. PICK p : p = Response(code, n)
  OBVIOUS
<1>2. p \in Seq(Token) /\ Len(p) = 11 + n
  BY <1>1, ResponseTokens DEF Tokens
<1>3. PICK l \in Nat : l = 11 + n
  OBVIOUS
<1>4. PICK h : h = SubSeq(p, i + 1, l)
  OBVIOUS
<1>5. h = Piece(code, n, i, 11 + n) /\ Len(h) = l - i
  <2>1. h = Piece(code, n, i, 11 + n)
    BY <1>1, <1>3, <1>4 DEF Piece
  <2>2. 11 + n \in Nat /\ 11 + n <= 11 + n
    OBVIOUS
  <2>3. Slice(Piece(code, n, i, 11 + n), Response(code, n), i, 11 + n)
    BY <2>2, PieceLemma
  <2> QED
    BY <1>3, <2>1, <2>3 DEF Slice
<1>6. i + 1 \in 1 .. Len(p) /\ l \in 1 .. Len(p) /\ l - (i + 1) + 1 = l - i /\ k \in 1 .. l - i
  BY <1>2, <1>3
<1>7. SubSeq(h, 1, k) = SubSeq(p, i + 1, i + k)
  <2>1. 1 \in 1 .. l - (i + 1) + 1 /\ k \in 1 .. l - (i + 1) + 1
    BY <1>6
  <2>2. SubSeq(SubSeq(p, i + 1, l), 1, k) = SubSeq(p, i + 1 + 1 - 1, i + 1 + k - 1)
    BY <1>2, <1>6, <2>1, SubSeqOfSubSeq
  <2>3. i + 1 + 1 - 1 = i + 1 /\ i + 1 + k - 1 = i + k
    OBVIOUS
  <2> QED
    BY <1>4, <2>2, <2>3
<1>8. SubSeq(h, k + 1, l - i) = SubSeq(p, i + k + 1, l)
  <2>1. CASE k = l - i
    <3>1. l - i < k + 1 /\ l < i + k + 1
      BY <1>3, <2>1
    <3>2. k + 1 \in Int /\ l - i \in Int /\ i + k + 1 \in Int /\ l \in Int
      BY <1>3
    <3> QED
      BY <3>1, <3>2, SubSeqEmpty
  <2>2. CASE k # l - i
    <3>1. k + 1 \in 1 .. l - (i + 1) + 1 /\ l - i \in 1 .. l - (i + 1) + 1
      BY <1>3, <1>6, <2>2
    <3>2. SubSeq(SubSeq(p, i + 1, l), k + 1, l - i) = SubSeq(p, i + 1 + (k + 1) - 1, i + 1 + (l - i) - 1)
      BY <1>2, <1>6, <3>1, SubSeqOfSubSeq
    <3>3. i + 1 + (k + 1) - 1 = i + k + 1 /\ i + 1 + (l - i) - 1 = l
      BY <1>3
    <3> QED
      BY <1>4, <3>2, <3>3
  <2> QED
    BY <2>1, <2>2
<1>9. SubSeq(h, 1, k) = Piece(code, n, i, i + k)
  BY <1>1, <1>7 DEF Piece
<1>10. SubSeq(h, k + 1, Len(h)) = Piece(code, n, i + k, 11 + n)
  BY <1>1, <1>3, <1>5, <1>8 DEF Piece
<1> QED
  BY <1>5, <1>9, <1>10

\* Where the receiver can go on when a response ends there for now: behind the
\* status line, behind a header line if a body is to come, in the body.
Ends(n) == {3} \cup (IF n > 0 THEN {6, 9} ELSE {}) \cup (11 .. 11 + n)

\* The receiver has the first j bytes of the response.
Holds(q, code, n, j) ==
  /\ q.status = code
  /\ q.contentLength = IF j = 3 THEN 0 ELSE n
  /\ q.state = IF j < 11 THEN "HEADER" ELSE IF j = 11 + n THEN "DONE" ELSE "BODY"
  /\ q.buf = IF j < 11 THEN << >> ELSE Body(j - 11)

\* The least and the greatest of one number.
LEMMA OnlyLemma ==
  ASSUME NEW n \in Nat
  PROVE  Min({n}) = n /\ Max({n}) = n
<1> DEFINE S == {n}
<1>1. IsFiniteSet(S)
  BY FS_Singleton
<1>2. S \in SUBSET Int /\ S # {} /\ \A x \in S : x = n
  OBVIOUS
<1> HIDE DEF S
<1>3. Min(S) \in S /\ Max(S) \in S
  BY <1>1, <1>2, MinLemma, MaxLemma
<1>4. Min(S) = n /\ Max(S) = n
  BY <1>2, <1>3
<1> QED
  BY <1>4 DEF S

\* Where headerToString finds a CR in a piece that ends where the receiver can go on.
LEMMA SliceCrs ==
  ASSUME NEW code \in Nat, NEW n \in Nat, NEW p, Tokens(p, code, n),
         NEW i \in Nat, NEW j \in Ends(n), i < j, NEW f, Slice(f, p, i, j),
         NEW q \in Nat, i < q
  PROVE  \A k \in Int : k \in CrsFrom(f, q - i) <=>
           k + i \in {2, 5, 8, 10} /\ q <= k + i /\ k + i <= j
<1>0. j \in Nat /\ j <= 11 + n
  BY DEF Ends
<1>1. \A x \in 1 .. 11 + n : p[x] = CR <=> x \in {2, 5, 8, 10}
  <2> SUFFICES ASSUME NEW x \in 1 .. 11 + n PROVE p[x] = CR <=> x \in {2, 5, 8, 10}
    OBVIOUS
  <2>1. CASE x \in 12 .. 11 + n
    BY SMTT(30), <2>1 DEF Tokens, CR
  <2>2. CASE x \in 1 .. 11
    BY <2>2 DEF Tokens, CR, LF
  <2> QED
    BY <2>1, <2>2
<1>2. Len(f) = j - i /\ \A k \in 1 .. j - i : f[k] = p[i + k]
  BY DEF Slice
<1> TAKE k \in Int
<1>3. k \in CrsFrom(f, q - i) <=> k \in q - i .. j - i /\ f[k] = CR
  BY <1>2 DEF CrsFrom
<1>4. k \in q - i .. j - i <=> q <= k + i /\ k + i <= j
  BY <1>0
<1>5. ASSUME q <= k + i, k + i <= j
      PROVE  f[k] = CR <=> k + i \in {2, 5, 8, 10}
  <2>1. k \in 1 .. j - i /\ i + k \in 1 .. 11 + n /\ i + k = k + i
    BY <1>0, <1>5
  <2> QED
    BY <1>1, <1>2, <2>1
<1> QED
  BY <1>3, <1>4, <1>5

\* What the header loop sees from s on of a piece from the i-th to the j-th byte,
\* where s is behind the first q bytes.
LinesOf(f, s, q, n, i, j) ==
  /\ LengthsAt(f, HeaderLines(f, s)) = IF q = 3 THEN {n} ELSE {}
  /\ j < 11 => EmptyLines(f, s) = {} /\ BodyStart(f, s) = j + 1 - i
  /\ j >= 11 => EmptyLines(f, s) # {} /\ BodyStart(f, s) = 12 - i

\* So it does for every piece that ends where the receiver can go on.
LEMMA SliceLines ==
  ASSUME NEW code \in Nat, NEW n \in Nat, NEW p, Tokens(p, code, n),
         NEW q \in {3, 6, 9}, NEW i \in Nat, i <= q, NEW j \in Ends(n), q < j,
         NEW f, Slice(f, p, i, j), NEW s \in Int, s = q + 1 - i
  PROVE  LinesOf(f, s, q, n, i, j)
<1>0. /\ j \in Nat /\ j <= 11 + n /\ i < j /\ (j < 11 => j \in {6, 9})
  BY DEF Ends
<1>1. ASSUME NEW y \in Nat, i < y, NEW k \in Int
      PROVE  k \in CrsFrom(f, y - i) <=> k + i \in {2, 5, 8, 10} /\ y <= k + i /\ k + i <= j
  BY <1>0, <1>1, SliceCrs
<1>2. \A k \in Int : k \in CrsFrom(f, s) <=> k + i \in {5, 8, 10} /\ q < k + i /\ k + i <= j
  <2>1. q + 1 \in Nat /\ i < q + 1
    OBVIOUS
  <2>2. \A k \in Int : k \in CrsFrom(f, s) <=> k + i \in {2, 5, 8, 10} /\ q + 1 <= k + i /\ k + i <= j
    BY <1>1, <2>1
  <2> QED
    BY <2>2
<1>3. f \in Seq(Token) /\ Len(f) = j - i /\ \A k \in 1 .. j - i : f[k] = p[i + k]
  BY DEF Slice
<1>4. CrsFrom(f, s) \subseteq Int
  BY <1>0, <1>3 DEF CrsFrom
<1>5. \A k \in Int : k \in LineStarts(f, s) <=>
        k + i = q + 1 \/ (k + i \in {7, 10, 12} /\ q < k + i - 2 /\ k + i - 2 <= j)
  <2> SUFFICES ASSUME NEW k \in Int
               PROVE  k \in LineStarts(f, s) <=>
                        k + i = q + 1 \/ (k + i \in {7, 10, 12} /\ q < k + i - 2 /\ k + i - 2 <= j)
    OBVIOUS
  <2>1. k \in LineStarts(f, s) <=> k = s \/ k - 2 \in CrsFrom(f, s)
    BY <1>4 DEF LineStarts
  <2>2. k - 2 \in CrsFrom(f, s) <=> k - 2 + i \in {5, 8, 10} /\ q < k - 2 + i /\ k - 2 + i <= j
    BY <1>2
  <2> QED
    BY <2>1, <2>2
<1>6. LineStarts(f, s) \subseteq Int
  BY <1>4 DEF LineStarts
<1>7. \A k \in Int : k \in EmptyLines(f, s) <=> k + i = 10 /\ j >= 10
  BY <1>0, <1>2, <1>5 DEF EmptyLines
<1>8. EmptyLines(f, s) \subseteq Int
  BY <1>4 DEF EmptyLines
<1>9. j < 11 => EmptyLines(f, s) = {}
  BY <1>0, <1>7, <1>8
<1>10. j >= 11 => EmptyLines(f, s) = {10 - i}
  <2> SUFFICES ASSUME j >= 11 PROVE EmptyLines(f, s) = {10 - i}
    OBVIOUS
  <2>1. \A k \in Int : k \in EmptyLines(f, s) <=> k = 10 - i
    BY <1>0, <1>7
  <2> QED
    BY <1>8, <2>1
<1>11. \A k \in HeaderLines(f, s) : k \in Int /\ k + i \in {4, 7} /\ k + i > q /\ k + i < j
  <2> SUFFICES ASSUME NEW k \in HeaderLines(f, s)
               PROVE  k \in Int /\ k + i \in {4, 7} /\ k + i > q /\ k + i < j
    OBVIOUS
  <2>1. k \in LineStarts(f, s) /\ CrsFrom(f, k) # {} /\ \A e \in EmptyLines(f, s) : k < e
    BY DEF HeaderLines
  <2>2. k \in Int /\ k + i \in {4, 7, 10, 12} /\ k + i > q
    BY <1>5, <1>6, <2>1
  <2>3. CASE j >= 11
    <3>1. k < 10 - i
      BY <1>10, <2>1, <2>3
    <3>2. k + i < 10
      BY <2>2, <3>1
    <3> QED
      BY <1>0, <2>2, <2>3, <3>2
  <2>4. CASE j \in {6, 9}
    <3>1. PICK x : x \in CrsFrom(f, k)
      BY <2>1
    <3>2. x \in k .. j - i
      BY <1>3, <3>1 DEF CrsFrom
    <3>3. k + i <= j
      BY <1>0, <2>2, <3>2
    <3> QED
      BY <2>2, <2>4, <3>3
  <2> QED
    BY <1>0, <2>3, <2>4
<1>12. q = 3 => 4 - i \in HeaderLines(f, s)
  <2> SUFFICES ASSUME q = 3 PROVE 4 - i \in HeaderLines(f, s)
    OBVIOUS
  <2>1. 4 - i \in LineStarts(f, s)
    BY <1>5
  <2>2. 5 - i \in CrsFrom(f, 4 - i)
    <3>1. 5 - i \in Int /\ 5 - i + i = 5 /\ 5 <= j /\ s = 4 - i
      BY <1>0
    <3>2. 5 - i \in CrsFrom(f, s)
      BY <1>2, <3>1
    <3> QED
      BY <3>1, <3>2
  <2>3. \A e \in EmptyLines(f, s) : 4 - i < e
    BY <1>7, <1>8
  <2> QED
    BY <2>1, <2>2, <2>3 DEF HeaderLines
<1>13. LengthsAt(f, HeaderLines(f, s)) = IF q = 3 THEN {n} ELSE {}
  <2> DEFINE L == {k \in HeaderLines(f, s) : f[k][1] = "length"}
  <2>1. \A k \in HeaderLines(f, s) : f[k] = p[k + i]
    <3> SUFFICES ASSUME NEW k \in HeaderLines(f, s) PROVE f[k] = p[k + i]
      OBVIOUS
    <3>1. k \in 1 .. j - i /\ i + k = k + i
      BY <1>0, <1>11
    <3> QED
      BY <1>3, <3>1
  <2>2. p[4][1] = "length" /\ p[4][2] = n /\ p[7][1] = "other"
    BY DEF Tokens
  <2>3. \A k \in L : k = 4 - i /\ q = 3
    <3> SUFFICES ASSUME NEW k \in HeaderLines(f, s), f[k][1] = "length"
                 PROVE  k = 4 - i /\ q = 3
      OBVIOUS
    <3>1. k \in Int /\ k + i \in {4, 7} /\ k + i > q /\ f[k] = p[k + i]
      BY <1>11, <2>1
    <3>2. k + i # 7
      BY <2>2, <3>1
    <3> QED
      BY <3>1, <3>2
  <2>4. CASE q = 3
    <3>1. 4 - i \in HeaderLines(f, s) /\ 4 - i + i = 4
      BY <1>12, <2>4
    <3>2. f[4 - i] = p[4]
      BY <2>1, <3>1
    <3>3. L = {4 - i}
      BY <2>2, <2>3, <3>1, <3>2
    <3> QED
      BY <2>2, <2>4, <3>2, <3>3 DEF LengthsAt
  <2>5. CASE q # 3
    <3>1. L = {}
      BY <2>3, <2>5
    <3> QED
      BY <2>5, <3>1 DEF LengthsAt
  <2> QED
    BY <2>4, <2>5
<1>14. j >= 11 => BodyStart(f, s) = 12 - i
  <2> SUFFICES ASSUME j >= 11 PROVE BodyStart(f, s) = 12 - i
    OBVIOUS
  <2>1. EmptyLines(f, s) = {10 - i} /\ {10 - i} # {} /\ 10 - i \in Nat
    BY <1>10
  <2>2. Min({10 - i}) = 10 - i
    BY <2>1, OnlyLemma
  <2> QED
    BY <2>1, <2>2 DEF BodyStart
<1>15. j < 11 => BodyStart(f, s) = j + 1 - i
  <2> SUFFICES ASSUME j < 11 PROVE BodyStart(f, s) = j + 1 - i
    OBVIOUS
  <2>1. s \in Nat \ {0}
    OBVIOUS
  <2>2. IsFiniteSet(LineStarts(f, s))
    BY <1>3, <2>1, StartsLemma
  <2>3. j + 1 - i \in LineStarts(f, s) /\ j + 1 - i \in Int
    BY <1>0, <1>5
  <2>4. \A k \in LineStarts(f, s) : k <= j + 1 - i
    BY <1>0, <1>5, <1>6
  <2>5. PICK x : x = Max(LineStarts(f, s))
    OBVIOUS
  <2>6. x \in LineStarts(f, s) /\ \A k \in LineStarts(f, s) : x >= k
    <3>1. LineStarts(f, s) \in SUBSET Int /\ LineStarts(f, s) # {}
      BY <1>6, <2>3
    <3> QED
      BY <2>2, <2>5, <3>1, MaxLemma
  <2>7. x = j + 1 - i
    <3>1. x \in Int /\ x <= j + 1 - i /\ x >= j + 1 - i
      BY <1>6, <2>3, <2>4, <2>6
    <3> QED
      BY <2>3, <3>1
  <2> QED
    BY <1>9, <2>5, <2>7 DEF BodyStart
<1> QED
  BY <1>9, <1>10, <1>13, <1>14, <1>15 DEF LinesOf

\* What a piece has of the body, if it begins before it.
LEMMA SliceBody ==
  ASSUME NEW code \in Nat, NEW n \in Nat, NEW p, Tokens(p, code, n),
         NEW i \in Nat, i <= 11, NEW m \in Nat, m <= n, NEW j \in Nat, j = 11 + m,
         NEW f, Slice(f, p, i, j), NEW t \in Int, t = 12 - i
  PROVE  SubSeq(f, t, Len(f)) = Body(m)
<1>1. /\ f \in Seq(Token) /\ Len(f) = 11 + m - i
      /\ \A k \in 1 .. 11 + m - i : f[k] = p[i + k]
  BY DEF Slice
<1>2. PICK a \in Nat : a = 12 - i
  OBVIOUS
<1>3. PICK b \in Nat : b = 11 + m - i
  OBVIOUS
<1>4. b - a + 1 = m /\ a > 0 /\ (IF a <= b THEN b - a + 1 ELSE 0) = m
  BY <1>2, <1>3
<1>5. /\ SubSeq(f, a, b) \in Seq(Token) /\ Len(SubSeq(f, a, b)) = m
      /\ \A k \in 1 .. m : SubSeq(f, a, b)[k] = f[a + k - 1]
  <2>1. \A k \in a .. b : f[k] \in Token
    <3>1. \A k \in a .. b : k \in 1 .. Len(f)
      BY <1>1, <1>3, <1>4
    <3> QED
      BY <1>1, <3>1, ElementOfSeq
  <2>2. /\ SubSeq(f, a, b) \in Seq(Token)
        /\ Len(SubSeq(f, a, b)) = IF a <= b THEN b - a + 1 ELSE 0
        /\ \A k \in 1 .. b - a + 1 : SubSeq(f, a, b)[k] = f[a + k - 1]
    BY <2>1, SubSeqProperties
  <2> QED
    BY <1>4, <2>2
<1>6. Body(m) \in Seq(Token) /\ Len(Body(m)) = m /\ \A k \in 1 .. m : Body(m)[k] = <<"body", k>>
  BY BodyRun DEF Body
<1>7. ASSUME NEW k \in 1 .. m
      PROVE  SubSeq(f, a, b)[k] = Body(m)[k]
  <2>1. PICK x \in 12 .. 11 + n : x = 11 + k
    OBVIOUS
  <2>2. a + k - 1 \in 1 .. 11 + m - i /\ i + (a + k - 1) = x /\ x - 11 = k
    BY <1>2, <2>1
  <2>3. p[x] = <<"body", x - 11>>
    BY DEF Tokens
  <2>4. f[a + k - 1] = p[x]
    BY <1>1, <2>2
  <2> QED
    BY <1>5, <1>6, <2>2, <2>3, <2>4
<1>8. SubSeq(f, a, b) = Body(m)
  BY <1>5, <1>6, <1>7, SeqEqual
<1> QED
  BY <1>1, <1>2, <1>3, <1>8

\* A piece of the body alone.
LEMMA SliceRun ==
  ASSUME NEW code \in Nat, NEW n \in Nat, NEW p, Tokens(p, code, n),
         NEW a \in Nat, NEW b \in Nat, a < b, b <= n, NEW f, Slice(f, p, 11 + a, 11 + b)
  PROVE  f = Run(a, b)
<1>1. f \in Seq(Token) /\ Len(f) = b - a /\ \A k \in 1 .. b - a : f[k] = p[11 + a + k]
  <2>1. 11 + b - (11 + a) = b - a
    OBVIOUS
  <2> QED
    BY <2>1 DEF Slice
<1>2. /\ Run(a, b) \in Seq(Token) /\ Len(Run(a, b)) = b - a
      /\ \A k \in 1 .. b - a : Run(a, b)[k] = <<"body", a + k>>
  <2>1. a <= b
    OBVIOUS
  <2> QED
    BY <2>1, RunLemma
<1>3. ASSUME NEW k \in 1 .. b - a
      PROVE  f[k] = Run(a, b)[k]
  <2>1. PICK x \in 12 .. 11 + n : x = 11 + a + k
    OBVIOUS
  <2>2. p[x] = <<"body", x - 11>> /\ x - 11 = a + k
    BY <2>1 DEF Tokens
  <2> QED
    BY <1>1, <1>2, <2>1, <2>2
<1> QED
  BY <1>1, <1>2, <1>3, SeqEqual

\* recvContext with the response, and with another buffer.
RecvOf(state, code, n, buf) ==
  [state |-> state, status |-> code, contentLength |-> n, buf |-> buf]

LEMMA RecvOfLemma ==
  ASSUME NEW z, NEW code, NEW n, NEW x, NEW y
  PROVE  [RecvOf(z, code, n, x) EXCEPT !.buf = y] = RecvOf(z, code, n, y)
BY DEF RecvOf

\* Bytes of the body behind what the receiver has of it.
LEMMA ReceiveBytes ==
  ASSUME NEW code \in Nat, NEW n \in Nat, NEW a \in Nat, NEW b \in 0 .. n, a <= b, a < n \/ a = 0,
         NEW r, r = [state |-> "BODY", status |-> code, contentLength |-> n, buf |-> Body(a)],
         NEW f, NEW s \in Int, Len(f) - s + 1 = b - a,
         NEW g, g = SubSeq(f, s, Len(f)), Body(a) \o g = Body(b)
  PROVE  ReceiveBody(r, f, s).state = "ERROR" \/ Holds(ReceiveBody(r, f, s), code, n, 11 + b)
<1>0. b \in Nat /\ b <= n
  OBVIOUS
<1>1. Len(Body(a)) = a /\ Len(Body(b)) = b
  BY <1>0, BodyRun
<1> DEFINE c == [state |-> "BODY", status |-> code, contentLength |-> n, buf |-> Body(b)]
<1>2. CASE BufLength >= a + (b - a)
  <2>1. ~(b - a < 0)
    OBVIOUS
  <2>2. [r EXCEPT !.buf = @ \o g] = c
    <3>1. r.buf \o g = Body(b)
      OBVIOUS
    <3>2. [r EXCEPT !.buf = @ \o g] = [r EXCEPT !.buf = Body(b)]
      BY <3>1
    <3>3. [r EXCEPT !.buf = Body(b)] = c
      <4>1. r = RecvOf("BODY", code, n, Body(a)) /\ c = RecvOf("BODY", code, n, Body(b))
        BY DEF RecvOf
      <4> HIDE DEF c
      <4> QED
        BY <4>1, RecvOfLemma
    <3> QED
      BY <3>2, <3>3
  <2>3. r.buf = Body(a)
    OBVIOUS
  <2>4. ReceiveBody(r, f, s) =
          IF Len(c.buf) >= c.contentLength THEN [c EXCEPT !.state = "DONE"] ELSE c
    BY ZenonT(60), <1>1, <1>2, <2>1, <2>2, <2>3 DEF ReceiveBody
  <2>5. ReceiveBody(r, f, s) = IF b >= n THEN [c EXCEPT !.state = "DONE"] ELSE c
    BY <1>1, <2>4
  <2>6. (b >= n <=> 11 + b = 11 + n) /\ 11 + b # 3 /\ ~(11 + b < 11) /\ 11 + b - 11 = b
    BY <1>0
  <2>7. CASE b >= n
    <3>1. ReceiveBody(r, f, s)
            = [state |-> "DONE", status |-> code, contentLength |-> n, buf |-> Body(b)]
      BY <2>5, <2>7
    <3> QED
      BY <2>6, <2>7, <3>1 DEF Holds
  <2>8. CASE ~(b >= n)
    <3>1. ReceiveBody(r, f, s) = c
      BY <2>5, <2>8
    <3> QED
      BY <2>6, <2>8, <3>1 DEF Holds
  <2> QED
    BY <2>7, <2>8
<1>3. CASE ~(BufLength >= a + (b - a))
  <2>1. ~(a >= n)
    BY <1>3, BufAssumption
  <2>2. [r EXCEPT !.state = "ERROR"].buf = Body(a) /\ [r EXCEPT !.state = "ERROR"].contentLength = n
    OBVIOUS
  <2>3. ReceiveBody(r, f, s) = [r EXCEPT !.state = "ERROR"]
    BY <1>1, <1>3, <2>1, <2>2 DEF ReceiveBody
  <2> QED
    BY <2>3
<1> QED
  BY <1>2, <1>3

\* The receiver has the first q bytes, and finds the next ones from s on in f.
LEMMA ReceiveLines ==
  ASSUME NEW code \in Nat, NEW n \in Nat, NEW p, Tokens(p, code, n),
         NEW q \in {3, 6, 9}, NEW i \in Nat, i <= q, NEW j \in Ends(n), q < j,
         NEW f, Slice(f, p, i, j), NEW s \in Int, s = q + 1 - i,
         NEW r \in Recvs, Holds(r, code, n, q)
  PROVE  ReceiveHeader(r, f, s).state = "ERROR" \/ Holds(ReceiveHeader(r, f, s), code, n, j)
<1>0. j \in Nat /\ j <= 11 + n /\ (j < 11 => j \in {6, 9} /\ n > 0)
  BY DEF Ends
<1>1. /\ LengthsAt(f, HeaderLines(f, s)) = IF q = 3 THEN {n} ELSE {}
      /\ j < 11 => EmptyLines(f, s) = {} /\ BodyStart(f, s) = j + 1 - i
      /\ j >= 11 => EmptyLines(f, s) # {} /\ BodyStart(f, s) = 12 - i
  <2>1. LinesOf(f, s, q, n, i, j)
    BY SliceLines
  <2> QED
    BY <2>1 DEF LinesOf
<1>2. f \in Seq(Token) /\ Len(f) = j - i
  BY DEF Slice
<1>3. PICK x : x = r.contentLength /\ x = IF q = 3 THEN 0 ELSE n
  BY DEF Holds
<1>4. r = [state |-> "HEADER", status |-> code, contentLength |-> x, buf |-> << >>]
  <2>1. r.state = "HEADER" /\ r.status = code /\ r.buf = << >>
    BY DEF Holds
  <2> QED
    BY <1>3, <2>1 DEF Recvs
<1> DEFINE z == IF j < 11 THEN "HEADER" ELSE "BODY"
           seen == [state |-> z, status |-> code, contentLength |-> n, buf |-> << >>]
<1>5. ReceiveHeader(r, f, s) = ReceiveBody(seen, f, BodyStart(f, s))
  <2> DEFINE L == LengthsAt(f, HeaderLines(f, s))
             e == IF EmptyLines(f, s) # {} THEN "BODY" ELSE r.state
             c == IF L = {} THEN r.contentLength ELSE Max(L)
  <2>1. c = n
    <3>1. CASE q = 3
      <4>1. L = {n} /\ L # {} /\ Max({n}) = n
        BY <1>1, <3>1, OnlyLemma
      <4> QED
        BY <4>1
    <3>2. CASE q # 3
      <4>1. L = {}
        BY <1>1, <3>2
      <4> QED
        BY <1>3, <3>2, <4>1
    <3> QED
      BY <3>1, <3>2
  <2>2. e = z
    BY <1>0, <1>1, <1>4
  <2>3. ReceiveHeader(r, f, s) =
          ReceiveBody([r EXCEPT !.contentLength = c, !.state = e], f, BodyStart(f, s))
    BY DEF ReceiveHeader
  <2> HIDE DEF c, e
  <2>4. [r EXCEPT !.contentLength = c, !.state = e] = [r EXCEPT !.contentLength = n, !.state = z]
    BY <2>1, <2>2
  <2> HIDE DEF z
  <2>5. [r EXCEPT !.contentLength = n, !.state = z] = seen
    <3>1. PICK y : y = [r EXCEPT !.contentLength = n]
      OBVIOUS
    <3>2. y = [state |-> "HEADER", status |-> code, contentLength |-> n, buf |-> << >>]
      BY <1>4, <3>1
    <3>3. [r EXCEPT !.contentLength = n, !.state = z] = [y EXCEPT !.state = z]
      BY <3>1
    <3>4. [y EXCEPT !.state = z] = seen
      BY <3>2
    <3> QED
      BY <3>3, <3>4
  <2> QED
    BY <2>3, <2>4, <2>5
<1>6. CASE j >= 11
  <2>1. PICK m \in 0 .. n : j = 11 + m
    <3>1. j - 11 \in 0 .. n /\ j = 11 + (j - 11)
      BY <1>0, <1>6
    <3> QED
      BY <3>1
  <2>2. PICK t \in Int : t = 12 - i /\ BodyStart(f, s) = t
    BY <1>1, <1>6
  <2>3. PICK g : g = SubSeq(f, t, Len(f))
    OBVIOUS
  <2>4. g = Body(m) /\ Len(f) - t + 1 = m - 0
    <3>1. SubSeq(f, t, Len(f)) = Body(m)
      <4>1. j \in Nat /\ j = 11 + m /\ i <= 11 /\ t = 12 - i /\ m \in Nat /\ m <= n
        BY <2>1, <2>2
      <4>2. Tokens(p, code, n) /\ Slice(f, p, i, j)
        OBVIOUS
      <4> QED
        BY <4>1, <4>2, SliceBody
    <3> QED
      BY <1>2, <2>1, <2>2, <2>3, <3>1
  <2>5. Body(0) = << >>
    BY BodyRun, EmptySeq
  <2>6. Body(0) \o g = Body(m)
    <3>1. Body(m) \in Seq(Token)
      <4>1. m \in Nat
        OBVIOUS
      <4> QED
        BY <4>1, BodyRun
    <3>2. << >> \o Body(m) = Body(m)
      BY <3>1, ConcatEmptySeq
    <3> QED
      BY <2>4, <2>5, <3>2
  <2>7. seen = [state |-> "BODY", status |-> code, contentLength |-> n, buf |-> Body(0)]
    BY <1>0, <1>6, <2>5
  <2> HIDE DEF seen
  <2>8. \/ ReceiveBody(seen, f, t).state = "ERROR"
        \/ Holds(ReceiveBody(seen, f, t), code, n, 11 + m)
    <3>1. 0 \in Nat /\ 0 <= m
      OBVIOUS
    <3> QED
      BY <2>3, <2>4, <2>6, <2>7, <3>1, ReceiveBytes
  <2> QED
    BY <1>5, <2>1, <2>2, <2>8
<1>7. CASE j < 11
  <2>1. PICK t \in Int : t = j + 1 - i /\ BodyStart(f, s) = t
    BY <1>0, <1>1, <1>7
  <2>2. Len(f) - t + 1 = 0 /\ Len(f) < t /\ Len(f) \in Int
    BY <1>0, <1>2, <2>1
  <2>3. SubSeq(f, t, Len(f)) = << >>
    BY <2>2, SubSeqEmpty
  <2>4. << >> \o << >> = << >> /\ Len(<< >>) = 0
    BY EmptySeq, ConcatEmptySeq
  <2>5. seen = [state |-> "HEADER", status |-> code, contentLength |-> n, buf |-> << >>]
    BY <1>7
  <2> HIDE DEF seen
  <2>6. ReceiveBody(seen, f, t) = seen
    <3>1. seen.buf = << >> /\ seen.contentLength = n
      BY <2>5
    <3>2. [seen EXCEPT !.buf = @ \o SubSeq(f, t, Len(f))] = seen
      BY <2>3, <2>4, <2>5
    <3>3. BufLength >= 0 + 0 /\ ~(0 < 0) /\ ~(0 >= n)
      BY <1>0, <1>7, BufAssumption
    <3> QED
      BY <2>2, <2>4, <3>1, <3>2, <3>3 DEF ReceiveBody
  <2>7. j # 3 /\ j \in Nat
    BY <1>0, <1>7
  <2>8. Holds(seen, code, n, j)
    BY <1>7, <2>5, <2>7 DEF Holds
  <2> QED
    BY <1>5, <2>1, <2>6, <2>8
<1> QED
  BY <1>0, <1>6, <1>7

\* A response begins.
LEMMA ReceiveFirstPiece ==
  ASSUME NEW code \in Nat, NEW n \in Nat, NEW p, Tokens(p, code, n),
         NEW j \in Ends(n), NEW f, Slice(f, p, 0, j)
  PROVE  Receive(Fresh, f).state = "ERROR" \/ Holds(Receive(Fresh, f), code, n, j)
<1> DEFINE g == [Fresh EXCEPT !.state = "HEADER", !.status = code]
<1>0. j \in Nat /\ j >= 3 /\ j - 0 = j
  BY DEF Ends
<1>1. f \in Seq(Token) /\ Len(f) = j /\ f[1] = <<"status", code>>
  <2>1. 1 \in 1 .. j /\ 0 + 1 = 1
    BY <1>0
  <2>2. f \in Seq(Token) /\ Len(f) = j /\ f[1] = p[1]
    BY <1>0, <2>1 DEF Slice
  <2> QED
    BY <2>2 DEF Tokens
<1>2. f # << >>
  BY <1>0, <1>1, EmptySeq
<1>3. Receive(Fresh, f) = ReceiveFirst(Fresh, f)
  BY <1>2 DEF Receive, Fresh
<1>4. FirstCr(f, 1) = 2
  <2>1. \A k \in Int : k \in CrsFrom(f, 1) <=> k \in {2, 5, 8, 10} /\ 1 <= k /\ k <= j
    <3>1. 0 \in Nat /\ 1 \in Nat /\ 0 < 1 /\ 0 < j
      BY <1>0
    <3>2. \A k \in Int : k \in CrsFrom(f, 1 - 0) <=>
            k + 0 \in {2, 5, 8, 10} /\ 1 <= k + 0 /\ k + 0 <= j
      BY <3>1, SliceCrs
    <3>3. 1 - 0 = 1 /\ \A k \in Int : k + 0 = k
      OBVIOUS
    <3> QED
      BY <3>2, <3>3
  <2>2. CrsFrom(f, 1) \in SUBSET Int /\ IsFiniteSet(CrsFrom(f, 1))
    <3>1. 1 \in Nat \ {0}
      OBVIOUS
    <3>2. CrsFrom(f, 1) \subseteq Nat \ {0} /\ IsFiniteSet(CrsFrom(f, 1))
      BY <1>1, <3>1, StartsLemma
    <3> QED
      BY <3>2
  <2>3. 2 \in CrsFrom(f, 1)
    BY <1>0, <2>1
  <2>4. PICK x : x = Min(CrsFrom(f, 1))
    OBVIOUS
  <2>5. x \in CrsFrom(f, 1) /\ x <= 2
    BY <2>2, <2>3, <2>4, MinLemma
  <2>6. x = 2
    BY <2>1, <2>2, <2>5
  <2> QED
    BY <2>3, <2>4, <2>6 DEF FirstCr
<1>5. ReceiveFirst(Fresh, f) = IF 4 <= j THEN ReceiveHeader(g, f, 4) ELSE g
  <2>1. f[1][1] = "status" /\ f[1][2] = code
    BY <1>1
  <2> QED
    BY <1>1, <1>4, <2>1 DEF ReceiveFirst
<1>6. g = [state |-> "HEADER", status |-> code, contentLength |-> 0, buf |-> << >>]
  <2>1. Fresh = [state |-> "NONE", status |-> 0, contentLength |-> 0, buf |-> << >>]
    BY DEF Fresh
  <2>2. PICK y : y = [Fresh EXCEPT !.state = "HEADER"]
    OBVIOUS
  <2>3. y = [state |-> "HEADER", status |-> 0, contentLength |-> 0, buf |-> << >>]
    BY <2>1, <2>2
  <2>4. g = [y EXCEPT !.status = code]
    BY <2>2
  <2>5. [y EXCEPT !.status = code]
          = [state |-> "HEADER", status |-> code, contentLength |-> 0, buf |-> << >>]
    BY <2>3
  <2> HIDE DEF g
  <2> QED
    BY <2>4, <2>5
<1> HIDE DEF g
<1>7. g \in Recvs /\ Holds(g, code, n, 3)
  <2>1. << >> \in Seq(Token) /\ Len(<< >>) = 0 /\ 0 <= BufLength
    BY EmptySeq, BufAssumption
  <2> QED
    BY <1>6, <2>1 DEF Recvs, Holds
<1>8. CASE 4 <= j
  <2>1. 3 \in {3, 6, 9} /\ 0 \in Nat /\ 0 <= 3 /\ 3 < j /\ 4 \in Int /\ 4 = 3 + 1 - 0
    BY <1>0, <1>8
  <2>2. ReceiveHeader(g, f, 4).state = "ERROR" \/ Holds(ReceiveHeader(g, f, 4), code, n, j)
    BY <1>7, <2>1, ReceiveLines
  <2> QED
    BY <1>3, <1>5, <1>8, <2>2
<1>9. CASE ~(4 <= j)
  <2>1. j = 3
    BY <1>0, <1>9
  <2> QED
    BY <1>3, <1>5, <1>7, <1>9, <2>1
<1> QED
  BY <1>8, <1>9

\* The next piece where the receiver has read i bytes of the response.
LEMMA ReceiveNext ==
  ASSUME NEW code \in Nat, NEW n \in Nat, NEW p, Tokens(p, code, n),
         NEW i \in Ends(n), NEW j \in Ends(n), i < j, NEW f, Slice(f, p, i, j),
         NEW r \in Recvs, Holds(r, code, n, i)
  PROVE  Receive(r, f).state = "ERROR" \/ Holds(Receive(r, f), code, n, j)
<1>0. /\ i \in Nat /\ j \in Nat /\ j <= 11 + n /\ i >= 3
      /\ (i < 11 => i \in {3, 6, 9})
  BY DEF Ends
<1>1. f \in Seq(Token) /\ Len(f) = j - i /\ f # << >>
  <2>1. f \in Seq(Token) /\ Len(f) = j - i
    BY DEF Slice
  <2>2. j - i # 0
    BY <1>0
  <2> QED
    BY <2>1, <2>2, EmptySeq
<1>2. CASE i < 11
  <2>1. r.state = "HEADER"
    BY <1>2 DEF Holds
  <2>2. Receive(r, f) = ReceiveHeader(r, f, 1)
    BY <1>1, <2>1 DEF Receive
  <2>3. i \in {3, 6, 9} /\ i <= i /\ 1 \in Int /\ 1 = i + 1 - i
    BY <1>0, <1>2
  <2>4. ReceiveHeader(r, f, 1).state = "ERROR" \/ Holds(ReceiveHeader(r, f, 1), code, n, j)
    BY <1>0, <2>3, ReceiveLines
  <2> QED
    BY <2>2, <2>4
<1>3. CASE i >= 11
  <2>1. PICK a \in Nat, b \in 0 .. n : i = 11 + a /\ j = 11 + b /\ a < b
    <3>1. i - 11 \in Nat /\ j - 11 \in 0 .. n /\ i = 11 + (i - 11) /\ j = 11 + (j - 11) /\ i - 11 < j - 11
      BY <1>0, <1>3
    <3> QED
      BY <3>1
  <2>2. f = Run(a, b)
    BY <2>1, SliceRun
  <2>3. /\ r.state = "BODY" /\ r.status = code /\ r.contentLength = n /\ r.buf = Body(a)
    <3>1. i # 3 /\ ~(i < 11) /\ i # 11 + n /\ i - 11 = a
      BY <2>1
    <3> QED
      BY <3>1 DEF Holds
  <2>4. r = [state |-> "BODY", status |-> code, contentLength |-> n, buf |-> Body(a)]
    BY <2>3 DEF Recvs
  <2>5. Receive(r, f) = ReceiveBody(r, f, 1)
    BY <1>1, <2>3 DEF Receive
  <2>6. SubSeq(f, 1, Len(f)) = f
    BY <1>1, SubSeqFull
  <2>7. Body(a) \o f = Body(b)
    <3>1. b \in Nat /\ a <= b
      BY <2>1
    <3>2. Body(a) \o Run(a, b) = Body(b)
      BY <3>1, RunOfRuns
    <3> QED
      BY <2>2, <3>2
  <2>8. Len(f) - 1 + 1 = b - a /\ a <= b /\ a < n
    BY <1>1, <2>1
  <2>9. \/ ReceiveBody(r, f, 1).state = "ERROR"
        \/ Holds(ReceiveBody(r, f, 1), code, n, 11 + b)
    <3>1. 1 \in Int /\ f = SubSeq(f, 1, Len(f))
      BY <2>6
    <3> QED
      BY ZenonT(60), <2>4, <2>7, <2>8, <3>1, ReceiveBytes
  <2> QED
    BY <2>1, <2>5, <2>9
<1> QED
  BY <1>0, <1>2, <1>3

\* It is an error at the beginning of a response.
LEMMA ReceiveStray ==
  ASSUME NEW code \in Nat, NEW n \in Nat, NEW p, Tokens(p, code, n),
         NEW i \in Ends(n), NEW j \in Ends(n), i < j, NEW f, Slice(f, p, i, j)
  PROVE  Receive(Fresh, f).state = "ERROR"
<1>0. i \in Nat /\ j \in Nat /\ (i \in {3, 6, 9} \/ i + 1 \in 12 .. 11 + n)
  BY DEF Ends
<1>1. f \in Seq(Token) /\ Len(f) = j - i /\ f[1] = p[i + 1]
  <2>1. 1 \in 1 .. j - i
    BY <1>0
  <2> QED
    BY <2>1 DEF Slice
<1>2. f # << >>
  <2>1. j - i # 0
    BY <1>0
  <2> QED
    BY <1>1, <2>1, EmptySeq
<1>3. f[1][1] # "status"
  <2>1. CASE i + 1 \in 12 .. 11 + n
    <3>1. PICK x \in 12 .. 11 + n : x = i + 1
      BY <2>1
    <3>2. p[x] = <<"body", x - 11>>
      BY DEF Tokens
    <3> QED
      BY <1>1, <3>1, <3>2
  <2>2. CASE i \in {3, 6, 9}
    <3>1. i + 1 \in {4, 7, 10}
      BY <2>2
    <3>2. p[4] = <<"length", n>> /\ p[7] = <<"other", 0>> /\ p[10] = <<"CR", 0>>
      BY DEF Tokens, CR
    <3> QED
      BY <1>1, <3>1, <3>2
  <2> QED
    BY <1>0, <2>1, <2>2
<1>4. ReceiveFirst(Fresh, f) = [Fresh EXCEPT !.state = "ERROR"]
  BY <1>3 DEF ReceiveFirst
<1>5. Receive(Fresh, f) = ReceiveFirst(Fresh, f)
  BY <1>2 DEF Receive, Fresh
<1> QED
  BY <1>4, <1>5 DEF Fresh

-----------------------------------------------------------------------------
(* The responses on their way, as a string                                   *)

\* How far a reader of the responses is: behind the first at bytes of a response
\* with a body of n bytes, where the receiver can go on, or between two responses.
Cursor == {c \in [at : Nat, n : Nat, code : Nat] : c.at \in Ends(c.n)}
Closed(c) == c.at = 11 + c.n
AnswerOf(c) == [status |-> c.code, length |-> c.n]

\* How far it is in the response that it is going to read of.
From(c) == IF Closed(c) THEN 0 ELSE c.at

\* p takes the reader from c to d.
Takes(c, p, d) ==
  /\ Closed(c) \/ (d.n = c.n /\ d.code = c.code)
  /\ From(c) < d.at
  /\ p = Piece(d.code, d.n, From(c), d.at)

\* The frame f does; a confirmation takes the reader nowhere.
Link(c, f, d, a) ==
  IF f.type = "IPV4" THEN Takes(c, f.payload, d) /\ AnswerOf(d) \in a ELSE d = c

\* cs[k] is how far the frames before the k-th of u take the reader.
Chain(cs, u, a) == \A k \in DOMAIN u : Link(cs[k], u[k], cs[k + 1], a)

\* p is one of the responses a.
Whole(p, a) == \E d \in Cursor : AnswerOf(d) \in a /\ p = Response(d.code, d.n)

\* From c on, the reader gets what is left of a response and whole ones.
Remains(c, p, a) ==
  IF Closed(c) THEN Whole(p, a)
  ELSE AnswerOf(c) \in a /\ p = Piece(c.code, c.n, c.at, 11 + c.n)

\* s is what the server's side still has to send to the reader at c.
Rest(c, s, a) ==
  /\ s = << >> => Closed(c)
  /\ s # << >> => Remains(c, s[1], a)
  /\ \A i \in DOMAIN s : i > 1 => Whole(s[i], a)

\* The frames u and then the responses s, read from cs[1] on.
Stream(cs, u, s, a) ==
  /\ cs \in [Nat -> Cursor]
  /\ Chain(cs, u, a)
  /\ Rest(cs[Len(u) + 1], s, a)

\* The cursors ds are the first n of cs and e behind them; or cs without its first.
Longer(ds, cs, n, e) ==
  ds \in [Nat -> Cursor] /\ ds[n + 1] = e /\ \A k \in 1 .. n : ds[k] = cs[k]
Shorter(ds, cs) == ds \in [Nat -> Cursor] /\ \A k \in Nat : ds[k] = cs[k + 1]

\* There is such a ds.
LEMMA LongerLemma ==
  ASSUME NEW cs \in [Nat -> Cursor], NEW n \in Nat, NEW e \in Cursor
  PROVE  \E ds : Longer(ds, cs, n, e)
<1> DEFINE ds == [cs EXCEPT ![n + 1] = e]
<1>1. ds \in [Nat -> Cursor] /\ ds[n + 1] = e /\ \A k \in 1 .. n : ds[k] = cs[k]
  OBVIOUS
<1>2. Longer(ds, cs, n, e)
  BY <1>1 DEF Longer
<1> QED
  BY <1>2

\* Here too.
LEMMA ShorterLemma ==
  ASSUME NEW cs \in [Nat -> Cursor]
  PROVE  \E ds : Shorter(ds, cs)
<1> DEFINE ds == [k \in Nat |-> cs[k + 1]]
<1>1. Shorter(ds, cs)
  BY DEF Shorter
<1> QED
  BY <1>1

\* A frame joins the others, and the reader can go on over it.
LEMMA ChainAppend ==
  ASSUME NEW cs \in [Nat -> Cursor], NEW u \in Seq(Frame), NEW x \in Frame, NEW e \in Cursor,
         NEW a, NEW b, a \subseteq b, NEW n \in Nat, n = Len(u) + 1,
         Chain(cs, u, a), Link(cs[n], x, e, b),
         NEW v, v = Append(u, x), NEW ds, Longer(ds, cs, n, e)
  PROVE  Chain(ds, v, b)
<1>1. PICK l \in Nat : l = Len(u) /\ DOMAIN u = 1 .. l
  BY LenProperties
<1>2. /\ v \in Seq(Frame) /\ Len(v) = l + 1
      /\ \A i \in 1 .. l : v[i] = u[i]
      /\ v[l + 1] = x
  BY <1>1, AppendProperties
<1>3. DOMAIN v = 1 .. l + 1
  BY <1>2, LenProperties
<1>4. /\ ds \in [Nat -> Cursor] /\ ds[l + 2] = e
      /\ \A k \in 1 .. l + 1 : ds[k] = cs[k]
  BY <1>1 DEF Longer
<1>5. ASSUME NEW k \in DOMAIN v
      PROVE  Link(ds[k], v[k], ds[k + 1], b)
  <2>1. CASE k \in 1 .. l
    <3>1. Link(cs[k], u[k], cs[k + 1], a)
      BY <1>1, <2>1 DEF Chain
    <3>2. Link(cs[k], u[k], cs[k + 1], b)
      BY <3>1 DEF Link
    <3>3. k \in 1 .. l + 1 /\ k + 1 \in 1 .. l + 1
      BY <2>1
    <3> QED
      BY <1>2, <1>4, <2>1, <3>2, <3>3
  <2>2. CASE k = l + 1
    <3>1. k + 1 = l + 2 /\ k \in 1 .. l + 1
      BY <2>2
    <3> QED
      BY <1>1, <1>2, <1>4, <2>2, <3>1
  <2> QED
    BY <1>3, <2>1, <2>2
<1> QED
  BY <1>5 DEF Chain

\* The first frame is taken.
LEMMA ChainTail ==
  ASSUME NEW cs \in [Nat -> Cursor], NEW u \in Seq(Frame), u # << >>, NEW a,
         Chain(cs, u, a),
         NEW v, v = Tail(u), NEW ds, Shorter(ds, cs)
  PROVE  Chain(ds, v, a) /\ Link(cs[1], u[1], cs[2], a)
<1>1. PICK l \in Nat : l = Len(u) /\ l > 0 /\ DOMAIN u = 1 .. l
  BY LenProperties, EmptySeq
<1>2. v \in Seq(Frame) /\ Len(v) = l - 1 /\ \A i \in 1 .. l - 1 : v[i] = u[i + 1]
  BY <1>1, HeadTailProperties
<1>3. DOMAIN v = 1 .. l - 1
  BY <1>2, LenProperties
<1>4. \A k \in Nat : ds[k] = cs[k + 1]
  BY DEF Shorter
<1>6. ASSUME NEW k \in 1 .. l - 1
      PROVE  Link(ds[k], v[k], ds[k + 1], a)
  <2>1. k + 1 \in 1 .. l /\ k \in Nat /\ k + 1 \in Nat
    OBVIOUS
  <2>2. Link(cs[k + 1], u[k + 1], cs[k + 1 + 1], a)
    BY <1>1, <2>1 DEF Chain
  <2> QED
    BY <1>2, <1>4, <2>1, <2>2
<1>7. Link(cs[1], u[1], cs[2], a)
  <2>1. 1 \in DOMAIN u /\ 1 + 1 = 2
    BY <1>1
  <2> QED
    BY <2>1 DEF Chain
<1> QED
  BY <1>3, <1>6, <1>7 DEF Chain

\* What was answered stays answered.
LEMMA RestMonotone ==
  ASSUME NEW c, NEW s, NEW a, NEW b, a \subseteq b, Rest(c, s, a)
  PROVE  Rest(c, s, b)
<1>1. \A p : Whole(p, a) => Whole(p, b)
  BY DEF Whole
<1>2. \A p : Remains(c, p, a) => Remains(c, p, b)
  BY <1>1 DEF Remains
<1> QED
  BY <1>1, <1>2 DEF Rest

\* The server answers.
LEMMA RestAnswer ==
  ASSUME NEW c, NEW s \in Seq(Seq(Token)), NEW a, NEW b, a \subseteq b, Rest(c, s, a),
         NEW code \in Nat, NEW n \in Nat, [status |-> code, length |-> n] \in b,
         NEW t, t = Append(s, Response(code, n))
  PROVE  Rest(c, t, b)
<1> DEFINE p == Response(code, n)
<1>1. Rest(c, s, b)
  BY RestMonotone
<1>2. Whole(p, b)
  <2>1. PICK d \in Cursor : d = [at |-> 11 + n, n |-> n, code |-> code]
    <3>1. 11 + n \in Ends(n) /\ 11 + n \in Nat
      BY DEF Ends
    <3> QED
      BY <3>1 DEF Cursor
  <2>2. d.code = code /\ d.n = n
    BY <2>1
  <2> QED
    BY <2>2 DEF Whole, AnswerOf
<1>3. p \in Seq(Token)
  BY ResponseTypes
<1> HIDE DEF p
<1>4. PICK l \in Nat : l = Len(s) /\ DOMAIN s = 1 .. l
  BY LenProperties
<1>5. /\ t \in Seq(Seq(Token)) /\ Len(t) = l + 1
      /\ \A i \in 1 .. l : t[i] = s[i]
      /\ t[l + 1] = p
  BY <1>3, <1>4, AppendProperties DEF p
<1>6. DOMAIN t = 1 .. l + 1 /\ t # << >>
  BY <1>5, LenProperties, EmptySeq
<1>7. \A i \in DOMAIN t : i > 1 => Whole(t[i], b)
  <2> SUFFICES ASSUME NEW i \in DOMAIN t, i > 1 PROVE Whole(t[i], b)
    OBVIOUS
  <2>1. i \in 1 .. l \/ i = l + 1
    BY <1>6
  <2> QED
    BY <1>1, <1>2, <1>4, <1>5, <2>1 DEF Rest
<1>8. Remains(c, t[1], b)
  <2>1. CASE l = 0
    <3>1. s = << >> /\ t[1] = p
      BY <1>4, <1>5, <2>1, EmptySeq
    <3> QED
      BY <1>1, <1>2, <3>1 DEF Rest, Remains
  <2>2. CASE l > 0
    <3>1. s # << >> /\ t[1] = s[1]
      BY <1>4, <1>5, <2>2, EmptySeq
    <3> QED
      BY <1>1, <3>1 DEF Rest
  <2> QED
    BY <2>1, <2>2
<1> QED
  BY <1>6, <1>7, <1>8 DEF Rest

\* When the reader has moved on, the rest is q and the responses behind it.
LEMMA RestShift ==
  ASSUME NEW c, NEW s \in Seq(Seq(Token)), s # << >>, NEW a, Rest(c, s, a),
         NEW e, NEW q \in Seq(Token), NEW t,
         \/ Closed(e) /\ t = Tail(s)
         \/ ~Closed(e) /\ Remains(e, q, a) /\ t = <<q>> \o Tail(s)
  PROVE  /\ Rest(e, t, a)
         /\ Closed(e) => Len(t) = Len(s) - 1
         /\ Len(t) <= Len(s)
<1>1. PICK l \in Nat : l = Len(s) /\ l > 0 /\ DOMAIN s = 1 .. l
  BY LenProperties, EmptySeq
<1>2. PICK r : r = Tail(s)
  OBVIOUS
<1>3. r \in Seq(Seq(Token)) /\ Len(r) = l - 1 /\ \A i \in 1 .. l - 1 : r[i] = s[i + 1]
  BY <1>1, <1>2, HeadTailProperties
<1>4. DOMAIN r = 1 .. l - 1
  BY <1>3, LenProperties
<1>5. \A i \in 1 .. l - 1 : Whole(r[i], a)
  <2> SUFFICES ASSUME NEW i \in 1 .. l - 1 PROVE Whole(r[i], a)
    OBVIOUS
  <2>1. i + 1 \in 1 .. l /\ i + 1 > 1
    OBVIOUS
  <2>2. Whole(s[i + 1], a)
    BY <1>1, <2>1 DEF Rest
  <2> QED
    BY <1>3, <2>2
<1>6. CASE Closed(e) /\ t = r
  <2>1. t # << >> => Remains(e, t[1], a)
    <3> SUFFICES ASSUME t # << >> PROVE Remains(e, t[1], a)
      OBVIOUS
    <3>1. 1 \in 1 .. l - 1
      BY <1>1, <1>3, <1>6, EmptySeq
    <3> QED
      BY <1>5, <1>6, <3>1 DEF Remains
  <2>2. Rest(e, t, a)
    BY <1>4, <1>5, <1>6, <2>1 DEF Rest
  <2> QED
    BY <1>1, <1>3, <1>6, <2>2
<1>7. CASE ~Closed(e) /\ Remains(e, q, a) /\ t = <<q>> \o r
  <2>1. PICK o : o = <<q>>
    OBVIOUS
  <2>2. o \in Seq(Seq(Token)) /\ Len(o) = 1 /\ o[1] = q
    <3>1. <<q>> \in Seq(Seq(Token))
      BY TupleSeq
    <3>2. Len(<<q>>) = 1 /\ <<q>>[1] = q
      OBVIOUS
    <3> QED
      BY <2>1, <3>1, <3>2
  <2>3. /\ t \in Seq(Seq(Token)) /\ Len(t) = Len(o) + Len(r)
        /\ \A i \in 1 .. Len(o) + Len(r) : t[i] = IF i <= Len(o) THEN o[i] ELSE r[i - Len(o)]
    <3>1. t = o \o r
      BY <1>7, <2>1
    <3> QED
      BY ZenonT(60), <1>3, <2>2, <3>1, ConcatProperties
  <2>4. /\ Len(t) = l
        /\ \A i \in 1 .. l : t[i] = IF i <= 1 THEN o[i] ELSE r[i - 1]
    <3>1. 1 + (l - 1) = l
      OBVIOUS
    <3> QED
      BY <1>3, <2>2, <2>3, <3>1
  <2>5. t[1] = q
    BY <1>1, <2>2, <2>4
  <2>6. ASSUME NEW i \in 1 .. l, i > 1
        PROVE  Whole(t[i], a)
    <3>1. ~(i <= 1) /\ i - 1 \in 1 .. l - 1
      BY <2>6
    <3> QED
      BY <1>5, <2>4, <3>1
  <2>7. t # << >> /\ DOMAIN t = 1 .. l
    BY <1>1, <2>3, <2>4, LenProperties, EmptySeq
  <2>8. Rest(e, t, a)
    BY <1>7, <2>5, <2>6, <2>7 DEF Rest
  <2> QED
    BY <1>1, <1>7, <2>4, <2>8
<1> QED
  BY <1>2, <1>6, <1>7

\* p takes the reader from c to e, and leaves t of the responses s.
Leaves(c, p, e, s, t, a) ==
  /\ Takes(c, p, e) /\ AnswerOf(e) \in a /\ Rest(e, t, a)
  /\ Closed(e) => Len(t) = Len(s) - 1
  /\ Len(t) <= Len(s)

\* Behind k bytes of what is left of a response the receiver can go on, if the cut
\* is not through its headers or where it joins them.
LEMMA CutEnds ==
  ASSUME NEW code \in Nat, NEW n \in Nat, NEW i \in Nat, i < 11 + n,
         NEW h, h = Piece(code, n, i, 11 + n), NEW k \in 1 .. Len(h),
         ~CutsHeaders(h, k) \/ Joins(h, k)
  PROVE  Len(h) = 11 + n - i /\ i + k \in Ends(n)
<1>1. PICK p : p = Response(code, n) /\ Tokens(p, code, n)
  BY ResponseTokens
<1>2. PICK l \in Nat : l = 11 + n
  OBVIOUS
<1>3. Slice(h, p, i, l)
  <2>1. l \in Nat /\ i < l /\ l <= 11 + n
    BY <1>2
  <2>2. Slice(Piece(code, n, i, l), Response(code, n), i, l)
    BY <2>1, PieceLemma
  <2> QED
    BY <1>1, <1>2, <2>2
<1>4. h \in Seq(Token) /\ Len(h) = l - i /\ \A x \in 1 .. l - i : h[x] = p[i + x]
  BY <1>3 DEF Slice
<1>5. PICK j \in Nat : j = i + k /\ j >= 1 /\ j <= l
  BY <1>2, <1>4
<1>6. CASE j = l
  BY <1>2, <1>4, <1>5, <1>6 DEF Ends
<1>7. CASE j < l
  <2>1. k + 1 \in 1 .. l - i /\ k \in 1 .. l - i /\ i + (k + 1) = j + 1 /\ i + k = j
    BY <1>4, <1>5, <1>7
  <2>2. h[k] = p[j] /\ h[k + 1] = p[j + 1]
    BY <1>4, <2>1
  <2>3. k < Len(h)
    BY <1>4, <1>5, <1>7
  <2>4. CASE p[j + 1][1] = "body"
    <3>1. j + 1 > 11
      <4>1. SUFFICES ASSUME j + 1 \in 1 .. 11 PROVE FALSE
        BY <1>5
      <4> QED
        BY SMTT(30), <1>1, <2>4, <4>1 DEF Tokens, CR, LF
    <3> QED
      BY <1>2, <1>4, <1>5, <3>1 DEF Ends
  <2>5. CASE p[j + 1][1] # "body"
    <3>1. h[k] = LF /\ (h[k + 1][1] = "length" \/ Last(h)[1] = "body")
      BY <2>2, <2>3, <2>5 DEF CutsHeaders, Joins
    <3>2. j + 1 <= 11
      <4>1. SUFFICES ASSUME j + 1 \in 12 .. 11 + n PROVE FALSE
        BY <1>2, <1>5, <1>7
      <4> QED
        BY <1>1, <2>5, <4>1 DEF Tokens
    <3>3. j \in {3, 6, 9}
      <4>1. p[j] = LF /\ j \in 1 .. 10
        BY <1>5, <2>2, <3>1, <3>2
      <4> QED
        BY <1>1, <4>1 DEF Tokens, CR, LF
    <3>4. CASE h[k + 1][1] = "length"
      <4>1. p[7][1] = "other" /\ p[10][1] = "CR" /\ p[j + 1][1] = "length"
        BY <1>1, <2>2, <3>4 DEF Tokens, CR
      <4>2. j = 3
        BY <3>3, <4>1
      <4> QED
        BY <1>2, <1>4, <1>5, <4>2 DEF Ends
    <3>5. CASE Last(h)[1] = "body"
      <4>1. Last(h) = p[l]
        <5>1. l - i \in 1 .. l - i /\ i + (l - i) = l
          BY <1>4, <2>1
        <5> QED
          BY <1>4, <5>1 DEF Last
      <4>2. n # 0
        <5>1. n = 0 => p[l] = p[11]
          BY <1>2
        <5>2. p[11][1] = "LF"
          BY <1>1 DEF Tokens, LF
        <5> QED
          BY <3>5, <4>1, <5>1, <5>2
      <4> QED
        BY <1>2, <1>4, <1>5, <3>3, <4>2 DEF Ends
    <3> QED
      BY <3>1, <3>4, <3>5
  <2> QED
    BY <2>4, <2>5
<1> QED
  BY <1>5, <1>6, <1>7

\* The next piece, cut where the receiver can go on.
LEMMA RestCut ==
  ASSUME NEW c \in Cursor, NEW s \in Seq(Seq(Token)), s # << >>, NEW a, Rest(c, s, a),
         NEW h, h = s[1], NEW k \in 1 .. Len(h), ~CutsHeaders(h, k) \/ Joins(h, k),
         NEW t, t = IF k = Len(h) THEN Tail(s) ELSE <<SubSeq(h, k + 1, Len(h))>> \o Tail(s)
  PROVE  \E e \in Cursor : Leaves(c, SubSeq(h, 1, k), e, s, t, a)
<1>1. PICK n \in Nat, code \in Nat, i \in Nat :
        /\ i = From(c) /\ i < 11 + n /\ h = Piece(code, n, i, 11 + n)
        /\ [status |-> code, length |-> n] \in a
        /\ Closed(c) \/ (n = c.n /\ code = c.code)
  <2>1. Remains(c, h, a)
    BY DEF Rest
  <2>2. CASE Closed(c)
    <3>1. PICK d \in Cursor : AnswerOf(d) \in a /\ h = Response(d.code, d.n)
      BY <2>1, <2>2 DEF Remains, Whole
    <3>2. PICK n \in Nat, code \in Nat : n = d.n /\ code = d.code
      BY DEF Cursor
    <3>3. Piece(code, n, 0, 11 + n) = Response(code, n)
      <4>1. Response(code, n) \in Seq(Token) /\ Len(Response(code, n)) = 11 + n
        BY ResponseTokens DEF Tokens
      <4>2. SubSeq(Response(code, n), 1, Len(Response(code, n))) = Response(code, n)
        BY <4>1, SubSeqFull
      <4>3. 0 + 1 = 1
        OBVIOUS
      <4> QED
        BY <4>1, <4>2, <4>3 DEF Piece
    <3>4. From(c) = 0 /\ 0 < 11 + n /\ 0 \in Nat
      BY <2>2 DEF From
    <3>5. [status |-> code, length |-> n] \in a /\ h = Piece(code, n, 0, 11 + n)
      BY <3>1, <3>2, <3>3 DEF AnswerOf
    <3> QED
      BY <2>2, <3>4, <3>5
  <2>3. CASE ~Closed(c)
    <3>1. PICK n \in Nat, code \in Nat, i \in Nat : n = c.n /\ code = c.code /\ i = c.at
      BY DEF Cursor
    <3>2. i < 11 + n /\ From(c) = i
      <4>1. i \in Ends(n) /\ i # 11 + n
        BY <2>3, <3>1 DEF Cursor, Closed
      <4>2. i \in Nat /\ n \in Nat /\ i <= 11 + n
        BY <4>1 DEF Ends
      <4> QED
        BY <2>3, <3>1, <4>1, <4>2 DEF From
    <3>3. [status |-> code, length |-> n] \in a /\ h = Piece(code, n, i, 11 + n)
      BY <2>1, <2>3, <3>1 DEF Remains, AnswerOf
    <3> QED
      BY <3>1, <3>2, <3>3
  <2> QED
    BY <2>2, <2>3
<1>2. Len(h) = 11 + n - i /\ i + k \in Ends(n)
  <2>1. i < 11 + n /\ h = Piece(code, n, i, 11 + n)
    BY <1>1
  <2>2. ~CutsHeaders(h, k) \/ Joins(h, k)
    OBVIOUS
  <2> QED
    BY <2>1, <2>2, CutEnds
<1>3. PICK m \in Nat : m = i + k
  OBVIOUS
<1>4. k \in 1 .. 11 + n - i
  BY <1>2
<1>5. /\ SubSeq(h, 1, k) = Piece(code, n, i, m)
      /\ SubSeq(h, k + 1, Len(h)) = Piece(code, n, m, 11 + n)
  <2>1. i < 11 + n /\ h = Piece(code, n, i, 11 + n)
    BY <1>1
  <2>2. /\ SubSeq(Piece(code, n, i, 11 + n), 1, k) = Piece(code, n, i, i + k)
        /\ SubSeq(Piece(code, n, i, 11 + n), k + 1, Len(Piece(code, n, i, 11 + n)))
             = Piece(code, n, i + k, 11 + n)
    <3> HIDE <2>1
    <3>1. i < 11 + n
      BY <2>1
    <3> QED
      BY <1>4, <3>1, PieceCut
  <2> QED
    BY Zenon, <1>3, <2>1, <2>2
<1>6. PICK e \in Cursor : e = [at |-> m, n |-> n, code |-> code]
  BY <1>2, <1>3 DEF Cursor
<1>7. e.at = m /\ e.n = n /\ e.code = code
  BY <1>6
<1>8. Takes(c, SubSeq(h, 1, k), e)
  <2>1. i < m
    BY <1>3, <1>4
  <2> QED
    BY <1>1, <1>5, <1>7, <2>1 DEF Takes
<1>9. AnswerOf(e) \in a
  BY <1>1, <1>7 DEF AnswerOf
<1>10. k = Len(h) <=> Closed(e)
  BY <1>2, <1>3, <1>7 DEF Closed
<1>11. PICK g : g = Piece(code, n, m, 11 + n)
  OBVIOUS
<1>12. ~Closed(e) => Remains(e, g, a) /\ g \in Seq(Token)
  <2> SUFFICES ASSUME ~Closed(e) PROVE Remains(e, g, a) /\ g \in Seq(Token)
    OBVIOUS
  <2>1. PICK l \in Nat : l = 11 + n
    OBVIOUS
  <2>2. m < l /\ l <= 11 + n
    BY <1>2, <1>3, <1>4, <1>10, <2>1
  <2>3. Slice(Piece(code, n, m, l), Response(code, n), m, l)
    BY <2>2, PieceLemma
  <2> QED
    BY <1>7, <1>9, <1>11, <2>1, <2>3 DEF Remains, Slice
<1>13. /\ Rest(e, t, a)
       /\ Closed(e) => Len(t) = Len(s) - 1
       /\ Len(t) <= Len(s)
  <2>1. CASE Closed(e)
    <3>1. t = Tail(s) /\ << >> \in Seq(Token)
      BY <1>10, <2>1, EmptySeq
    <3> QED
      BY <2>1, <3>1, RestShift
  <2>2. CASE ~Closed(e)
    <3>1. t = <<g>> \o Tail(s)
      BY <1>5, <1>10, <1>11, <2>2
    <3> QED
      BY <1>12, <2>2, <3>1, RestShift
  <2> QED
    BY <2>1, <2>2
<1> QED
  BY <1>8, <1>9, <1>13 DEF Leaves

-----------------------------------------------------------------------------
(* What the receiver makes of it                                           *)

\* What the receiver holds is one of the responses a, whole.
Done(r, a) ==
  \E x \in a : /\ r.status = x.status /\ r.contentLength = x.length
               /\ r.buf = Body(x.length)

\* The receiver at the beginning of the frames, where c is the cursor.
Reading(c, r, a) ==
  /\ r.state \in {"NONE", "HEADER", "BODY", "DONE", "ERROR"}
  /\ r.state = "NONE" => r = Fresh
  /\ r.state \in {"HEADER", "BODY"} =>
       ~Closed(c) /\ AnswerOf(c) \in a /\ Holds(r, c.code, c.n, c.at)
  /\ r.state = "DONE" => Done(r, a)

\* A receiver that holds what the reader passed has read as far.
LEMMA HoldsReading ==
  ASSUME NEW r, NEW d \in Cursor, NEW a, AnswerOf(d) \in a,
         r.state = "ERROR" \/ Holds(r, d.code, d.n, d.at)
  PROVE  Reading(d, r, a) /\ (r.state = "DONE" => Closed(d))
<1>1. CASE r.state = "ERROR"
  BY <1>1 DEF Reading
<1>2. CASE Holds(r, d.code, d.n, d.at)
  <2>0. PICK n \in Nat, code \in Nat, i \in Nat :
          n = d.n /\ code = d.code /\ i = d.at /\ (i < 11 \/ i >= 11)
    BY DEF Cursor
  <2>1. CASE Closed(d)
    <3>1. i = 11 + n /\ ~(i < 11) /\ i # 3 /\ i - 11 = n
      BY <2>0, <2>1 DEF Closed
    <3>2. r.state = "DONE" /\ r.status = code /\ r.contentLength = n /\ r.buf = Body(n)
      BY <1>2, <2>0, <3>1 DEF Holds
    <3>3. AnswerOf(d).status = code /\ AnswerOf(d).length = n
      BY <2>0 DEF AnswerOf
    <3>4. Done(r, a)
      BY <3>2, <3>3 DEF Done
    <3> QED
      BY <2>1, <3>2, <3>4 DEF Reading
  <2>2. CASE ~Closed(d)
    <3>1. d.at # 11 + d.n
      BY <2>2 DEF Closed
    <3>2. r.state \in {"HEADER", "BODY"}
      BY <1>2, <3>1 DEF Holds
    <3> QED
      BY <1>2, <2>2, <3>2 DEF Reading
  <2> QED
    BY <2>1, <2>2
<1> QED
  BY <1>1, <1>2

\* A piece takes the receiver where it takes the reader.
LEMMA ReadPiece ==
  ASSUME NEW c \in Cursor, NEW d \in Cursor, NEW r \in Recvs, NEW a,
         Reading(c, r, a), NEW p, Takes(c, p, d), AnswerOf(d) \in a,
         NEW q, q = Receive(r, p)
  PROVE  /\ Reading(d, q, a)
         /\ q.state = "DONE" => r.state = "DONE" \/ Closed(d)
<1>1. PICK j \in Nat, n \in Nat, code \in Nat, i \in Nat :
        /\ j = d.at /\ n = d.n /\ code = d.code /\ i = From(c)
        /\ j \in Ends(n)
        /\ (Closed(c) /\ i = 0) \/ (~Closed(c) /\ i = c.at /\ i \in Ends(c.n))
  BY DEF Cursor, From
<1>2. PICK x : x = Response(code, n) /\ Tokens(x, code, n)
  BY <1>1, ResponseTokens
<1>3. i < j /\ Slice(p, x, i, j)
  <2>1. i < j /\ p = Piece(code, n, i, j) /\ j <= 11 + n
    BY <1>1 DEF Takes, Ends
  <2>2. Slice(Piece(code, n, i, j), Response(code, n), i, j)
    BY <2>1, PieceLemma
  <2> QED
    BY <1>2, <2>1, <2>2
<1>4. CASE r.state \in {"DONE", "ERROR"}
  <2>1. q = r
    BY <1>4 DEF Receive
  <2> QED
    BY <1>4, <2>1 DEF Reading
<1>5. CASE r.state = "NONE"
  <2>1. r = Fresh
    BY <1>5 DEF Reading
  <2>2. CASE Closed(c)
    <3>1. Slice(p, x, 0, j)
      BY <1>1, <1>3, <2>2
    <3>2. q.state = "ERROR" \/ Holds(q, code, n, j)
      BY <1>1, <1>2, <2>1, <3>1, ReceiveFirstPiece
    <3> QED
      BY <1>1, <3>2, HoldsReading
  <2>3. CASE ~Closed(c)
    <3>1. i \in Ends(n)
      BY <1>1, <2>3 DEF Takes
    <3>2. q.state = "ERROR"
      BY <1>1, <1>2, <1>3, <2>1, <3>1, ReceiveStray
    <3> QED
      BY <3>2 DEF Reading
  <2> QED
    BY <2>2, <2>3
<1>6. CASE r.state \in {"HEADER", "BODY"}
  <2>1. ~Closed(c) /\ Holds(r, c.code, c.n, c.at)
    BY <1>6 DEF Reading
  <2>2. i \in Ends(n) /\ Holds(r, code, n, i)
    BY <1>1, <2>1 DEF Takes
  <2>3. q.state = "ERROR" \/ Holds(q, code, n, j)
    BY <1>1, <1>2, <1>3, <2>2, ReceiveNext
  <2> QED
    BY <1>1, <2>3, HoldsReading
<1> QED
  BY <1>4, <1>5, <1>6 DEF Reading

-----------------------------------------------------------------------------
(* The response to the last request, and no other                            *)

\* Nothing of a response is left from the k-th frame on.
Clear(u, s, k) == s = << >> /\ \A j \in DOMAIN u : j >= k => u[j].type # "IPV4"

\* There is one response at most, or what is left of it.
One(cs, u, s) ==
  /\ Len(s) <= 1
  /\ \A k \in 1 .. Len(u) + 1 :
       Closed(cs[k]) => Clear(u, s, k) \/ \A j \in DOMAIN u : j < k => u[j].type # "IPV4"

\* x is behind the l frames of u.
Joined(u, x, v, l) ==
  /\ l = Len(u) /\ Len(v) = l + 1
  /\ DOMAIN u = 1 .. l /\ DOMAIN v = 1 .. l + 1
  /\ \A i \in 1 .. l : v[i] = u[i]
  /\ v[l + 1] = x

\* A sequence with one more frame.
LEMMA AppendFacts ==
  ASSUME NEW u \in Seq(Frame), NEW x \in Frame, NEW v, v = Append(u, x)
  PROVE  \E l \in Nat : Joined(u, x, v, l)
<1>1. PICK l \in Nat : l = Len(u) /\ DOMAIN u = 1 .. l
  BY LenProperties
<1>2. /\ v \in Seq(Frame) /\ Len(v) = l + 1
      /\ \A i \in 1 .. l : v[i] = u[i]
      /\ v[l + 1] = x
  BY <1>1, AppendProperties
<1>3. DOMAIN v = 1 .. l + 1
  BY <1>2, LenProperties
<1> QED
  BY <1>1, <1>2, <1>3 DEF Joined

\* A sequence without its first frame.
LEMMA TailFacts ==
  ASSUME NEW u \in Seq(Frame), u # << >>, NEW v, v = Tail(u)
  PROVE  \E l \in Nat :
           /\ l = Len(u) /\ Len(v) = l - 1 /\ l > 0
           /\ DOMAIN u = 1 .. l /\ DOMAIN v = 1 .. l - 1
           /\ \A i \in 1 .. l - 1 : v[i] = u[i + 1]
<1>1. PICK l \in Nat : l = Len(u) /\ l > 0 /\ DOMAIN u = 1 .. l
  BY LenProperties, EmptySeq
<1>2. v \in Seq(Frame) /\ Len(v) = l - 1 /\ \A i \in 1 .. l - 1 : v[i] = u[i + 1]
  BY <1>1, HeadTailProperties
<1>3. DOMAIN v = 1 .. l - 1
  BY <1>2, LenProperties
<1> QED
  BY <1>1, <1>2, <1>3

\* A confirmation joins the frames.
LEMMA ClearStatus ==
  ASSUME NEW u \in Seq(Frame), NEW x \in Frame, x.type # "IPV4", NEW v, v = Append(u, x),
         NEW s, Clear(u, s, 1)
  PROVE  Clear(v, s, 1)
<1>0. PICK l \in Nat : Joined(u, x, v, l)
  BY AppendFacts
<1>1. /\ l = Len(u) /\ Len(v) = l + 1
      /\ DOMAIN u = 1 .. l /\ DOMAIN v = 1 .. l + 1
      /\ \A i \in 1 .. l : v[i] = u[i]
      /\ v[l + 1] = x
  BY <1>0 DEF Joined
<1>2. ASSUME NEW j \in 1 .. l + 1
      PROVE  v[j].type # "IPV4"
  <2>0. j \in 1 .. l \/ j = l + 1
    OBVIOUS
  <2>1. CASE j \in 1 .. l
    <3>1. j \in 1 .. l /\ j >= 1
      BY <2>1
    <3> QED
      BY <1>1, <3>1 DEF Clear
  <2>2. CASE j = l + 1
    BY <1>1, <2>2
  <2> QED
    BY <2>0, <2>1, <2>2
<1> QED
  BY <1>1, <1>2 DEF Clear

\* The frames at the head are handled.
LEMMA ClearTail ==
  ASSUME NEW u \in Seq(Frame), u # << >>, NEW v, v = Tail(u),
         NEW s, NEW k \in Nat, Clear(u, s, k + 1)
  PROVE  Clear(v, s, k)
<1>1. PICK l \in Nat :
           /\ l = Len(u) /\ Len(v) = l - 1 /\ l > 0
           /\ DOMAIN u = 1 .. l /\ DOMAIN v = 1 .. l - 1
           /\ \A i \in 1 .. l - 1 : v[i] = u[i + 1]
  BY TailFacts
<1>2. ASSUME NEW j \in 1 .. l - 1, j >= k
      PROVE  v[j].type # "IPV4"
  <2>1. j + 1 \in 1 .. l /\ j + 1 >= k + 1
    BY <1>2
  <2>2. u[j + 1].type # "IPV4"
    BY <1>1, <2>1 DEF Clear
  <2> QED
    BY <1>1, <2>2
<1> QED
  BY <1>1, <1>2 DEF Clear

\* The first frame is handled, the response stays the only one.
LEMMA OneTail ==
  ASSUME NEW cs \in [Nat -> Cursor], NEW u \in Seq(Frame), u # << >>, NEW v, v = Tail(u),
         NEW ds, Shorter(ds, cs), NEW s, One(cs, u, s)
  PROVE  One(ds, v, s)
<1>1. PICK l \in Nat :
           /\ l = Len(u) /\ Len(v) = l - 1 /\ l > 0
           /\ DOMAIN u = 1 .. l /\ DOMAIN v = 1 .. l - 1
           /\ \A i \in 1 .. l - 1 : v[i] = u[i + 1]
  BY TailFacts
<1>2. ASSUME NEW k \in 1 .. l, Closed(ds[k])
      PROVE  Clear(v, s, k) \/ \A j \in 1 .. l - 1 : j < k => v[j].type # "IPV4"
  <2>1. k + 1 \in 1 .. l + 1 /\ k \in Nat
    OBVIOUS
  <2>2. Closed(cs[k + 1])
    BY <1>2, <2>1 DEF Shorter
  <2>3. CASE Clear(u, s, k + 1)
    BY <2>1, <2>3, ClearTail
  <2>4. CASE \A j \in 1 .. l : j < k + 1 => u[j].type # "IPV4"
    <3>1. ASSUME NEW j \in 1 .. l - 1, j < k
          PROVE  v[j].type # "IPV4"
      <4>1. j + 1 \in 1 .. l /\ j + 1 < k + 1
        BY <3>1
      <4> QED
        BY <1>1, <2>4, <4>1
    <3> QED
      BY <3>1
  <2> QED
    BY <1>1, <2>1, <2>2, <2>3, <2>4 DEF One
<1>3. l - 1 + 1 = l
  OBVIOUS
<1> QED
  BY <1>1, <1>2, <1>3 DEF One

\* A confirmation is no response.
LEMMA OneStatus ==
  ASSUME NEW cs \in [Nat -> Cursor], NEW u \in Seq(Frame), NEW x \in Frame,
         x.type # "IPV4", NEW v, v = Append(u, x),
         NEW ds, Longer(ds, cs, Len(u) + 1, cs[Len(u) + 1]), NEW s, One(cs, u, s)
  PROVE  One(ds, v, s)
<1>0. PICK l \in Nat : Joined(u, x, v, l)
  BY AppendFacts
<1>1. /\ l = Len(u) /\ Len(v) = l + 1
      /\ DOMAIN u = 1 .. l /\ DOMAIN v = 1 .. l + 1
      /\ \A i \in 1 .. l : v[i] = u[i]
      /\ v[l + 1] = x
  BY <1>0 DEF Joined
<1>9. /\ ds[l + 2] = cs[l + 1]
      /\ \A k \in 1 .. l + 1 : ds[k] = cs[k]
  <2>1. Longer(ds, cs, l + 1, cs[l + 1]) /\ l + 1 + 1 = l + 2
    BY <1>1
  <2> QED
    BY <2>1 DEF Longer
<1>2. ASSUME NEW k \in 1 .. l + 1
      PROVE  /\ Clear(u, s, k) => Clear(v, s, k)
             /\ (\A j \in 1 .. l : j < k => u[j].type # "IPV4")
                  => (\A j \in 1 .. l + 1 : j < k => v[j].type # "IPV4")
  <2>1. \A j \in 1 .. l + 1 : j \in 1 .. l \/ j = l + 1
    OBVIOUS
  <2>2. Clear(u, s, k) => Clear(v, s, k)
    BY <1>1, <2>1 DEF Clear
  <2> QED
    BY <1>1, <2>1, <2>2
<1>3. ASSUME NEW k \in 1 .. l + 1, Closed(ds[k])
      PROVE  Clear(v, s, k) \/ \A j \in 1 .. l + 1 : j < k => v[j].type # "IPV4"
  <2>1. Closed(cs[k])
    BY <1>3, <1>9
  <2>2. Clear(u, s, k) \/ \A j \in 1 .. l : j < k => u[j].type # "IPV4"
    BY <1>1, <2>1 DEF One
  <2> QED
    BY <1>2, <2>2
<1>4. ASSUME Closed(ds[l + 2])
      PROVE  Clear(v, s, l + 2) \/ \A j \in 1 .. l + 1 : j < l + 2 => v[j].type # "IPV4"
  <2>1. Closed(cs[l + 1]) /\ l + 1 \in 1 .. l + 1
    BY <1>4, <1>9
  <2>2. Clear(u, s, l + 1) \/ \A j \in 1 .. l : j < l + 1 => u[j].type # "IPV4"
    BY <1>1, <2>1 DEF One
  <2>3. CASE Clear(u, s, l + 1)
    <3>1. \A j \in 1 .. l + 1 : ~(j >= l + 2)
      OBVIOUS
    <3> QED
      BY <1>1, <2>3, <3>1 DEF Clear
  <2>4. CASE \A j \in 1 .. l : j < l + 1 => u[j].type # "IPV4"
    <3>1. \A j \in 1 .. l + 1 : (j \in 1 .. l /\ j < l + 1) \/ j = l + 1
      OBVIOUS
    <3> QED
      BY <1>1, <2>4, <3>1
  <2> QED
    BY <2>2, <2>3, <2>4
<1>5. \A k \in 1 .. l + 1 + 1 : k \in 1 .. l + 1 \/ k = l + 2
  OBVIOUS
<1> QED
  BY <1>1, <1>3, <1>4, <1>5 DEF One

\* The response is sent when nothing is left of others.
LEMMA OneAnswer ==
  ASSUME NEW u \in Seq(Frame), NEW s, Clear(u, s, 1), NEW cs, NEW p \in Seq(Token)
  PROVE  One(cs, u, Append(s, p))
<1>1. PICK l \in Nat : l = Len(u) /\ DOMAIN u = 1 .. l
  BY LenProperties
<1>2. s = << >> /\ \A j \in 1 .. l : u[j].type # "IPV4"
  <2>1. \A j \in 1 .. l : j >= 1
    OBVIOUS
  <2> QED
    BY <1>1, <2>1 DEF Clear
<1>3. Len(Append(s, p)) = 1
  <2>1. << >> \in Seq(Seq(Token)) /\ Len(<< >>) = 0
    BY EmptySeq
  <2>2. Len(Append(<< >>, p)) = Len(<< >>) + 1
    BY <2>1, AppendProperties
  <2> QED
    BY <1>2, <2>1, <2>2
<1> QED
  BY <1>1, <1>2, <1>3 DEF One

\* A piece of it is on its way to the client.
LEMMA OnePiece ==
  ASSUME NEW cs \in [Nat -> Cursor], NEW u \in Seq(Frame), NEW x \in Frame,
         NEW v, v = Append(u, x),
         NEW e, NEW ds, Longer(ds, cs, Len(u) + 1, e),
         NEW s \in Seq(Seq(Token)), s # << >>, One(cs, u, s), NEW t \in Seq(Seq(Token)),
         Len(t) <= Len(s), Closed(e) => Len(t) = Len(s) - 1
  PROVE  One(ds, v, t)
<1>0. PICK l \in Nat : Joined(u, x, v, l)
  BY AppendFacts
<1>1. /\ l = Len(u) /\ Len(v) = l + 1
      /\ DOMAIN u = 1 .. l /\ DOMAIN v = 1 .. l + 1
      /\ \A i \in 1 .. l : v[i] = u[i]
      /\ v[l + 1] = x
  BY <1>0 DEF Joined
<1>9. /\ ds[l + 2] = e
      /\ \A k \in 1 .. l + 1 : ds[k] = cs[k]
  <2>1. Longer(ds, cs, l + 1, e) /\ l + 1 + 1 = l + 2
    BY <1>1
  <2> QED
    BY <2>1 DEF Longer
<1>2. Len(s) \in Nat \ {0} /\ Len(s) <= 1 /\ Len(t) \in Nat
  BY EmptySeq, LenProperties DEF One
<1>3. Len(t) <= 1 /\ (Closed(e) => Len(t) = 0)
  <2>1. PICK i \in Nat, j \in Nat : i = Len(s) /\ j = Len(t)
    BY <1>2
  <2>2. i = 1 /\ j <= 1 /\ (Closed(e) => j = 0)
    BY <1>2, <2>1
  <2> QED
    BY <2>1, <2>2
<1>4. Closed(e) => t = << >>
  BY <1>2, <1>3, EmptySeq
<1>5. ASSUME NEW k \in 1 .. l + 1, Closed(ds[k])
      PROVE  \A j \in 1 .. l + 1 : j < k => v[j].type # "IPV4"
  <2>1. Closed(cs[k])
    BY <1>5, <1>9
  <2>2. \A j \in 1 .. l : j < k => u[j].type # "IPV4"
    BY <1>1, <2>1 DEF One, Clear
  <2>3. \A j \in 1 .. l + 1 : j < k => j \in 1 .. l
    OBVIOUS
  <2> QED
    BY <1>1, <2>2, <2>3
<1>6. Closed(ds[l + 2]) => Clear(v, t, l + 2)
  <2>1. \A j \in 1 .. l + 1 : ~(j >= l + 2)
    OBVIOUS
  <2> QED
    BY <1>1, <1>4, <1>9, <2>1 DEF Clear
<1>7. \A k \in 1 .. l + 1 + 1 : k \in 1 .. l + 1 \/ k = l + 2
  OBVIOUS
<1> QED
  BY <1>1, <1>3, <1>5, <1>6, <1>7 DEF One

\* The piece that completes it is handled: nothing is left.
LEMMA OneRead ==
  ASSUME NEW cs, NEW u \in Seq(Frame), u # << >>, u[1].type = "IPV4",
         NEW s, One(cs, u, s), Closed(cs[2]), NEW v, v = Tail(u)
  PROVE  Clear(v, s, 1)
<1>1. PICK l \in Nat :
           /\ l = Len(u) /\ Len(v) = l - 1 /\ l > 0
           /\ DOMAIN u = 1 .. l /\ DOMAIN v = 1 .. l - 1
           /\ \A i \in 1 .. l - 1 : v[i] = u[i + 1]
  BY TailFacts
<1>2. 2 \in 1 .. l + 1 /\ 1 \in 1 .. l /\ 1 < 2 /\ 1 + 1 = 2
  BY <1>1
<1>3. Clear(u, s, 2)
  BY <1>1, <1>2 DEF One
<1>4. Clear(u, s, 1 + 1)
  BY <1>2, <1>3
<1> QED
  BY <1>4, ClearTail

-----------------------------------------------------------------------------
(* The client, the server and the response between them                      *)

\* No confirmation is on its way.
Quiet == \A k \in DOMAIN up : ~Status(k)

\* Where the server and the responses are before and after it takes the frame.
Pre == Clear(up, down, 1) /\ pending = IF pc = "head" THEN 0 ELSE req
Post(cs) ==
  IF pc = "head" THEN Clear(up, down, 1) /\ pending = req
  ELSE One(cs, up, down) /\ pending = 0 /\ req \in accepted

\* The frame waited for is on its way, or its confirmation is.
Unconfirmed == air = <<[id |-> frameId, part |-> pc, req |-> req]>> /\ Pre /\ Quiet
Confirmed(cs) ==
  /\ air = << >>
  /\ \A k, j \in DOMAIN up : Status(k) /\ Status(j) => k = j
  /\ \A k \in DOMAIN up : Status(k) => IF up[k].delivery = "success" THEN Post(cs) ELSE Pre

\* As long as no request failed.
Before == IF pc = "idle" THEN req ELSE req - 1
AllOk == \A r \in 1 .. Before : ret[r] = "ok"

\* The client's place tells what the server has and what is left of the response.
InStep(cs) ==
  /\ 1 .. Before \subseteq accepted
  /\ pc = "idle" => Clear(up, down, 1) /\ pending = 0 /\ air = << >> /\ Quiet
  /\ pc = "recv" => /\ One(cs, up, down) /\ pending = 0 /\ req \in accepted
                    /\ recv.state = "DONE" => Clear(up, down, 1)
  /\ Sending => /\ send.state = "DONE" => Post(cs)
                /\ send.state = "RESEND" => Pre
                /\ send.state = "WAIT" => Unconfirmed \/ Confirmed(cs)

\* The frames can be read along cs, and the receiver and the client agree with it.
Flow(cs) ==
  /\ Stream(cs, up, down, answers)
  /\ pc = "recv" => Reading(cs[1], recv, answers)
  /\ AllOk => InStep(cs)

\* Some reading of the frames and responses under way fits, as long as headers
\* were not cut where the receiver cannot join them.
FlowInv == split \/ \E cs : Flow(cs)

\* Types that the lemmas below need.
LEMMA FlowTypes ==
  ASSUME IInv
  PROVE  /\ req \in Nat /\ req \in 0 .. MaxReq
         /\ pc # "idle" => req \in Requests /\ req > 0
         /\ ret \in [Requests -> {"none", "ok", "refused", "timeout", "failed", "busy"}]
<1>1. req \in 0 .. MaxReq /\ MaxReq \in Nat
  BY HttpAssumption DEF IInv, ClientTypes
<1>2. req \in Nat
  BY <1>1
<1>3. pc # "idle" => req > 0
  BY DEF IInv, SendInv, Position, Sending, ClientTypes
<1> QED
  BY <1>1, <1>2, <1>3 DEF IInv, ClientTypes, Requests

\* A request fails.
LEMMA FailFlow ==
  ASSUME NEW cs, Flow(cs), NEW r \in Requests, req' = r, pc' = "idle",
         ret \in [Requests -> {"none", "ok", "refused", "timeout", "failed", "busy"}],
         NEW c, c # "ok", ret' = [ret EXCEPT ![r] = c],
         UNCHANGED <<up, down, answers>>
  PROVE  Flow(cs)'
<1>1. ret'[r] = c /\ r \in 1 .. r
  BY DEF Requests
<1>2. ~AllOk'
  BY <1>1 DEF AllOk, Before
<1> QED
  BY <1>2 DEF Flow

\* A frame is sent, and nothing else is under way.
LEMMA TransmitFlow ==
  ASSUME NEW cs, Flow(cs), NEW r \in Requests, req' = r,
         ret \in [Requests -> {"none", "ok", "refused", "timeout", "failed", "busy"}],
         NEW p \in {"head", "body"}, Transmit(p, r, p),
         UNCHANGED <<up, pending, down, accepted, answers>>,
         (\A i \in 1 .. r - 1 : ret[i] = "ok") =>
           /\ 1 .. r - 1 \subseteq accepted
           /\ Clear(up, down, 1) /\ air = << >> /\ Quiet
           /\ pending = IF p = "head" THEN 0 ELSE r
  PROVE  Flow(cs)'
<1>1. CASE send' = [state |-> "ERROR", frameId |-> NextId(frameId)] /\ pc' = "idle"
           /\ ret' = [ret EXCEPT ![r] = "failed"]
  BY <1>1, FailFlow
<1>2. CASE send' = [state |-> "WAIT", frameId |-> NextId(frameId)] /\ Write(p, r)
           /\ pc' = p /\ UNCHANGED ret
  <2>1. SUFFICES ASSUME AllOk' PROVE InStep(cs)'
    BY <1>2 DEF Flow
  <2>2. Before' = r - 1
    BY <1>2 DEF Before
  <2>3. \A i \in 1 .. r - 1 : ret[i] = "ok"
    BY <1>2, <2>1, <2>2 DEF AllOk
  <2>4. air' = <<[id |-> frameId', part |-> p, req |-> r]>>
    <3>1. air = << >> /\ air' = Append(air, [id |-> frameId', part |-> p, req |-> r])
      BY <1>2, <2>3 DEF Write
    <3> DEFINE f == [id |-> frameId', part |-> p, req |-> r]
    <3>2. Append(<< >>, f) = <<f>>
      OBVIOUS
    <3> QED
      BY <3>1, <3>2
  <2>5. Pre' /\ Quiet'
    BY <1>2, <2>3 DEF Pre, Quiet, Status
  <2>6. Unconfirmed'
    BY <1>2, <2>4, <2>5 DEF Unconfirmed
  <2>7. send'.state = "WAIT" /\ pc' \in {"head", "body"}
    BY <1>2
  <2> QED
    BY <2>2, <2>3, <2>6, <2>7 DEF InStep
<1> QED
  BY <1>1, <1>2 DEF Transmit

\* A request begins: nothing is left of the one before.
LEMMA ConnectFlow ==
  ASSUME IInv, NEW cs, Flow(cs), Connect
  PROVE  Flow(cs)'
<1>1. req \in Nat /\ ret \in [Requests -> {"none", "ok", "refused", "timeout", "failed", "busy"}]
  BY FlowTypes
<1>2. /\ pc = "idle" /\ Transmit("head", req', "head")
      /\ UNCHANGED <<up, pending, down, accepted, answers>>
  BY DEF Connect
<1>3. PICK r \in Requests : r = req' /\ r = req + 1
  BY <1>1, HttpAssumption DEF Connect, Requests
<1>4. Before = r - 1
  BY <1>1, <1>2, <1>3 DEF Before
<1>5. AllOk => InStep(cs)
  BY DEF Flow
<1>6. (\A i \in 1 .. r - 1 : ret[i] = "ok") =>
           /\ 1 .. r - 1 \subseteq accepted
           /\ Clear(up, down, 1) /\ air = << >> /\ Quiet
           /\ pending = 0
  BY <1>2, <1>4, <1>5 DEF AllOk, InStep
<1> QED
  BY <1>1, <1>2, <1>3, <1>6, TransmitFlow

\* The body is sent, or a frame again.
LEMMA AgainFlow ==
  ASSUME IInv, NEW cs, Flow(cs), HeadDone \/ Resend
  PROVE  Flow(cs)'
<1>1. /\ req \in Nat
      /\ pc # "idle" => req \in Requests
      /\ ret \in [Requests -> {"none", "ok", "refused", "timeout", "failed", "busy"}]
  BY FlowTypes
<1>2. PICK p \in {"head", "body"} :
        /\ Transmit(p, req, p) /\ req' = req /\ pc \in {"head", "body"}
        /\ UNCHANGED <<up, pending, down, accepted, answers>>
        /\ \/ pc = "head" /\ p = "body" /\ send.state = "DONE"
           \/ pc = p /\ send.state = "RESEND"
  <2>1. CASE HeadDone
    BY <2>1 DEF HeadDone
  <2>2. CASE Resend
    BY <2>2 DEF Resend, Sending
  <2> QED
    BY <2>1, <2>2
<1>3. PICK r \in Requests : r = req
  BY <1>1, <1>2
<1>4. Before = r - 1 /\ Sending
  BY <1>2, <1>3 DEF Before, Sending
<1>5. AllOk => InStep(cs)
  BY DEF Flow
<1>6. air = << >> /\ Quiet
  BY <1>2 DEF IInv, SendInv, Settled, Quiet
<1>7. (\A i \in 1 .. r - 1 : ret[i] = "ok") =>
           /\ 1 .. r - 1 \subseteq accepted
           /\ Clear(up, down, 1)
           /\ pending = IF p = "head" THEN 0 ELSE r
  <2> SUFFICES ASSUME \A i \in 1 .. r - 1 : ret[i] = "ok"
               PROVE  /\ 1 .. r - 1 \subseteq accepted
                      /\ Clear(up, down, 1)
                      /\ pending = IF p = "head" THEN 0 ELSE r
    OBVIOUS
  <2>1. InStep(cs)
    BY <1>4, <1>5 DEF AllOk
  <2>2. CASE pc = "head" /\ p = "body" /\ send.state = "DONE"
    <3>1. Post(cs)
      BY <1>4, <2>1, <2>2 DEF InStep
    <3> QED
      BY <1>3, <1>4, <2>1, <2>2, <3>1 DEF Post, InStep
  <2>3. CASE pc = p /\ send.state = "RESEND"
    <3>1. Pre
      BY <1>4, <2>1, <2>3 DEF InStep
    <3> QED
      BY <1>3, <1>4, <2>1, <2>3, <3>1 DEF Pre, InStep
  <2> QED
    BY <1>2, <2>2, <2>3
<1> QED
  BY <1>1, <1>2, <1>3, <1>6, <1>7, TransmitFlow

\* A request gives up.
LEMMA GiveUpFlow ==
  ASSUME IInv, NEW cs, Flow(cs),
         SendTimesOut \/ SendGivesUp \/ RecvTimesOut \/ RecvFails
  PROVE  Flow(cs)'
<1>1. /\ pc # "idle" /\ pc' = "idle" /\ req' = req /\ UNCHANGED <<up, down, answers>>
      /\ \E c \in {"timeout", "failed", "busy"} : ret' = [ret EXCEPT ![req] = c]
  BY DEF SendTimesOut, SendGivesUp, RecvTimesOut, RecvFails, Return, module, Sending
<1>2. PICK r \in Requests : r = req
  BY <1>1, FlowTypes
<1>3. PICK c \in {"timeout", "failed", "busy"} : ret' = [ret EXCEPT ![r] = c]
  BY <1>1, <1>2
<1>4. ret \in [Requests -> {"none", "ok", "refused", "timeout", "failed", "busy"}]
  BY FlowTypes
<1> QED
  BY <1>1, <1>2, <1>3, <1>4, FailFlow

\* The client turns to the response.
LEMMA BodyDoneFlow ==
  ASSUME IInv, NEW cs, Flow(cs), BodyDone
  PROVE  Flow(cs)'
<1>1. /\ pc = "body" /\ pc' = "recv" /\ send.state = "DONE" /\ recv' = Fresh
      /\ UNCHANGED <<req, ret, air, up, pending, down, accepted, answers>>
  BY DEF BodyDone, module
<1>2. Stream(cs, up, down, answers)' /\ Reading(cs[1], recv, answers)'
  BY <1>1 DEF Flow, Reading, Fresh
<1>3. Before' = Before /\ Sending
  BY <1>1 DEF Before, Sending
<1>4. AllOk' => AllOk
  BY <1>1, <1>3 DEF AllOk
<1>5. ASSUME AllOk PROVE InStep(cs)'
  <2>1. InStep(cs)
    BY <1>5 DEF Flow
  <2>2. Post(cs)
    BY <1>1, <1>3, <2>1 DEF InStep
  <2>3. One(cs, up', down') /\ pending' = 0 /\ req' \in accepted'
    BY <1>1, <2>2 DEF Post
  <2>4. recv'.state # "DONE"
    BY <1>1 DEF Fresh
  <2>5. 1 .. Before' \subseteq accepted'
    BY <1>1, <1>3, <2>1 DEF InStep
  <2> QED
    BY <1>1, <2>3, <2>4, <2>5 DEF InStep, Sending
<1> QED
  BY <1>2, <1>4, <1>5 DEF Flow

\* The response is complete: sendDataToCloud returns.
LEMMA DoneFlow ==
  ASSUME IInv, NEW cs, Flow(cs), RecvDone
  PROVE  Flow(cs)'
<1>1. /\ pc = "recv" /\ pc' = "idle" /\ recv.state = "DONE"
      /\ UNCHANGED <<req, frameId, send, air, up, pending, down, accepted, answers>>
      /\ \E c \in {"ok", "refused"} : ret' = [ret EXCEPT ![req] = c]
  BY DEF RecvDone, Return, module
<1>2. PICK r \in Requests : r = req
  BY <1>1, FlowTypes
<1>3. PICK c \in {"ok", "refused"} : ret' = [ret EXCEPT ![r] = c]
  BY <1>1, <1>2
<1>4. ret \in [Requests -> {"none", "ok", "refused", "timeout", "failed", "busy"}]
  BY FlowTypes
<1>5. CASE c # "ok"
  BY <1>1, <1>2, <1>3, <1>4, <1>5, FailFlow
<1>6. CASE c = "ok"
  <2>1. Before = r - 1 /\ Before' = r /\ r \in Nat \ {0}
    BY <1>1, <1>2 DEF Before, Requests
  <2>2. AllOk' => AllOk
    <3> SUFFICES ASSUME AllOk', NEW i \in 1 .. r - 1 PROVE ret[i] = "ok"
      BY <2>1 DEF AllOk
    <3>1. i \in 1 .. r /\ i # r /\ i \in Requests
      BY <2>1, HttpAssumption DEF Requests
    <3>2. ret'[i] = "ok"
      BY <2>1, <3>1 DEF AllOk
    <3> QED
      BY <1>3, <1>4, <3>1, <3>2
  <2>3. ASSUME AllOk PROVE InStep(cs)'
    <3>1. InStep(cs)
      BY <2>3 DEF Flow
    <3>2. pending = 0 /\ r \in accepted /\ Clear(up, down, 1) /\ 1 .. r - 1 \subseteq accepted
      BY <1>1, <1>2, <2>1, <3>1 DEF InStep
    <3>3. 1 .. r \subseteq accepted
      <4>1. \A i \in 1 .. r : i \in 1 .. r - 1 \/ i = r
        BY <2>1
      <4> QED
        BY <3>2, <4>1
    <3>4. air = << >> /\ Quiet
      BY <1>1 DEF IInv, SendInv, Position, Settled, Quiet
    <3>5. Quiet'
      BY <1>1, <3>4 DEF Quiet, Status
    <3> QED
      BY <1>1, <2>1, <3>2, <3>3, <3>4, <3>5 DEF InStep, Sending
  <2>4. Stream(cs, up, down, answers)'
    BY <1>1 DEF Flow
  <2> QED
    BY <1>1, <2>2, <2>3, <2>4 DEF Flow
<1> QED
  BY <1>5, <1>6

\* The clock and the loops change nothing the invariant speaks of.
LEMMA StayFlow ==
  ASSUME NEW cs, Flow(cs),
         UNCHANGED <<pc, req, frameId, send, recv, ret, module>>
  PROVE  Flow(cs)'
<1>1. /\ Before' = Before /\ (AllOk' <=> AllOk) /\ (Quiet' <=> Quiet)
  BY DEF Before, AllOk, Quiet, Status, module
<1>2. (Pre' <=> Pre) /\ (Post(cs)' <=> Post(cs))
  BY DEF Pre, Post, module
<1>3. (Unconfirmed' <=> Unconfirmed) /\ (Confirmed(cs)' <=> Confirmed(cs))
  BY <1>1, <1>2 DEF Unconfirmed, Confirmed, Status, module
<1>4. InStep(cs)' <=> InStep(cs)
  BY <1>1, <1>2, <1>3 DEF InStep, Sending, module
<1> QED
  BY <1>1, <1>4 DEF Flow, module

\* A step of the XBee or of its driver leaves the client's place as it is.
LEMMA InStepFlow ==
  ASSUME NEW cs, Flow(cs), NEW ds, Stream(ds, up', down', answers'),
         pc = "recv" => Reading(ds[1], recv', answers'),
         UNCHANGED <<pc, req, ret>>,
         InStep(cs) => InStep(ds)'
  PROVE  Flow(ds)'
<1>1. AllOk' => AllOk
  BY DEF AllOk, Before
<1>2. Stream(ds, up, down, answers)'
  OBVIOUS
<1>3. pc' = "recv" => Reading(ds[1], recv, answers)'
  OBVIOUS
<1> QED
  BY <1>1, <1>2, <1>3 DEF Flow

\* The handlers take a confirmation or a piece of the response.
LEMMA DispatchFlow ==
  ASSUME IInv, NEW cs, Flow(cs), Dispatch
  PROVE  \E ds : Flow(ds)'
<1>1. /\ up # << >> /\ up' = Tail(up) /\ pc # "idle"
      /\ UNCHANGED <<pc, req, frameId, ret, air, pending, down, accepted, answers>>
      /\ \/ /\ Head(up).type = "TX_STATUS" /\ UNCHANGED recv
            /\ StatusHandler(Head(up).id, Head(up).delivery)
         \/ /\ Head(up).type = "IPV4" /\ UNCHANGED send
            /\ recv' = Receive(recv, Head(up).payload)
  BY DEF Dispatch
<1>2. up \in Seq(Frame) /\ recv \in Recvs
  BY DEF IInv, ModuleTypes, ClientTypes
<1>3. Head(up) = up[1]
  BY <1>1, <1>2
<1>4. PICK l \in Nat :
           /\ l = Len(up) /\ Len(up') = l - 1 /\ l > 0
           /\ DOMAIN up = 1 .. l /\ DOMAIN up' = 1 .. l - 1
           /\ \A i \in 1 .. l - 1 : up'[i] = up[i + 1]
  BY <1>1, <1>2, TailFacts
<1>5. cs \in [Nat -> Cursor] /\ Chain(cs, up, answers) /\ Rest(cs[Len(up) + 1], down, answers)
  BY DEF Flow, Stream
<1>6. PICK ds : Shorter(ds, cs)
  BY <1>5, ShorterLemma
<1>7. Chain(ds, up', answers) /\ Link(cs[1], up[1], cs[2], answers)
  BY <1>1, <1>2, <1>5, <1>6, ChainTail
<1>8. Stream(ds, up', down', answers')
  <2>1. ds[Len(up') + 1] = cs[Len(up) + 1]
    <3>1. l - 1 + 1 = l /\ ds[l] = cs[l + 1]
      BY <1>6 DEF Shorter
    <3> QED
      BY <1>4, <3>1
  <2> QED
    BY <1>1, <1>5, <1>6, <1>7, <2>1 DEF Stream, Shorter
<1>9. ds[1] = cs[2] /\ cs[1] \in Cursor /\ cs[2] \in Cursor
  <2>1. 1 + 1 = 2 /\ 1 \in Nat /\ 2 \in Nat
    OBVIOUS
  <2> QED
    BY <1>5, <1>6, <2>1 DEF Shorter
<1>10. pc = "recv" => /\ Reading(ds[1], recv', answers')
                      /\ recv'.state = "DONE" =>
                           recv.state = "DONE" \/ (up[1].type = "IPV4" /\ Closed(cs[2]))
  <2> SUFFICES ASSUME pc = "recv"
               PROVE  /\ Reading(ds[1], recv', answers')
                      /\ recv'.state = "DONE" =>
                           recv.state = "DONE" \/ (up[1].type = "IPV4" /\ Closed(cs[2]))
    OBVIOUS
  <2>1. Reading(cs[1], recv, answers)
    BY DEF Flow
  <2>2. CASE up[1].type = "TX_STATUS" /\ UNCHANGED recv
    <3>1. cs[2] = cs[1]
      BY <1>7, <2>2 DEF Link
    <3> QED
      BY <1>1, <1>9, <2>1, <2>2, <3>1
  <2>3. CASE up[1].type = "IPV4" /\ recv' = Receive(recv, up[1].payload)
    <3>1. Takes(cs[1], up[1].payload, cs[2]) /\ AnswerOf(cs[2]) \in answers
      BY <1>7, <2>3 DEF Link
    <3>2. PICK q : q = Receive(recv, up[1].payload)
      OBVIOUS
    <3>3. /\ Reading(cs[2], q, answers)
          /\ q.state = "DONE" => recv.state = "DONE" \/ Closed(cs[2])
      BY <1>2, <1>9, <2>1, <3>1, <3>2, ReadPiece
    <3>4. recv' = q /\ answers' = answers
      BY <1>1, <2>3, <3>2
    <3> QED
      BY <1>9, <2>3, <3>3, <3>4
  <2> QED
    BY <1>1, <1>3, <2>2, <2>3
<1>11. \A k \in DOMAIN up' : k + 1 \in DOMAIN up /\ up'[k] = up[k + 1] /\ (Status(k)' <=> Status(k + 1))
  <2> SUFFICES ASSUME NEW k \in 1 .. l - 1
               PROVE  k + 1 \in 1 .. l /\ up'[k] = up[k + 1] /\ (Status(k)' <=> Status(k + 1))
    BY <1>4
  <2>1. k + 1 \in 1 .. l
    OBVIOUS
  <2> QED
    BY <1>4, <2>1 DEF Status
<1>12. Clear(up, down, 1) => Clear(up', down', 1)
  <2>1. \A j \in DOMAIN up : j >= 1 + 1 => j >= 1
    BY <1>4
  <2>2. Clear(up, down, 1) => Clear(up, down, 1 + 1)
    BY <2>1 DEF Clear
  <2> QED
    BY <1>1, <1>2, <2>2, ClearTail
<1>13. One(cs, up, down) => One(ds, up', down')
  BY <1>1, <1>2, <1>5, <1>6, OneTail
<1>14. (Pre => Pre') /\ (Post(cs) => Post(ds)')
  BY <1>1, <1>12, <1>13 DEF Pre, Post
<1>15. Quiet => Quiet'
  BY <1>11 DEF Quiet
<1>16. ASSUME InStep(cs) PROVE InStep(ds)'
  <2>1. 1 .. Before' \subseteq accepted' /\ pc' # "idle"
    BY <1>1, <1>16 DEF InStep, Before
  <2>2. CASE pc = "recv"
    <3>1. One(cs, up, down) /\ pending = 0 /\ req \in accepted
          /\ (recv.state = "DONE" => Clear(up, down, 1))
      BY <1>16, <2>2 DEF InStep
    <3>2. recv'.state = "DONE" => Clear(up', down', 1)
      <4>1. CASE recv.state = "DONE"
        BY <1>12, <3>1, <4>1
      <4>2. CASE up[1].type = "IPV4" /\ Closed(cs[2])
        BY <1>1, <1>2, <3>1, <4>2, OneRead
      <4> QED
        BY <1>10, <2>2, <4>1, <4>2
    <3> QED
      BY <1>1, <1>13, <2>1, <2>2, <3>1, <3>2 DEF InStep, Sending
  <2>3. CASE Sending
    <3>1. /\ send.state = "DONE" => Post(cs)
          /\ send.state = "RESEND" => Pre
          /\ send.state = "WAIT" => Unconfirmed \/ Confirmed(cs)
      BY <1>16, <2>3 DEF InStep
    <3>2. send.state \in {"WAIT", "RESEND", "DONE"}
      BY <2>3 DEF IInv, SendInv, Position
    <3>3. CASE UNCHANGED send
      <4>1. Unconfirmed => Unconfirmed'
        BY <1>1, <1>14, <1>15 DEF Unconfirmed
      <4>2. Confirmed(cs) => Confirmed(ds)'
        <5> SUFFICES ASSUME Confirmed(cs) PROVE Confirmed(ds)'
          OBVIOUS
        <5>1. ASSUME NEW k \in DOMAIN up', NEW j \in DOMAIN up', Status(k)', Status(j)'
              PROVE  k = j
          <6>1. k + 1 = j + 1
            BY <1>11, <5>1 DEF Confirmed
          <6>2. k \in 1 .. l - 1 /\ j \in 1 .. l - 1
            BY <1>4
          <6> QED
            BY <6>1, <6>2
        <5>2. ASSUME NEW k \in DOMAIN up', Status(k)'
              PROVE  IF up'[k].delivery = "success" THEN Post(ds)' ELSE Pre'
          <6>1. k + 1 \in DOMAIN up /\ up'[k] = up[k + 1] /\ Status(k + 1)
            BY <1>11, <5>2
          <6>2. IF up[k + 1].delivery = "success" THEN Post(cs) ELSE Pre
            BY <6>1 DEF Confirmed
          <6> QED
            BY <1>14, <6>1, <6>2
        <5> QED
          BY <1>1, <5>1, <5>2 DEF Confirmed
      <4>3. Sending' /\ pc' = pc
        BY <1>1, <2>3 DEF Sending
      <4> QED
        BY <1>14, <2>1, <2>3, <3>1, <3>3, <4>1, <4>2, <4>3 DEF InStep, Sending
    <3>4. CASE /\ up[1].type = "TX_STATUS" /\ send.state = "WAIT"
               /\ send'.state = IF up[1].delivery = "success" THEN "DONE" ELSE "RESEND"
      <4>1. 1 \in DOMAIN up /\ Status(1)
        BY <1>4, <3>4 DEF Status
      <4>2. Confirmed(cs)
        BY <3>1, <3>4, <4>1 DEF Unconfirmed, Quiet
      <4>3. IF up[1].delivery = "success" THEN Post(cs) ELSE Pre
        BY <4>1, <4>2 DEF Confirmed
      <4>4. IF send'.state = "DONE" THEN Post(ds)' ELSE Pre' /\ send'.state = "RESEND"
        BY <1>14, <3>4, <4>3
      <4>5. Sending' /\ pc' = pc /\ pc # "recv"
        BY <1>1, <2>3 DEF Sending
      <4> QED
        BY <2>1, <4>4, <4>5 DEF InStep, Sending
    <3>5. \/ UNCHANGED send
          \/ /\ up[1].type = "TX_STATUS" /\ send.state = "WAIT"
             /\ send'.state = IF up[1].delivery = "success" THEN "DONE" ELSE "RESEND"
      <4>1. send \in [state : {"NONE", "WAIT", "RESEND", "DONE", "ERROR"}, frameId : 0 .. MaxId]
        BY DEF IInv, ClientTypes
      <4> QED
        BY <1>1, <1>3, <4>1 DEF StatusHandler
    <3> QED
      BY <3>3, <3>4, <3>5
  <2> QED
    BY <1>1, <2>2, <2>3 DEF Sending, IInv, ClientTypes
<1>17. Flow(ds)'
  BY <1>1, <1>8, <1>10, <1>16, InStepFlow
<1> QED
  BY <1>17

\* The XBee confirms a frame, or reports that it could not deliver it.
LEMMA ConfirmFlow ==
  ASSUME IInv, NEW cs, Flow(cs), Deliver \/ Undeliverable
  PROVE  \E ds : Flow(ds)'
<1>1. /\ UNCHANGED <<pc, req, frameId, send, recv, ret>>
      /\ air # << >> /\ air' = Tail(air)
  BY DEF Deliver, Undeliverable, client
<1>2. up \in Seq(Frame) /\ air \in Seq(Sent) /\ down \in Seq(Seq(Token))
  BY DEF IInv, ModuleTypes
<1>3. PICK h \in Sent : h = Head(air)
  BY <1>1, <1>2, HeadTailProperties
<1>4. PICK d \in Deliveries :
        /\ Confirm(h, d)
        /\ \/ d = "success" /\ Serve(h)
           \/ d # "success" /\ UNCHANGED <<pending, down, accepted, answers>>
  <2>1. CASE Deliver
    BY <1>3, <2>1 DEF Deliver, Deliveries
  <2>2. CASE Undeliverable
    BY <1>3, <2>2 DEF Undeliverable, Deliveries
  <2> QED
    BY <2>1, <2>2
<1>5. PICK x \in Frame : /\ x.type = "TX_STATUS" /\ x.delivery = d /\ up' = Append(up, x)
  <2> DEFINE f == [type |-> "TX_STATUS", id |-> h.id, delivery |-> d]
  <2>1. f \in Frame
    BY DEF Frame, Sent
  <2>2. f.type = "TX_STATUS" /\ f.delivery = d
    OBVIOUS
  <2>3. up' = Append(up, f)
    BY <1>4 DEF Confirm
  <2> HIDE DEF f
  <2> QED
    BY <2>1, <2>2, <2>3
<1>6. PICK v : v = up'
  OBVIOUS
<1>7. PICK l \in Nat : Joined(up, x, v, l)
  BY <1>2, <1>5, <1>6, AppendFacts
<1>8. /\ l = Len(up) /\ Len(v) = l + 1
      /\ DOMAIN up = 1 .. l /\ DOMAIN v = 1 .. l + 1
      /\ \A i \in 1 .. l : v[i] = up[i]
      /\ v[l + 1] = x
  BY <1>7 DEF Joined
<1>9. cs \in [Nat -> Cursor] /\ Chain(cs, up, answers) /\ Rest(cs[Len(up) + 1], down, answers)
  BY DEF Flow, Stream
<1>10. PICK c \in Cursor : c = cs[Len(up) + 1]
  BY <1>8, <1>9
<1>11. PICK n \in Nat : n = Len(up) + 1
  BY <1>8
<1>19. PICK ds : Longer(ds, cs, n, c)
  BY <1>9, LongerLemma
<1>12. answers \subseteq answers' /\ Rest(c, down', answers')
  <2>1. CASE UNCHANGED <<down, answers>>
    BY <1>9, <1>10, <2>1
  <2>2. ASSUME NEW code \in Nat, Answer(code)
        PROVE  answers \subseteq answers' /\ Rest(c, down', answers')
    <3>1. PICK m \in BodyLengths :
            /\ down' = Append(down, Response(code, m))
            /\ answers' = answers \cup {[status |-> code, length |-> m]}
      BY <2>2 DEF Answer
    <3>2. PICK t, b : t = down' /\ b = answers'
      OBVIOUS
    <3>3. m \in Nat /\ answers \subseteq b /\ [status |-> code, length |-> m] \in b
      BY <3>1, <3>2, HttpAssumption
    <3>4. Rest(c, down, answers) /\ t = Append(down, Response(code, m))
      BY <1>9, <1>10, <3>1, <3>2
    <3>5. Rest(c, t, b)
      BY <1>2, <3>3, <3>4, RestAnswer
    <3> QED
      BY <3>2, <3>3, <3>5
  <2> QED
    BY <1>4, <2>1, <2>2 DEF Serve
<1>13. Link(c, x, c, answers')
  BY <1>5 DEF Link
<1>14. /\ ds \in [Nat -> Cursor] /\ Chain(ds, v, answers')
       /\ Len(v) = Len(up) + 1 /\ ds[Len(v) + 1] = c
       /\ \A k \in 1 .. Len(up) + 1 : ds[k] = cs[k]
  <2>1. PICK b : b = answers'
    OBVIOUS
  <2>2. Link(cs[Len(up) + 1], x, c, b) /\ answers \subseteq b /\ v = Append(up, x)
    BY <1>5, <1>6, <1>10, <1>12, <1>13, <2>1
  <2>3. Link(cs[n], x, c, b)
    BY <1>11, <2>2
  <2>4. Chain(ds, v, b)
    BY <1>2, <1>9, <1>11, <1>19, <2>2, <2>3, ChainAppend
  <2> QED
    BY <1>8, <1>11, <1>19, <2>1, <2>4 DEF Longer
<1>15. Stream(ds, up', down', answers')
  BY <1>6, <1>12, <1>14 DEF Stream
<1>16. pc = "recv" => Reading(ds[1], recv', answers')
  <2>1. 1 \in 1 .. Len(up) + 1
    BY <1>8
  <2>2. ds[1] = cs[1]
    BY <1>14, <2>1
  <2> QED
    BY <1>1, <1>12, <2>2 DEF Flow, Reading, Done
<1>17. ASSUME InStep(cs) PROVE InStep(ds)'
  <2>1. Sending /\ send.state = "WAIT"
    BY <1>1, <1>17 DEF InStep, IInv, SendInv, Position, Settled, ClientTypes, Sending
  <2>2. Unconfirmed
    BY <1>1, <1>17, <2>1 DEF InStep, Confirmed
  <2>3. /\ air = <<[id |-> frameId, part |-> pc, req |-> req]>>
        /\ Clear(up, down, 1) /\ pending = (IF pc = "head" THEN 0 ELSE req) /\ Quiet
    BY <2>2 DEF Unconfirmed, Pre
  <2>4. h.part = pc /\ h.req = req /\ air' = << >>
    <3> DEFINE f == [id |-> frameId, part |-> pc, req |-> req]
    <3>1. Head(<<f>>) = f /\ Tail(<<f>>) = << >>
      OBVIOUS
    <3>2. h = f /\ air' = << >>
      BY <1>1, <1>3, <2>3, <3>1
    <3> QED
      BY <3>2
  <2>5. Clear(v, down, 1)
    <3>1. x.type # "IPV4" /\ v = Append(up, x)
      BY <1>5, <1>6
    <3> QED
      BY <1>2, <2>3, <3>1, ClearStatus
  <2>6. req > 0 /\ req \in Nat /\ 1 .. Before' \subseteq accepted
    BY <1>1, <1>17, <2>1, FlowTypes DEF InStep, Before, Sending
  <2>7. accepted \subseteq accepted' /\ (IF d = "success" THEN Post(ds)' ELSE Pre')
    <3>1. CASE d # "success"
      <4>1. UNCHANGED <<pending, down, accepted, pc, req>> /\ Clear(up', down', 1)
        BY <1>1, <1>4, <1>6, <2>5, <3>1
      <4> QED
        BY <2>3, <3>1, <4>1 DEF Pre
    <3>2. CASE d = "success" /\ pc = "head"
      <4>1. pending' = req /\ UNCHANGED <<down, accepted>>
        BY <1>4, <2>3, <2>4, <3>2 DEF Serve
      <4>2. Clear(up', down', 1) /\ pc' = "head" /\ req' = req
        BY <1>1, <1>6, <2>5, <3>2, <4>1
      <4> QED
        BY <3>2, <4>1, <4>2 DEF Post
    <3>3. CASE d = "success" /\ pc = "body"
      <4>1. pending' = 0 /\ accepted' = accepted \cup {req} /\ Answer(200)
        BY <1>4, <2>3, <2>4, <2>6, <3>3 DEF Serve
      <4>2. PICK m \in BodyLengths : down' = Append(down, Response(200, m))
        BY <4>1 DEF Answer
      <4>3. PICK p \in Seq(Token) : p = Response(200, m)
        BY HttpAssumption, ResponseTypes
      <4>4. v \in Seq(Frame)
        BY <1>2, <1>5, <1>6, AppendProperties
      <4>5. One(ds, v, Append(down, p))
        BY <2>5, <4>4, OneAnswer
      <4>6. One(ds, up', down') /\ pc' = "body" /\ req' \in accepted' /\ pending' = 0
        BY <1>1, <1>6, <3>3, <4>1, <4>2, <4>3, <4>5
      <4> QED
        BY <3>3, <4>1, <4>6 DEF Post
    <3> QED
      BY <2>1, <3>1, <3>2, <3>3 DEF Sending
  <2>8. \A k \in DOMAIN up' : Status(k)' <=> k = l + 1
    <3>1. \A k \in 1 .. l : k # l + 1 /\ ~Status(k)
      BY <1>8, <2>3 DEF Quiet
    <3>2. \A k \in 1 .. l + 1 : k \in 1 .. l \/ k = l + 1
      OBVIOUS
    <3> QED
      BY <1>5, <1>6, <1>8, <3>1, <3>2 DEF Status
  <2>9. up'[l + 1].delivery = d
    BY <1>5, <1>6, <1>8
  <2>10. Confirmed(ds)'
    BY <2>4, <2>7, <2>8, <2>9 DEF Confirmed
  <2>11. Sending' /\ send'.state = "WAIT" /\ pc' # "idle" /\ pc' # "recv"
    BY <1>1, <2>1 DEF Sending
  <2> QED
    BY <2>6, <2>7, <2>10, <2>11 DEF InStep
<1>18. Flow(ds)'
  BY <1>1, <1>15, <1>16, <1>17, InStepFlow
<1> QED
  BY <1>18

\* The XBee gets a piece of a response.
LEMMA ForwardFlow ==
  ASSUME IInv, NEW cs, Flow(cs), Forward, ~split'
  PROVE  \E ds : Flow(ds)'
<1>1. /\ UNCHANGED <<pc, req, frameId, send, recv, ret, air, pending, accepted, answers>>
      /\ down # << >>
  BY DEF Forward, client
<1>2. up \in Seq(Frame) /\ down \in Seq(Seq(Token)) /\ down' \in Seq(Seq(Token))
  BY ForwardTypes DEF IInv, ModuleTypes
<1>3. PICK h \in Seq(Token) : h = Head(down) /\ h = down[1]
  BY <1>1, <1>2, HeadTailProperties
<1>4. PICK k \in 1 .. Len(h) :
        /\ up' = Append(up, [type |-> "IPV4", payload |-> SubSeq(h, 1, k)])
        /\ down' = IF k = Len(h) THEN Tail(down) ELSE <<SubSeq(h, k + 1, Len(h))>> \o Tail(down)
        /\ ~CutsHeaders(h, k) \/ Joins(h, k)
  BY <1>3 DEF Forward
<1>5. PICK t : t = down'
  OBVIOUS
<1>6. cs \in [Nat -> Cursor] /\ Chain(cs, up, answers) /\ Rest(cs[Len(up) + 1], down, answers)
  BY DEF Flow, Stream
<1>0. Len(up) + 1 \in Nat
  BY <1>2, LenProperties
<1>7. PICK c \in Cursor : c = cs[Len(up) + 1]
  BY <1>0, <1>6
<1>8. PICK e \in Cursor :
           /\ Takes(c, SubSeq(h, 1, k), e) /\ AnswerOf(e) \in answers /\ Rest(e, t, answers)
           /\ Closed(e) => Len(t) = Len(down) - 1
           /\ Len(t) <= Len(down)
  <2>1. t = IF k = Len(h) THEN Tail(down) ELSE <<SubSeq(h, k + 1, Len(h))>> \o Tail(down)
    BY <1>4, <1>5
  <2>2. Rest(c, down, answers)
    BY <1>6, <1>7
  <2>3. PICK e \in Cursor : Leaves(c, SubSeq(h, 1, k), e, down, t, answers)
    <3>1. ~CutsHeaders(h, k) \/ Joins(h, k)
      BY <1>4
    <3> QED
      BY <1>1, <1>2, <1>3, <2>1, <2>2, <3>1, RestCut
  <2> QED
    BY <2>3 DEF Leaves
<1>9. PICK x : x = [type |-> "IPV4", payload |-> SubSeq(h, 1, k)]
  OBVIOUS
<1>10. x.type = "IPV4" /\ x.payload = SubSeq(h, 1, k) /\ up' = Append(up, x)
  BY <1>4, <1>9
<1>11. x \in Frame
  <2>1. up' \in Seq(Frame)
    BY ForwardTypes DEF IInv
  <2>2. PICK u : u = Append(up, x)
    OBVIOUS
  <2>3. u \in Seq(Frame)
    BY <1>10, <2>1, <2>2
  <2>4. up \in Seq(Frame \cup {x}) /\ x \in Frame \cup {x}
    BY <1>2, SeqMonotonic
  <2>5. Len(u) = Len(up) + 1 /\ u[Len(up) + 1] = x
    BY <2>2, <2>4, AppendProperties
  <2>6. Len(up) + 1 \in 1 .. Len(up) + 1
    BY <1>0
  <2> QED
    BY <2>3, <2>5, <2>6, ElementOfSeq
<1>12. PICK v : v = Append(up, x) /\ v = up'
  BY <1>10
<1>23. PICK n \in Nat : n = Len(up) + 1
  BY <1>0
<1>13. PICK ds : Longer(ds, cs, n, e)
  BY <1>6, LongerLemma
<1>14. /\ ds \in [Nat -> Cursor] /\ Chain(ds, v, answers)
       /\ Len(v) = Len(up) + 1 /\ ds[Len(v) + 1] = e
       /\ \A i \in 1 .. Len(up) + 1 : ds[i] = cs[i]
  <2>1. Link(cs[n], x, e, answers)
    BY <1>7, <1>8, <1>10, <1>23 DEF Link
  <2>2. Chain(ds, v, answers)
    BY <1>2, <1>6, <1>11, <1>12, <1>13, <1>23, <2>1, ChainAppend
  <2>3. PICK l \in Nat : Joined(up, x, v, l)
    BY <1>2, <1>11, <1>12, AppendFacts
  <2> QED
    BY <1>13, <1>23, <2>2, <2>3 DEF Joined, Longer
<1>15. Stream(ds, up', down', answers')
  BY <1>1, <1>5, <1>8, <1>12, <1>14 DEF Stream
<1>16. pc = "recv" => Reading(ds[1], recv', answers')
  <2>1. 1 \in 1 .. Len(up) + 1
    BY <1>0
  <2>2. ds[1] = cs[1]
    BY <1>14, <2>1
  <2> QED
    BY <1>1, <2>2 DEF Flow
<1>17. One(cs, up, down) => One(ds, up', down')
  <2> SUFFICES ASSUME One(cs, up, down) PROVE One(ds, v, t)
    BY <1>5, <1>12
  <2>1. Len(t) <= Len(down) /\ (Closed(e) => Len(t) = Len(down) - 1)
    BY <1>8
  <2>2. Longer(ds, cs, Len(up) + 1, e)
    BY <1>13, <1>23
  <2>3. t \in Seq(Seq(Token))
    BY <1>2, <1>5
  <2> QED
    BY <1>1, <1>2, <1>6, <1>11, <1>12, <2>1, <2>2, <2>3, OnePiece
<1>18. ~Clear(up, down, 1)
  BY <1>1 DEF Clear
<1>19. ~Pre /\ (Post(cs) => pc # "head" /\ Post(ds)')
  BY <1>1, <1>17, <1>18 DEF Pre, Post
<1>20. \A i \in DOMAIN up' : Status(i)' => i \in DOMAIN up /\ Status(i) /\ up'[i] = up[i]
  <2>1. PICK l \in Nat : Joined(up, x, v, l)
    BY <1>2, <1>11, <1>12, AppendFacts
  <2>2. \A i \in 1 .. l + 1 : i \in 1 .. l \/ i = l + 1
    OBVIOUS
  <2> QED
    BY <1>10, <1>12, <2>1, <2>2 DEF Joined, Status
<1>21. ASSUME InStep(cs) PROVE InStep(ds)'
  <2>1. 1 .. Before' \subseteq accepted' /\ pc' # "idle"
    BY <1>1, <1>18, <1>21 DEF InStep, Before
  <2>2. CASE pc = "recv"
    BY <1>1, <1>17, <1>18, <1>21, <2>1, <2>2 DEF InStep, Sending
  <2>3. CASE Sending
    <3>1. /\ send.state = "DONE" => Post(cs)
          /\ send.state # "RESEND"
          /\ send.state = "WAIT" => Confirmed(cs)
      BY <1>19, <1>21, <2>3 DEF InStep, Unconfirmed
    <3>2. Confirmed(cs) => Confirmed(ds)'
      BY <1>1, <1>19, <1>20 DEF Confirmed
    <3>3. Sending' /\ send' = send /\ pc' # "recv"
      BY <1>1, <2>3 DEF Sending
    <3> QED
      BY <1>19, <2>1, <3>1, <3>2, <3>3 DEF InStep
  <2> QED
    BY <1>1, <2>1, <2>2, <2>3 DEF Sending, IInv, ClientTypes
<1>22. Flow(ds)'
  BY <1>1, <1>15, <1>16, <1>21, InStepFlow
<1> QED
  BY <1>22

\* Every action keeps the client, the server and the response in step.
LEMMA FlowStep ==
  ASSUME IInv, FlowInv, [Next]_vars
  PROVE  FlowInv'
<1>0. SUFFICES ASSUME ~split' PROVE \E ds : Flow(ds)'
  BY DEF FlowInv
<1>1. PICK cs : Flow(cs)
  <2>1. split => split'
    BY DEF Next, Step, vars, client, module, Connect, SendTimesOut, SendTicksOn, HeadDone,
           BodyDone, SendGivesUp, Resend, RecvDone, RecvTimesOut, RecvFails, RecvTicksOn,
           Dispatch, Expire, Deliver, Undeliverable, Forward
  <2> QED
    BY <1>0, <2>1 DEF FlowInv
<1>3. CASE Connect
  BY <1>1, <1>3, ConnectFlow
<1>4. CASE HeadDone \/ Resend
  BY <1>1, <1>4, AgainFlow
<1>5. CASE SendTimesOut \/ SendGivesUp \/ RecvTimesOut \/ RecvFails
  BY <1>1, <1>5, GiveUpFlow
<1>6. CASE BodyDone
  BY <1>1, <1>6, BodyDoneFlow
<1>7. CASE RecvDone
  BY <1>1, <1>7, DoneFlow
<1>8. CASE Dispatch
  BY <1>1, <1>8, DispatchFlow
<1>9. CASE Deliver \/ Undeliverable
  BY <1>1, <1>9, ConfirmFlow
<1>10. CASE Forward
  BY <1>0, <1>1, <1>10, ForwardFlow
<1>11. CASE SendTicksOn \/ RecvTicksOn \/ Expire \/ UNCHANGED vars
  <2>1. UNCHANGED <<pc, req, frameId, send, recv, ret, module>>
    BY <1>11 DEF SendTicksOn, RecvTicksOn, Expire, vars, client
  <2> QED
    BY <1>1, <2>1, StayFlow
<1> QED
  BY <1>3, <1>4, <1>5, <1>6, <1>7, <1>8, <1>9, <1>10, <1>11 DEF Next, Step

-----------------------------------------------------------------------------
(* Theorems                                                                  *)

\* The inductive invariant holds: the types, and what relates sendContext to the
\* frames and confirmations on their way.
THEOREM Invariance == Spec => []IInv
<1>1. Init => IInv
  <2> SUFFICES ASSUME Init PROVE IInv
    OBVIOUS
  <2>1. ClientTypes
    <3>1. /\ 0 \in 0 .. MaxReq /\ 0 \in 0 .. MaxId /\ 0 \in 0 .. MaxDispatch
      BY HttpAssumption
    <3>2. send \in [state : {"NONE", "WAIT", "RESEND", "DONE", "ERROR"}, frameId : 0 .. MaxId]
      BY <3>1 DEF Init
    <3> QED
      BY <3>1, <3>2, FreshLemma DEF Init, ClientTypes
  <2>2. ModuleTypes
    <3>1. 0 \in 0 .. MaxCuts /\ 0 \in 0 .. MaxReq
      BY HttpAssumption
    <3>2. split \in BOOLEAN
      BY Zenon DEF Init
    <3>3. up \in Seq(Frame) /\ air \in Seq(Sent) /\ down \in Seq(Seq(Token))
      BY EmptySeq DEF Init
    <3> QED
      BY <3>1, <3>2, <3>3 DEF Init, ModuleTypes
  <2>3. Position /\ SendMeansDelivered
    BY DEF Init, Position, SendMeansDelivered, Sending
  <2>4. Waiting /\ Settled /\ Left
    BY DEF Init, Waiting, Settled, Left
  <2> QED
    BY <2>1, <2>2, <2>3, <2>4 DEF IInv, SendInv
<1>2. IInv /\ [Next]_vars => IInv'
  <2> SUFFICES ASSUME IInv, [Next]_vars PROVE IInv'
    OBVIOUS
  <2>1. ClientTypes /\ ModuleTypes /\ SendInv /\ (Sending => req > 0)
    BY DEF IInv, SendInv, Position
  <2> QED
    BY <2>1, TypeStep, SendStep DEF IInv
<1> QED
  BY <1>1, <1>2, PTL DEF Spec

\* Variables keep their types and the body of a response stays within the
\* buffer, however the server's response is made and cut into frames.
THEOREM TypeCorrect == Spec => []TypeOK
<1>1. IInv => TypeOK
  BY DEF IInv, ClientTypes, ModuleTypes, TypeOK, Recvs, Deliveries
<1> QED
  BY <1>1, Invariance, PTL

\* httpClientSend returns 0 only when the frame it sent has reached the other
\* side, for every number of requests that the ids are enough for.
THEOREM SentIsDelivered == Spec => []SendMeansDelivered
<1>1. IInv => SendMeansDelivered
  BY DEF IInv, SendInv
<1> QED
  BY <1>1, Invariance, PTL

\* The reader of the responses exists, and while no request fails the client, the
\* server and the response between them are in step; until headers were cut where
\* the receiver cannot join them.
THEOREM FlowInvariance == Spec => []FlowInv
<1>1. Init => FlowInv
  <2> SUFFICES ASSUME Init PROVE FlowInv
    OBVIOUS
  <2>1. PICK c \in Cursor : c = [at |-> 11, n |-> 0, code |-> 0]
    <3>1. 11 \in Ends(0) /\ 11 \in Nat /\ 0 \in Nat
      BY DEF Ends
    <3> QED
      BY <3>1 DEF Cursor
  <2>2. Closed(c)
    BY <2>1 DEF Closed
  <2>3. PICK cs : cs = [k \in Nat |-> c]
    OBVIOUS
  <2>4. cs \in [Nat -> Cursor] /\ cs[Len(up) + 1] = c
    <3>1. Len(up) = 0 /\ 0 + 1 \in Nat
      BY EmptySeq DEF Init
    <3> QED
      BY <2>3, <3>1
  <2>5. Stream(cs, up, down, answers)
    BY <2>2, <2>4 DEF Init, Stream, Chain, Rest
  <2>6. InStep(cs)
    <3>1. Before = 0 /\ 1 .. 0 = {}
      BY DEF Init, Before
    <3> QED
      BY <3>1 DEF Init, InStep, Clear, Quiet, Sending
  <2> QED
    BY <2>5, <2>6 DEF Init, FlowInv, Flow
<1>2. FlowInv /\ IInv /\ [Next]_vars => FlowInv'
  BY FlowStep
<1> QED
  BY <1>1, <1>2, Invariance, PTL DEF Spec

\* What the receiver calls complete is a response of the server with its whole
\* body, for every length of it and however it was cut into frames, until one was
\* cut in its headers where the receiver cannot join the pieces; and memcpy never
\* gets a negative size before that.
THEOREM ReadMeansWhole == Spec => []DoneMeansWhole
<1>1. FlowInv => DoneMeansWhole
  BY DEF FlowInv, Flow, Reading, Done, DoneMeansWhole, HoldsAnswer
<1> QED
  BY <1>1, FlowInvariance, PTL

\* While no request fails, each one reported sent was taken by the server and its
\* response is used up; with the same limit on how responses were cut.
THEOREM OkIsAnswered == Spec => []OkMeansAnswered
<1>1. FlowInv /\ IInv => OkMeansAnswered
  <2> SUFFICES ASSUME FlowInv, IInv, ~split, pc = "idle", \A r \in 1 .. req : ret[r] = "ok"
               PROVE  /\ 1 .. req \subseteq accepted
                      /\ down = << >>
                      /\ \A k \in DOMAIN up : up[k].type # "IPV4"
    BY DEF OkMeansAnswered
  <2>1. PICK cs : Flow(cs)
    BY DEF FlowInv
  <2>2. InStep(cs) /\ Before = req
    BY <2>1 DEF Flow, AllOk, Before
  <2>3. \A k \in DOMAIN up : k >= 1
    BY LenProperties DEF IInv, ModuleTypes
  <2> QED
    BY <2>2, <2>3 DEF InStep, Clear
<1> QED
  BY <1>1, FlowInvariance, Invariance, PTL
=============================================================================
