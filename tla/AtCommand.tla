----------------------------- MODULE AtCommand -----------------------------
(***************************************************************************)
(* The AT command layer, src/XBee/xbee_atcmd.c, under the start-up of      *)
(* mainStartTask and the name resolution of src/src/http_client.c: a table *)
(* of requests that time out, are matched with the XBee's answers by frame *)
(* id and command, and are kept or released as their callbacks ask; and    *)
(* the query of the device, a list of commands sent one after the other    *)
(* through one request, which starts itself again from its own callbacks.  *)
(*                                                                         *)
(* One task runs all of it.  A function of the C code is an operator from  *)
(* a state of the layer to the set of states it may leave: it has several  *)
(* because xbee_frame_write may refuse a frame.  What no caller uses is    *)
(* left out: remote commands, requests sent without a callback, entries of *)
(* type XBEE_CLT_LAST.  A handle is used only before its request can be    *)
(* released, so its check in xbee_cmd_send never fails.                    *)
(***************************************************************************)
EXTENDS Integers, Sequences, SequencesExt

CONSTANTS
  TableSize,    (* XBEE_CMD_REQUEST_TABLESIZE                               *)
  Sequences,    (* sequence numbers, 256 in the code                        *)
  Ids,          (* frame ids are 1..Ids, 255 in the code                    *)
  List,         (* _xbee_atcmd_query_regs: the commands of the query        *)
  Refresh,      (* where the query starts when it only refreshes            *)
  BuildTimeout, (* seconds to send a request that was created               *)
  LocalTimeout, (* XBEE_CMD_LOCAL_TIMEOUT                                   *)
  ReuseTimeout, (* seconds for a request its callback keeps                 *)
  Backlog,      (* bound: answers the XBee still owes                       *)
  MaxFaults     (* bound: frames refused, answers late, lost or negative,   *)
                (*   changes of registration                                *)

ASSUME AtAssumption ==
  /\ {TableSize, Sequences, Ids, Backlog, BuildTimeout, LocalTimeout,
      ReuseTimeout} \subseteq Nat \ {0}
  /\ List \in Seq(STRING) /\ Refresh \in 2..Len(List)
  /\ MaxFaults \in Nat

Slots == 1..TableSize
Commands == Range(List) \cup {"AI", "LA"}

\* An entry of xbee_cmd_request_table; on is whether it has a device.
Request == [on : BOOLEAN, sequence : 0..Sequences-1, command : Commands,
            id : 0..Ids, callback : {"NULL", "list", "user"},
            timeout : 0..BuildTimeout + LocalTimeout + ReuseTimeout]

VARIABLES
  layer,    (* the state of the layer, its device and the XBee, see Init    *)
  pc,       (* where the task is                                            *)
  slot      (* thisReq of sendAtRequest                                     *)

vars == <<layer, pc, slot>>

Init ==
  /\ layer =
       [table |-> [i \in Slots |-> [on |-> FALSE, sequence |-> 0,
                                    command |-> "AI", id |-> 0,
                                    callback |-> "NULL", timeout |-> 0]],
        status |-> "DONE",     \* of _xbee_atcmd_query_regs_head
        index |-> 1,           \* index of the list head, from its list on
        flags |-> {},          \* flags of the device that the code reads
        net |-> TRUE,          \* its network address is not UNDEFINED
        nextid |-> 0,          \* the last frame id given out
        ticked |-> TRUE,       \* xbee_cmd_tick has run in this second
        address |-> FALSE,     \* resolveFQDN has an address
        crashed |-> FALSE,     \* a NULL pointer was written through
        xbee |-> <<>>,         \* what the XBee has still to answer
        late |-> FALSE,        \* its answers are late at present
        faults |-> 0,
        \* history
        answered |-> {},       \* commands the query in progress had answers to
        wrong |-> FALSE,       \* an answer went to a request not asking for it
        robbed |-> FALSE,      \* a request was released by another's answer
        heard |-> "nothing"]   \* what checkConnection's AI brought
  /\ pc = "start" /\ slot = 0

-----------------------------------------------------------------------------
(* The XBee: it answers frames in order, or late, or never                   *)

\* Something goes wrong that is counted.
Fault(l) == [l EXCEPT !.faults = @ + 1]
MayFail(l) == l.faults < MaxFaults

\* A frame reaches the XBee, which gives up an answer when it owes too many.
Ask(l, i) ==
  LET r == l.table[i]
      owed == Append(l.xbee, [id |-> r.id, command |-> r.command, for |-> i])
  IN [l EXCEPT !.xbee = IF Len(owed) > Backlog THEN Tail(owed) ELSE owed]

\* No answer is so late that the ids have gone round since.
Forgotten(owed, id) ==
  LET Other(a) == a.id # id IN SelectSeq(owed, Other)

\* Whoever asked has gone.
Orphaned(air, i) ==
  [n \in DOMAIN air |-> IF air[n].for = i THEN [air[n] EXCEPT !.for = 0]
                                          ELSE air[n]]

-----------------------------------------------------------------------------
(* Requests                                                                  *)

Full(l) == \A i \in Slots : l.table[i].on
FirstFree(l) ==
  CHOOSE i \in Slots : ~l.table[i].on /\ \A j \in 1..i-1 : l.table[j].on

\* xbee_cmd_create on a table that is not full.
Create(l, command) ==
  [l EXCEPT !.table[FirstFree(l)] =
     [@ EXCEPT !.on = TRUE, !.timeout = BuildTimeout, !.command = command,
               !.id = 0, !.callback = "NULL"]]

Release(l, i) ==
  [l EXCEPT !.table[i] = [@ EXCEPT !.on = FALSE,
                                   !.sequence = (@ + 1) % Sequences],
            !.xbee = Orphaned(@, i)]

\* Fault: the frame id does not wrap.
NextFrameIdWide(id) == id + 1

NextFrameId(id) == (id % Ids) + 1

\* xbee_cmd_send takes a frame id whether or not the frame is taken.
TakeId(l, i) ==
  LET id == NextFrameId(l.nextid)
  IN [l EXCEPT !.nextid = id, !.table[i].id = id, !.xbee = Forgotten(@, id)]

Sent(l, i) == Ask([TakeId(l, i) EXCEPT !.table[i].timeout = LocalTimeout], i)
Refused(l, i) == Fault(TakeId(l, i))

Send(l, i) == {Sent(l, i)} \cup (IF MayFail(l) THEN {Refused(l, i)} ELSE {})

-----------------------------------------------------------------------------
(* The query of the device                                                   *)

Flag(l, f) == [l EXCEPT !.flags = @ \cup {f}]
Unflag(l, fs) == [l EXCEPT !.flags = @ \ fs]

\* xbee_cmd_query_device after its list was sent.
Started(l) ==
  Unflag(Flag(l, "INPROGRESS"), {"ERROR", "REFRESH"})

\* xbee_cmd_list_execute from List[first] on, with a free slot.
Execute(l, first) ==
  LET i == FirstFree(l)
      new == [Create(l, List[first]) EXCEPT !.table[i].callback = "list"]
  IN {Started(Sent(new, i))} \cup (IF MayFail(l) THEN {Refused(new, i)} ELSE {})

\* Fault: the list is not rewound.
RewindStatus(l, first) == [l EXCEPT !.status = "RUNNING", !.answered = {}]

\* The list head, as xbee_cmd_list_execute sets it before it creates a request.
Rewind(l, first) ==
  [l EXCEPT !.status = "RUNNING", !.index = first, !.answered = {}]

\* The flags with which xbee_cmd_query_device is called, and whether it goes on.
Query(l, first) == IF first = 1 THEN l ELSE Flag(l, "REFRESH")
Idle(l) == "INPROGRESS" \notin l.flags

\* A table that is still full is an error, which nobody looks at.
ExecuteIfRoom(l, first) == IF Full(l) THEN {l} ELSE Execute(l, first)

\* xbee_cmd_query_device within xbee_cmd_tick: xbee_cmd_create gets nowhere with a
\* full table, since the tick it calls returns at once.
QueryInTick(l, first) ==
  LET asked == Query(l, first)
  IN IF Idle(asked) THEN ExecuteIfRoom(Rewind(asked, first), first) ELSE {asked}

\* _xbee_cmd_query_handle_end: what it finds, "DONE" or why reg is NULL or late,
\* and whether it has the values refreshed.
Judged(l, outcome) ==
  LET ended == Unflag(l, {"INPROGRESS"})
  IN IF outcome = "DONE" THEN ended ELSE Flag(ended, "ERROR")
Refreshes(l) ==
  \/ "REFRESH" \in l.flags
  \/ {"ERROR", "JOINED"} \subseteq l.flags /\ ~l.net

\* What an answer changes in the device: XBEE_CLT_COPY_BE of MY, and
\* _xbee_cmd_query_handle_ai, also when it is called for another's answer.
Learn(l, register, good) ==
  CASE register = "AI" /\ good -> Flag(l, "JOINED")
    [] register = "MY" /\ good -> [l EXCEPT !.net = TRUE]
    [] OTHER -> l

-----------------------------------------------------------------------------
(* xbee_cmd_tick                                                             *)

\* The query ends because its request has expired.
QueryTimesOut(l) ==
  LET judged == Judged(l, "TIMEOUT")
  IN IF Refreshes(judged) THEN QueryInTick(judged, Refresh) ELSE {judged}

\* xbeeConnectCallback writes through the context that checkConnection left NULL.
UserTimesOut(l, i) ==
  IF l.table[i].command = "AI"
  THEN [l EXCEPT !.crashed = TRUE, !.heard = "timeout"] ELSE l

\* Fault: the list is not told that it timed out.
TimeOutUnseen(l, i) ==
  CASE l.table[i].callback = "list" -> QueryTimesOut(l)
    [] l.table[i].callback = "user" -> {UserTimesOut(l, i)}
    [] OTHER -> {l}

\* The callback of a request that expires.
TimeOut(l, i) ==
  CASE l.table[i].callback = "list" ->
         QueryTimesOut([l EXCEPT !.status = "TIMEOUT"])
    [] l.table[i].callback = "user" -> {UserTimesOut(l, i)}
    [] OTHER -> {l}

\* Fault: only the requests of the query expire.
ExpiredQuery(l, i) ==
  l.table[i].on /\ l.table[i].timeout = 0 /\ l.table[i].callback # "user"

Expired(l, i) == l.table[i].on /\ l.table[i].timeout = 0

ExpireSlot(l, i) ==
  IF ~Expired(l, i) THEN {l}
  ELSE UNION {LET free == Release(m, i)
              IN IF "REFRESH" \in free.flags
                 THEN QueryInTick(free, Refresh) ELSE {free} :
                m \in TimeOut(l, i)}

CmdTick(l) ==
  IF l.ticked THEN {l}
  ELSE FoldLeft(LAMBDA ls, i : UNION {ExpireSlot(m, i) : m \in ls},
                {[l EXCEPT !.ticked = TRUE]}, [i \in Slots |-> i])

\* xbee_cmd_create elsewhere: a full table is ticked once.
Ticking(l) == IF Full(l) THEN CmdTick(l) ELSE {l}

\* xbee_cmd_query_device elsewhere.
QueryDevice(l, first) ==
  LET asked == Query(l, first)
  IN IF Idle(asked)
     THEN UNION {ExecuteIfRoom(m, first) : m \in Ticking(Rewind(asked, first))}
     ELSE {asked}

\* The query ends with an answer.
QueryEnds(l, outcome) ==
  LET judged == Judged(l, outcome)
  IN IF Refreshes(judged) THEN QueryDevice(judged, Refresh) ELSE {judged}

-----------------------------------------------------------------------------
(* _xbee_cmd_handle_response                                                 *)

\* Fault: the frame id is not compared.
MatchesAnyId(l, i, a) == l.table[i].on /\ l.table[i].command = a.command

Matches(l, i, a) ==
  l.table[i].on /\ l.table[i].id = a.id /\ l.table[i].command = a.command

\* The slot is released when the callback returns, whoever has it by then.
ReleaseAfter(l, i, sequence) ==
  [Release(l, i) EXCEPT
     !.robbed = @ \/ ~l.table[i].on \/ l.table[i].sequence # sequence]

\* _xbee_cmd_list_callback on an answer.
ListAnswer(l, i, good) ==
  LET r == l.table[i]
      register == IF l.index > Len(List) THEN "end" ELSE List[l.index]
      learnt == [Learn(l, register, good) EXCEPT
                   !.index = @ + 1, !.answered = @ \cup {register}]
      Done(m) == ReleaseAfter(m, i, r.sequence)
  IN IF r.command # register
     THEN LET e == [l EXCEPT !.status = "ERROR"]
          IN IF register = "end"
             THEN {Done(m) : m \in QueryEnds(e, "ERROR")}
             ELSE {Done(IF register = "AI" THEN Learn(e, "AI", good) ELSE e)}
     ELSE IF l.index < Len(List)
     THEN LET next == [learnt EXCEPT !.table[i].command = List[l.index + 1]]
          IN {[m EXCEPT !.table[i].timeout = ReuseTimeout] :
                m \in Send(next, i)}
     ELSE {Done(m) : m \in QueryEnds([learnt EXCEPT !.status = "DONE"],
                                     "DONE")}

\* resolveFQDNCallback, and xbeeConnectCallback, which has no context and
\* therefore leaves the flag as it is.
UserAnswer(l, i, good) ==
  LET told == CASE l.table[i].command = "LA" ->
                     [l EXCEPT !.address = @ \/ good]
                [] OTHER ->
                     [l EXCEPT !.heard = IF good THEN "joined" ELSE "apart"]
  IN {Release(told, i)}

HandleResponse(l, a, good) ==
  LET asking == {i \in Slots : Matches(l, i, a)}
      i == CHOOSE j \in asking : \A k \in asking : j <= k
      given == [l EXCEPT !.wrong = @ \/ a.for # i]
  IN IF asking = {} THEN {l}
     ELSE IF l.table[i].callback = "list" THEN ListAnswer(given, i, good)
     ELSE UserAnswer(given, i, good)

-----------------------------------------------------------------------------
(* xbee_dev_tick                                                             *)

\* _xbee_dev_modem_status: registered, registered with an address, or no longer
\* registered.
ModemStatus(l) ==
  {Flag(l, "JOINED"), [Flag(l, "JOINED") EXCEPT !.net = TRUE],
   [Unflag(l, {"JOINED"}) EXCEPT !.net = FALSE]}

\* The next answer is dispatched; it may be negative, or be lost instead.
Dispatch(l) ==
  IF l.xbee = <<>> THEN {l}
  ELSE LET rest == [l EXCEPT !.xbee = Tail(@)]
       IN HandleResponse(rest, Head(l.xbee), TRUE)
          \cup (IF MayFail(l)
                THEN {Fault(rest)}
                     \cup HandleResponse(Fault(rest), Head(l.xbee), FALSE)
                ELSE {})

Dispatched(ls, n) ==
  FoldLeft(LAMBDA ms, k : UNION {Dispatch(m) : m \in ms}, ls, [k \in 1..n |-> k])

\* A tick dispatches the answers there are, but for those that are late; a modem
\* status may come before them.
DevTick(l) ==
  LET n == Len(l.xbee)
  IN Dispatched({l}, n)
     \cup (IF MayFail(l)
           THEN Dispatched({Fault(m) : m \in ModemStatus(l)}, n) ELSE {})
     \cup (IF l.late THEN UNION {Dispatched({l}, k) : k \in 0..n-1} ELSE {})

-----------------------------------------------------------------------------
(* The task                                                                  *)

Running(l) == pc = l /\ ~layer.crashed

\* xbee_cmd_init_device.
InitDevice ==
  /\ Running("start")
  /\ layer' \in QueryDevice(layer, 1)
  /\ pc' = "query"
  /\ UNCHANGED slot

\* isCmdQueryFinished: xbee_cmd_query_status ticks before it reads the status.
\* Later main clears the flag that checkConnection is to set.
QueryStatus ==
  /\ Running("query")
  /\ \E l \in CmdTick(layer) :
       IF l.status \in {"DONE", "TIMEOUT"}
       THEN layer' = Unflag(l, {"JOINED"}) /\ pc' = "check"
       ELSE layer' = l /\ pc' = "init"
  /\ UNCHANGED slot

InitTick ==
  /\ Running("init")
  /\ layer' \in DevTick(layer)
  /\ pc' = "delay"
  /\ UNCHANGED slot

\* sendAtRequest takes a handle of 0 for an error.
SendAtRequest(command, after) ==
  \E l \in Ticking(layer) :
    IF Full(l) THEN layer' = l /\ pc' = after /\ UNCHANGED slot
    ELSE LET i == FirstFree(l)
             new == Create(l, command)
         IN IF i = 1 /\ l.table[i].sequence = 0
            THEN layer' = new /\ pc' = after /\ UNCHANGED slot
            ELSE /\ layer' \in Send([new EXCEPT !.table[i].callback = "user"], i)
                 /\ slot' = i /\ pc' = "wait"

CheckConnection == Running("check") /\ SendAtRequest("AI", "again")
ResolveFQDN == Running("resolve") /\ SendAtRequest("LA", "again")

WaitTick ==
  /\ Running("wait") /\ layer.table[slot].on
  /\ layer' \in DevTick(layer)
  /\ pc' = "expire"
  /\ UNCHANGED slot

WaitExpire ==
  /\ Running("expire")
  /\ layer' \in CmdTick(layer)
  /\ pc' = "sleep"
  /\ UNCHANGED slot

WaitEnds ==
  /\ Running("wait") /\ ~layer.table[slot].on
  /\ pc' = "again" /\ slot' = 0
  /\ UNCHANGED layer

\* OSTimeDly in both loops, and the loop of resolveFQDN itself.
Pass(from, to) ==
  /\ Running(from)
  /\ pc' = to
  /\ UNCHANGED <<layer, slot>>

DelayInit == Pass("delay", "query")
DelayWait == Pass("sleep", "wait")
Again == Pass("again", IF layer.address THEN "online" ELSE "resolve")

\* A second passes meanwhile.  The loops come to xbee_cmd_tick once a second at
\* least.
Second ==
  /\ pc \in {"delay", "sleep", "again"} /\ layer.ticked
  /\ layer' = [layer EXCEPT
       !.ticked = FALSE,
       !.table = [i \in Slots |->
          [layer.table[i] EXCEPT !.timeout = IF @ = 0 THEN 0 ELSE @ - 1]]]
  /\ UNCHANGED <<pc, slot>>

\* Answers begin to be late, and come promptly again.
XBeeSlow ==
  /\ ~layer.late /\ layer.xbee # <<>> /\ MayFail(layer)
  /\ layer' = [Fault(layer) EXCEPT !.late = TRUE]
  /\ UNCHANGED <<pc, slot>>

XBeePrompt ==
  /\ layer.late
  /\ layer' = [layer EXCEPT !.late = FALSE]
  /\ UNCHANGED <<pc, slot>>

Task ==
  \/ InitDevice \/ QueryStatus \/ InitTick \/ DelayInit
  \/ CheckConnection \/ ResolveFQDN
  \/ WaitTick \/ WaitExpire \/ DelayWait \/ WaitEnds \/ Again

Next == Task \/ Second \/ XBeeSlow \/ XBeePrompt

Spec == Init /\ [][Next]_vars

\* The task runs, time goes on while it waits, and the XBee is not late for ever.
Fairness == WF_vars(Task) /\ SF_vars(Second) /\ WF_vars(XBeePrompt)

FairSpec == Spec /\ Fairness

-----------------------------------------------------------------------------
\* The table, the list head and the device stay within their types: no frame id
\* beyond the ids, no timeout beyond the longest, no index beyond the list's end.
TypeOK ==
  /\ layer.table \in [Slots -> Request]
  /\ layer.status \in {"RUNNING", "DONE", "TIMEOUT", "ERROR"}
  /\ layer.index \in 1..Len(List) + 1
  /\ layer.flags \subseteq {"INPROGRESS", "ERROR", "REFRESH", "JOINED"}
  /\ layer.nextid \in 0..Ids /\ layer.faults \in 0..MaxFaults
  /\ \A b \in {"net", "ticked", "address", "crashed", "late", "wrong", "robbed"} :
       layer[b] \in BOOLEAN
  /\ slot \in Slots \cup {0}

\* An answer, however late, is handed to the request whose frame asked for it or
\* to none: not to one that has taken over its slot or repeats its command
\* (xbee_atcmd.c:1576).
AnswersOwn == ~layer.wrong

\* The query reports that it is done only when every value it refreshes has been
\* answered since its list was last started, although a refresh restarts the one
\* static list head under requests that are still out (xbee_atcmd.c:500).
DoneMeansAll ==
  [][layer.status # "DONE" /\ layer'.status = "DONE" =>
       {List[n] : n \in Refresh..Len(List)} \subseteq layer'.answered]_vars

\* While initCommandLayer waits for the query, a request of the query is out, so
\* that an answer or a timeout will set the status it polls: a failed restart
\* does not strand it (main.c:546).
QueryNotStranded ==
  pc = "query" /\ layer.status \in {"RUNNING", "ERROR"} =>
    \E i \in Slots : layer.table[i].on /\ layer.table[i].callback = "list"

\* The start-up comes through: the query ends, sendAtRequest returns from every
\* request, also from those whose frame was refused or never answered, and the
\* name is resolved, unless a callback has crashed (http_client.c:437).
GetsOnline == []<>(pc = "online" \/ layer.crashed)

\* A request is released because it was answered or has expired.  The list
\* callback starts the query again, which may tick the table to find a free slot,
\* release the very request whose callback runs and take its slot; the dispatcher
\* then releases the new request: "it can delete the request entry"
\* (xbee_atcmd.c:457, 921, 1690).
NotRobbed == ~layer.robbed

\* "If XBeee sends an AI response this updates the connection status"
\* (http_client.c:387): when checkConnection has its answer, or no answer, the
\* flag says so.
ConnectionFollowsAI ==
  [][layer'.heard # layer.heard =>
       ("JOINED" \in layer'.flags <=> layer'.heard = "joined")]_vars
=============================================================================
