------------------------------- MODULE Gateway -------------------------------
(***************************************************************************)
(* The FIX gateway and its sessions (gateway/fix/gateway.go, session.go):  *)
(* one goroutine per connection that reads messages and answers them, one  *)
(* that writes the connection's out channel to the network, the accept     *)
(* loop, and the heartbeat monitor, which walks the table of sessions and  *)
(* sends on the out channels of other goroutines.  A step is one access to *)
(* what they share: the table, a session's sequence number, an out         *)
(* channel, an order.  What s.mu guards is used by one goroutine only.     *)
(*                                                                         *)
(* The matching engine is what it promises (MatchingEngine, OrderBook): an *)
(* order has an ID of its own; it is filled in part on arrival, later by   *)
(* others, or cancelled in the book of its symbol; a later fill claims its *)
(* quantity first and sets the status afterwards.  Time is left out: a     *)
(* read may time out, and a session may miss its heartbeats, at any time.  *)
(* What a message says is its kind and what the handlers look at.          *)
(***************************************************************************)
EXTENDS Integers, Sequences, FiniteSets

CONSTANTS
  Conns,         (* the connections that clients open, each once           *)
  CompIDs,       (* the SenderCompIDs they give                            *)
  NoSession,
  ClOrdIDs,      (* the names they give their orders                       *)
  Quantity,      (* the quantity of every order                            *)
  OutCap,        (* the size of an out channel: 4096                       *)
  Script,        (* bound of the messages on each connection: what the     *)
                 (* first may be, the second, ...                          *)
  MaxOrders,     (* bound of the orders among them                         *)
  MaxFaults      (* bound of the failed writes, and before Stop of the     *)
                 (* time-outs of reads and of sessions                     *)

ASSUME GatewayAssumption ==
  /\ IsFiniteSet(Conns) /\ IsFiniteSet(CompIDs)
  /\ NoSession \notin Conns \X Nat
  /\ Quantity \in Nat \ {0}
  /\ OutCap \in Nat \ {0}
  /\ DOMAIN Script = Conns
  /\ MaxOrders \in Nat /\ MaxFaults \in Nat

VARIABLES
  ctxDone,       (* Stop was called: the context is done, the listener closed *)
  accepting,     (* acceptLoop runs                                        *)
  conn,          (* handleConnection of each connection: place and locals  *)
  writer,        (* the connection's writer goroutine still writes         *)
  outCh,         (* the out channels                                       *)
  received,      (* history: what each client read                         *)
  session,       (* the sessions that each connection has made             *)
  sessions,      (* g.sessions: the sessions in the table, by connection   *)
                 (* and place                                              *)
  monitor,       (* heartbeatMonitor: place, the entries yet to visit, ... *)
  order,         (* the orders submitted so far, by ID                     *)
  panicked,      (* a send on a closed channel ended the program           *)
  messages, faults,
  renamed,       (* history: connections that changed their SenderCompID   *)
  raced          (* history: sessions for which two goroutines held a      *)
                 (* number they had not yet sent                           *)

vars == <<ctxDone, accepting, conn, writer, outCh, received, session, sessions,
          monitor, order, panicked, messages, faults, renamed, raced>>

(* A message: its kind, and for an order or a cancel the order it names.  A *)
(* quiet one is a heartbeat or of a kind that is not handled.  A faulty one *)
(* is an order or a cancel that lacks a field or has one that does not      *)
(* parse.  CancelElsewhere names another symbol than the order's.           *)
SessionKinds == {"Logon", "Logout", "TestRequest", "Quiet", "Faulty"}
OrderKinds == {"NewOrder", "Cancel", "CancelElsewhere"}
Requests == [kind : SessionKinds] \cup [kind : OrderKinds, clOrdID : ClOrdIDs]

Messages == [id : CompIDs, request : Requests]

NoRequest == [kind |-> "none"]
Place(at, k) ==
  [at |-> at, session |-> k, request |-> NoRequest, number |-> 0, order |-> 0,
   status |-> "New", filled |-> 0]

Init ==
  /\ ctxDone = FALSE
  /\ accepting = TRUE
  /\ conn = [c \in Conns |-> Place("unopened", 0)]
  /\ writer = [c \in Conns |-> TRUE]
  /\ outCh = [c \in Conns |-> <<>>]
  /\ received = [c \in Conns |-> <<>>]
  /\ session = [c \in Conns |-> <<>>]
  /\ sessions = {}
  /\ monitor = [at |-> "select", due |-> {}, session |-> NoSession, number |-> 0]
  /\ order = <<>>
  /\ panicked = FALSE
  /\ messages = [c \in Conns |-> 0]
  /\ faults = 0
  /\ renamed = {}
  /\ raced = {}

-----------------------------------------------------------------------------
(* Session: sequence numbers and the out channel *)

Goes(c, at) == conn' = [conn EXCEPT ![c].at = at]

(* Mutant of LoopPlace: the context is not looked at.                       *)
LoopPlaceAlways == "read"

(* The loop of handleConnection looks at the context, and reads.            *)
LoopPlace == IF ctxDone THEN "delete" ELSE "read"
LoopsBack(c) == conn' = [conn EXCEPT ![c] = Place(LoopPlace, conn[c].session)]

SessionOf(c) == <<c, conn[c].session>>
Session(k) == session[k[1]][k[2]]
LoggedIn(c) == conn[c].session # 0 /\ Session(SessionOf(c)).loggedIn

(* A goroutine holds a number of session k that it has not sent.            *)
HoldsNumber(k) == conn[k[1]].at = "enqueue" /\ SessionOf(k[1]) = k
MonitorHoldsNumber(k) == monitor.at = "enqueue" /\ monitor.session = k

(* Mutant of NextNumber: the number is not used up.                         *)
NextNumberKept(k, loggedIn) ==
  session' = [session EXCEPT ![k[1]][k[2]].loggedIn = loggedIn]

(* atomic.AddUint64(&s.seqOut, 1); a handler may have set loggedIn before.  *)
NextNumber(k, loggedIn) ==
  session' = [session EXCEPT ![k[1]][k[2]].seqOut = @ + 1, ![k[1]][k[2]].loggedIn = loggedIn]

(* send: the message is dropped when the channel is full. *)
Send(k, n) ==
  IF Len(outCh[k[1]]) < OutCap
    THEN /\ outCh' = [outCh EXCEPT ![k[1]] = Append(@, [session |-> k[2], number |-> n])]
         /\ UNCHANGED session
    ELSE /\ session' = [session EXCEPT ![k[1]][k[2]].lost = @ + 1]
         /\ UNCHANGED outCh

(* The goroutine of connection c takes a number, and sends.                 *)
TakeNumber(c, loggedIn) ==
  /\ NextNumber(SessionOf(c), loggedIn)
  /\ conn' = [conn EXCEPT ![c].at = "enqueue",
                          ![c].number = session'[c][conn[c].session].seqOut]
  /\ raced' = IF MonitorHoldsNumber(SessionOf(c)) THEN raced \cup {SessionOf(c)} ELSE raced

-----------------------------------------------------------------------------
(* handleConnection: the loop that reads *)

ConnFrame == UNCHANGED <<ctxDone, writer, monitor, panicked>>

(* acceptLoop hands a connection over; one that comes in while Stop is at   *)
(* work is the last.                                                        *)
Accept(c) ==
  /\ accepting
  /\ conn[c].at = "unopened"
  /\ LoopsBack(c)
  /\ accepting' = ~ctxDone
  /\ UNCHANGED <<outCh, received, session, sessions, order, messages, faults, renamed, raced>>

NewSession(id) ==
  [id |-> id, loggedIn |-> FALSE, seqOut |-> 0, lost |-> 0,
   orderIDs |-> [cl \in ClOrdIDs |-> 0]]

(* A message was read.  The first one, and one with another SenderCompID    *)
(* than the last, makes a new session.                                      *)
Read(c, m) ==
  LET n == conn[c].session
      known == n # 0 /\ session[c][n].id = m.id
  IN  /\ conn[c].at = "read"
      /\ messages[c] < Len(Script[c])
      /\ m \in Script[c][messages[c] + 1]
      /\ m.request.kind = "NewOrder" => Len(order) < MaxOrders
      /\ messages' = [messages EXCEPT ![c] = @ + 1]
      /\ session' = IF known THEN session
                    ELSE [session EXCEPT ![c] = Append(@, NewSession(m.id))]
      /\ conn' = [conn EXCEPT ![c].at = IF known THEN "handle" ELSE "register",
                              ![c].session = Len(session'[c]),
                              ![c].request = m.request]
      /\ renamed' = IF n # 0 /\ ~known THEN renamed \cup {c} ELSE renamed
      /\ UNCHANGED <<accepting, outCh, received, sessions, order, faults, raced>>

(* The table is written under sessionMu, which the monitor holds while it   *)
(* walks the table.                                                         *)
TableFree == monitor.at \in {"select", "exited"}

Others(id) == {k \in sessions : Session(k).id # id}

(* Mutant of Register: the lock is not taken.                               *)
RegisterUnlocked(c) ==
  /\ conn[c].at = "register"
  /\ sessions' = Others(Session(SessionOf(c)).id) \cup {SessionOf(c)}
  /\ Goes(c, "handle")
  /\ UNCHANGED <<accepting, outCh, received, session, order, messages, faults, renamed, raced>>

Register(c) ==
  /\ conn[c].at = "register"
  /\ TableFree
  /\ sessions' = Others(Session(SessionOf(c)).id) \cup {SessionOf(c)}
  /\ Goes(c, "handle")
  /\ UNCHANGED <<accepting, outCh, received, session, order, messages, faults, renamed, raced>>

(* Nothing came for 30 seconds: a client that is logged in gets a heartbeat. *)
Timeout(c) ==
  /\ conn[c].at = "read"
  /\ IF LoggedIn(c)
       THEN /\ faults < MaxFaults \/ ctxDone
            /\ faults' = IF ctxDone THEN faults ELSE faults + 1
            /\ TakeNumber(c, TRUE)
       ELSE LoopsBack(c) /\ UNCHANGED <<session, faults, raced>>
  /\ UNCHANGED <<accepting, outCh, received, sessions, order, messages, renamed>>

(* A message without SenderCompID, or one that does not parse, is skipped.  *)
Skip(c) ==
  /\ conn[c].at = "read"
  /\ LoopsBack(c)
  /\ UNCHANGED <<accepting, outCh, received, session, sessions, order, messages, faults,
                 renamed, raced>>

(* The client went away. *)
ReadFails(c) ==
  /\ conn[c].at = "read"
  /\ Goes(c, "delete")
  /\ UNCHANGED <<accepting, outCh, received, session, sessions, order, messages, faults,
                 renamed, raced>>

DeleteEntry(c) ==
  sessions' = IF conn[c].session = 0 THEN sessions ELSE Others(Session(SessionOf(c)).id)

(* Mutant of Delete: the lock is not taken.                                 *)
DeleteUnlocked(c) ==
  /\ conn[c].at = "delete"
  /\ DeleteEntry(c)
  /\ Goes(c, "close")
  /\ UNCHANGED <<accepting, outCh, received, session, order, messages, faults, renamed, raced>>

(* The entry of the last SenderCompID is deleted, whoever made it.          *)
Delete(c) ==
  /\ conn[c].at = "delete"
  /\ TableFree \/ conn[c].session = 0
  /\ DeleteEntry(c)
  /\ Goes(c, "close")
  /\ UNCHANGED <<accepting, outCh, received, session, order, messages, faults, renamed, raced>>

(* The out channel is closed, then the connection.  What is left of it is   *)
(* dropped here: nobody will look at it but the monitor, through an entry   *)
(* of the table.                                                            *)
Close(c) ==
  /\ conn[c].at = "close"
  /\ conn' = [conn EXCEPT ![c] = Place("ended", 0)]
  /\ outCh' = [outCh EXCEPT ![c] = <<>>]
  /\ received' = [received EXCEPT ![c] = <<>>]
  /\ session' = [session EXCEPT ![c] = [n \in DOMAIN @ |-> NewSession(@[n].id)]]
  /\ raced' = {k \in raced : k[1] # c}
  /\ UNCHANGED <<accepting, sessions, order, messages, faults, renamed>>

-----------------------------------------------------------------------------
(* HandleMessage *)

HandlerFrame == UNCHANGED <<accepting, received, sessions, messages, faults, renamed>>

Request(c) == conn[c].request

(* A logon, a logout and a test request are answered to anyone.             *)
HandleSession(c) ==
  /\ conn[c].at = "handle"
  /\ \/ Request(c).kind = "Logon" /\ TakeNumber(c, TRUE)
     \/ Request(c).kind = "Logout" /\ TakeNumber(c, FALSE)
     \/ /\ Request(c).kind = "TestRequest"
        /\ TakeNumber(c, LoggedIn(c))
  /\ UNCHANGED <<outCh, order>>

(* No answer to a quiet message, and none to a client that is not logged in. *)
Ignore(c) ==
  /\ conn[c].at = "handle"
  /\ \/ Request(c).kind = "Quiet"
     \/ /\ Request(c).kind \in OrderKinds \cup {"Faulty"}
        /\ ~LoggedIn(c)
  /\ LoopsBack(c)
  /\ UNCHANGED <<outCh, session, order, raced>>

OrderOf(k, cl) == Session(k).orderIDs[cl]

(* A faulty message, and a cancel of an unknown order, are rejected.        *)
Reject(c) ==
  /\ conn[c].at = "handle"
  /\ LoggedIn(c)
  /\ \/ Request(c).kind = "Faulty"
     \/ /\ Request(c).kind \in {"Cancel", "CancelElsewhere"}
        /\ OrderOf(SessionOf(c), Request(c).clOrdID) = 0
  /\ TakeNumber(c, TRUE)
  /\ UNCHANGED <<outCh, order>>

FillStatus(filled) ==
  IF filled = Quantity THEN "Filled" ELSE IF filled > 0 THEN "Partially" ELSE "New"

(* SubmitOrder, then TrackOrder: on arrival the order is filled by any      *)
(* amount; what is left of a limit order rests.                             *)
SubmitOrder(c, filled, limit) ==
  LET k == SessionOf(c)
      cl == Request(c).clOrdID
  IN  /\ conn[c].at = "handle"
      /\ Request(c).kind = "NewOrder"
      /\ LoggedIn(c)
      /\ order' = Append(order,
                    [session |-> k, clOrdID |-> cl, filled |-> filled,
                     status |-> FillStatus(filled),
                     at |-> IF limit /\ filled < Quantity THEN "resting" ELSE "done"])
      /\ session' = [session EXCEPT ![c][conn[c].session].orderIDs[cl] = Len(order')]
      /\ conn' = [conn EXCEPT ![c].at = "report", ![c].order = Len(order')]
      /\ UNCHANGED <<outCh, raced>>

(* Mutant of ReadReport: the quantity is read before the status.            *)
ReadReportSwapped(c) ==
  /\ \/ /\ conn[c].at = "report"
        /\ conn' = [conn EXCEPT ![c].at = "filled",
                                ![c].filled = order[conn[c].order].filled]
     \/ /\ conn[c].at = "filled"
        /\ conn' = [conn EXCEPT ![c].at = "number",
                                ![c].status = order[conn[c].order].status]
  /\ UNCHANGED <<outCh, session, order, raced>>

(* sendResult reads the order while others may fill it: the status, then    *)
(* the filled quantity.                                                     *)
ReadReport(c) ==
  /\ \/ /\ conn[c].at = "report"
        /\ conn' = [conn EXCEPT ![c].at = "filled",
                                ![c].status = order[conn[c].order].status]
     \/ /\ conn[c].at = "filled"
        /\ conn' = [conn EXCEPT ![c].at = "number",
                                ![c].filled = order[conn[c].order].filled]
  /\ UNCHANGED <<outCh, session, order, raced>>

Number(c) ==
  /\ conn[c].at = "number"
  /\ TakeNumber(c, TRUE)
  /\ UNCHANGED <<outCh, order>>

FindOrder(c) ==
  LET o == OrderOf(SessionOf(c), Request(c).clOrdID)
  IN  /\ conn[c].at = "handle"
      /\ Request(c).kind \in {"Cancel", "CancelElsewhere"}
      /\ LoggedIn(c)
      /\ o # 0
      /\ conn' = [conn EXCEPT ![c].at = "cancel", ![c].order = o]
      /\ UNCHANGED <<outCh, session, order, raced>>

(* The book of the named symbol does not have the order, or not any more.   *)
Refused(c) ==
  Request(c).kind = "CancelElsewhere" \/ order[conn[c].order].at = "done"

(* RemoveOrder *)
Forget(c) ==
  session' = [session EXCEPT ![c][conn[c].session].orderIDs[Request(c).clOrdID] = 0]

(* The order leaves the book, and the session's map; there is no answer.    *)
CancelSucceeds(c) ==
  LET o == conn[c].order
  IN  /\ conn[c].at = "cancel"
      /\ ~Refused(c)
      /\ order[o].at = "resting"
      /\ order' = [order EXCEPT ![o].at = "done", ![o].status = "Cancelled"]
      /\ Forget(c)
      /\ LoopsBack(c)
      /\ UNCHANGED <<outCh, raced>>

(* Mutant of CancelRefused: the order is removed from the map.              *)
CancelRefusedRemoves(c) ==
  /\ conn[c].at = "cancel"
  /\ Refused(c)
  /\ Forget(c)
  /\ Goes(c, "number")
  /\ UNCHANGED <<outCh, order, raced>>

CancelRefused(c) ==
  /\ conn[c].at = "cancel"
  /\ Refused(c)
  /\ Goes(c, "number")
  /\ UNCHANGED <<outCh, session, order, raced>>

Enqueue(c) ==
  /\ conn[c].at = "enqueue"
  /\ Send(SessionOf(c), conn[c].number)
  /\ LoopsBack(c)
  /\ UNCHANGED <<order, raced>>

HandleMessage(c) ==
  /\ \/ HandleSession(c) \/ Ignore(c) \/ Reject(c)
     \/ \E filled \in 0..Quantity, limit \in BOOLEAN : SubmitOrder(c, filled, limit)
     \/ ReadReport(c) \/ Number(c)
     \/ FindOrder(c) \/ CancelSucceeds(c) \/ CancelRefused(c)
     \/ Enqueue(c)
  /\ HandlerFrame

(* What the goroutine does by itself, *)
Serve(c) ==
  /\ Register(c) \/ Timeout(c) \/ Skip(c) \/ Delete(c) \/ Close(c) \/ HandleMessage(c)
  /\ ConnFrame

(* and what the client does.                                                *)
Client(c) ==
  /\ ReadFails(c) \/ \E m \in Messages : Read(c, m)
  /\ ConnFrame

HandleConnection(c) == Serve(c) \/ Client(c)

-----------------------------------------------------------------------------
(* The connection's writer *)

WriterFrame == UNCHANGED <<ctxDone, accepting, conn, sessions, monitor, order, panicked,
                           messages, renamed, raced>>

Write(c) ==
  /\ writer[c]
  /\ outCh[c] # <<>>
  /\ outCh' = [outCh EXCEPT ![c] = Tail(@)]
  /\ \/ /\ received' = [received EXCEPT ![c] = Append(@, Head(outCh[c]))]
        /\ UNCHANGED <<writer, session, faults>>
     \/ (* A write that fails, or takes too long, is the writer's last.     *)
        /\ faults < MaxFaults
        /\ faults' = faults + 1
        /\ session' = [session EXCEPT ![c][Head(outCh[c]).session].lost = @ + 1]
        /\ writer' = [writer EXCEPT ![c] = FALSE]
        /\ UNCHANGED received
  /\ WriterFrame

-----------------------------------------------------------------------------
(* heartbeatMonitor *)

MonitorFrame == UNCHANGED <<ctxDone, accepting, conn, writer, received, sessions, order,
                            messages, renamed>>

(* A tick: the table is locked and walked.                                  *)
Tick ==
  /\ monitor.at = "select"
  /\ faults < MaxFaults
  /\ monitor' = [monitor EXCEPT !.at = "scan", !.due = sessions]
  /\ UNCHANGED <<outCh, session, panicked, faults, raced>>

(* A session of the table missed its heartbeats: it gets one, and stays.    *)
Overdue(k) ==
  /\ monitor.at = "scan"
  /\ k \in monitor.due
  /\ faults < MaxFaults
  /\ faults' = faults + 1
  /\ NextNumber(k, Session(k).loggedIn)
  /\ monitor' = [at |-> "enqueue", due |-> monitor.due \ {k}, session |-> k,
                 number |-> session'[k[1]][k[2]].seqOut]
  /\ raced' = IF HoldsNumber(k) THEN raced \cup {k} ELSE raced
  /\ UNCHANGED <<outCh, panicked>>

Closed(k) == conn[k[1]].at = "ended"

MonitorSend ==
  /\ monitor.at = "enqueue"
  /\ panicked' = Closed(monitor.session)
  /\ IF Closed(monitor.session)
       THEN UNCHANGED <<outCh, session, monitor>>
       ELSE /\ Send(monitor.session, monitor.number)
            /\ monitor' = [monitor EXCEPT !.at = "scan", !.session = NoSession, !.number = 0]
  /\ UNCHANGED <<faults, raced>>

(* The other sessions are in time.                                          *)
ScanEnds ==
  /\ monitor.at = "scan"
  /\ monitor' = [monitor EXCEPT !.at = "select", !.due = {}]
  /\ UNCHANGED <<outCh, session, panicked, faults, raced>>

MonitorExit ==
  /\ ctxDone
  /\ monitor.at = "select"
  /\ monitor' = [monitor EXCEPT !.at = "exited"]
  /\ UNCHANGED <<outCh, session, panicked, faults, raced>>

HeartbeatMonitor ==
  /\ Tick \/ MonitorSend \/ ScanEnds \/ MonitorExit \/ \E k \in monitor.due : Overdue(k)
  /\ MonitorFrame

-----------------------------------------------------------------------------
(* The gateway and the exchange *)

Stop ==
  /\ ~ctxDone
  /\ ctxDone' = TRUE
  /\ UNCHANGED <<accepting, conn, writer, outCh, received, session, sessions, monitor,
                 order, panicked, messages, faults, renamed, raced>>

(* The listener is closed. *)
AcceptExit ==
  /\ accepting
  /\ ctxDone
  /\ accepting' = FALSE
  /\ UNCHANGED <<ctxDone, conn, writer, outCh, received, session, sessions, monitor,
                 order, panicked, messages, faults, renamed, raced>>

ExchangeFrame == UNCHANGED <<ctxDone, accepting, conn, writer, outCh, received, session,
                             sessions, monitor, panicked, messages, faults, renamed, raced>>

(* Another order fills this one: it claims its quantity first,              *)
Claim(o, n) ==
  /\ order[o].at = "resting"
  /\ order[o].filled + n <= Quantity
  /\ order' = [order EXCEPT ![o].at = "filling", ![o].filled = @ + n]

(* and sets the status, with the book's mutex held all the time.            *)
Settle(o) ==
  /\ order[o].at = "filling"
  /\ order' = [order EXCEPT ![o].status = FillStatus(order[o].filled),
                            ![o].at = IF order[o].filled = Quantity THEN "done" ELSE "resting"]

Exchange ==
  /\ \E o \in DOMAIN order : Settle(o) \/ \E n \in 1..Quantity : Claim(o, n)
  /\ ExchangeFrame

AcceptLoop == (\E c \in Conns : Accept(c) /\ ConnFrame) \/ AcceptExit

Next ==
  /\ ~panicked
  /\ \/ Stop \/ AcceptLoop \/ HeartbeatMonitor \/ Exchange
     \/ \E c \in Conns : HandleConnection(c) \/ Write(c)

(* Some goroutine that can run does; a read is over after 30 seconds; and a *)
(* select with its context done and a tick ready picks either at random.    *)
(* Nobody has to stop the gateway, to connect or to go away, to send, to    *)
(* receive or to fill an order.                                             *)
Progress ==
  /\ ~panicked
  /\ \/ AcceptExit \/ HeartbeatMonitor
     \/ \E c \in Conns : Serve(c)
     \/ \E o \in DOMAIN order : Settle(o) /\ ExchangeFrame

Fairness == WF_vars(Progress) /\ SF_vars(~panicked /\ MonitorExit /\ MonitorFrame)

Spec == Init /\ [][Next]_vars /\ Fairness

-----------------------------------------------------------------------------
(* Types; the table has one session for each SenderCompID, and nobody       *)
(* changes it while the monitor walks it.                                   *)
ConnPlaces == {"unopened", "read", "register", "handle", "report", "filled", "number",
               "cancel", "enqueue", "delete", "close", "ended"}
OrderStatuses == {"New", "Partially", "Filled", "Cancelled"}
Made == UNION {{c} \X DOMAIN session[c] : c \in Conns}

TypeOK ==
  /\ ctxDone \in BOOLEAN /\ accepting \in BOOLEAN /\ panicked \in BOOLEAN
  /\ conn \in [Conns -> [at : ConnPlaces, session : Nat, request : Requests \cup {NoRequest},
                         number : Nat, order : {0} \cup DOMAIN order, status : OrderStatuses,
                         filled : 0..Quantity]]
  /\ writer \in [Conns -> BOOLEAN]
  /\ renamed \subseteq Conns /\ raced \subseteq Made /\ sessions \subseteq Made
  /\ \A c \in Conns :
       LET sent == [session : DOMAIN session[c], number : Nat \ {0}]
       IN  /\ received[c] \in Seq(sent)
           /\ outCh[c] \in Seq(sent) /\ Len(outCh[c]) <= OutCap
           /\ conn[c].session \in {0} \cup DOMAIN session[c]
           /\ session[c] \in Seq([id : CompIDs, loggedIn : BOOLEAN, seqOut : Nat, lost : Nat,
                                  orderIDs : [ClOrdIDs -> {0} \cup DOMAIN order]])
  /\ \A k, l \in sessions : Session(k).id = Session(l).id => k = l
  /\ monitor \in [at : {"select", "scan", "enqueue", "exited"}, due : SUBSET sessions,
                  session : {NoSession} \cup Made, number : Nat]
  /\ \A o \in DOMAIN order :
       order[o] \in [session : Made, clOrdID : ClOrdIDs, filled : 0..Quantity,
                     status : OrderStatuses, at : {"resting", "filling", "done"}]

(* The heartbeat monitor sends on the out channel of a connection that has  *)
(* closed it only when that connection changed its SenderCompID, and left   *)
(* its first session in the table: close(outCh) in handleConnection.        *)
NoSendOnClosed == panicked => monitor.session[1] \in renamed

Sent(k) == received[k[1]] \o outCh[k[1]]
Numbered(k) == {i \in DOMAIN Sent(k) : Sent(k)[i].session = k[2]}
InHand(k) == (IF HoldsNumber(k) THEN 1 ELSE 0) + (IF MonitorHoldsNumber(k) THEN 1 ELSE 0)

(* seqOut: what a client gets, and what waits in its out channel, carries   *)
(* the numbers of its session, each once, rising unless the connection and  *)
(* the monitor each held a number at the same time; a number that is missing *)
(* is one that was dropped, or is still in hand.                            *)
NumbersInOrder ==
  \A k \in Made : ~Closed(k) =>
    /\ \A i, j \in Numbered(k) :
         i < j => IF k \in raced THEN Sent(k)[i].number # Sent(k)[j].number
                  ELSE Sent(k)[i].number < Sent(k)[j].number
    /\ Cardinality(Numbered(k)) + Session(k).lost + InHand(k) = Session(k).seqOut

Answering(c) == conn[c].at \in {"number", "enqueue"} /\ conn[c].order # 0
Latest(o) ==
  \A p \in DOMAIN order :
    p > o => <<order[p].session, order[p].clOrdID>> # <<order[o].session, order[o].clOrdID>>

(* What a client is told of an order: a report that says Filled gives the   *)
(* whole quantity, though sendResult reads an order that others fill; an    *)
(* order whose cancel is refused is out of the book, unless the symbol was  *)
(* wrong; and the session can still find each of its orders that rests, if  *)
(* it did not use the ClOrdID again.                                        *)
AnswersAreTrue ==
  /\ \A c \in Conns :
       Answering(c) =>
         /\ Request(c).kind = "NewOrder" /\ conn[c].status = "Filled" =>
              conn[c].filled = Quantity
         /\ Request(c).kind = "Cancel" => order[conn[c].order].at = "done"
  /\ \A o \in DOMAIN order :
       order[o].at # "done" /\ Latest(o) /\ ~Closed(order[o].session) =>
         OrderOf(order[o].session, order[o].clOrdID) = o

Stopped ==
  /\ ~accepting
  /\ monitor.at = "exited"
  /\ \A c \in Conns : conn[c].at \in {"unopened", "ended"}

(* Stop returns: it waits for the accept loop, the monitor and every        *)
(* connection, also those whose clients are silent, or full.                *)
GatewayStops == ctxDone ~> (Stopped \/ panicked)
=============================================================================
