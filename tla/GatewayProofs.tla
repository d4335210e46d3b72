---------------------------- MODULE GatewayProofs ----------------------------
(***************************************************************************)
(* Proofs about Gateway, for any finite sets of connections and            *)
(* SenderCompIDs, any script of messages, and any size of the out          *)
(* channels: the types and the session table, the sends of the heartbeat   *)
(* monitor, the sequence numbers, and what clients are told of orders.     *)
(***************************************************************************)
EXTENDS Gateway, SumTheorems, FunctionTheorems, FiniteSetTheorems, SequenceTheorems, TLAPS

(* D stands for the IDs of the orders so far. *)
Locals(D) == [at : ConnPlaces, session : Nat, request : Requests \cup {NoRequest},
              number : Nat, order : {0} \cup D, status : OrderStatuses, filled : 0..Quantity]
SessionRecords(D) == [id : CompIDs, loggedIn : BOOLEAN, seqOut : Nat, lost : Nat,
                      orderIDs : [ClOrdIDs -> {0} \cup D]]
SentMessages(n) == [session : 1..n, number : Nat \ {0}]
OrderRecords == [session : Made, clOrdID : ClOrdIDs, filled : 0..Quantity,
                 status : OrderStatuses, at : {"resting", "filling", "done"}]
MonitorRecords == [at : {"select", "scan", "enqueue", "exited"}, due : SUBSET sessions,
                   session : {NoSession} \cup Made, number : Nat]

(* Types: TypeOK in parts. *)
FlagTypes ==
  /\ ctxDone \in BOOLEAN /\ accepting \in BOOLEAN /\ panicked \in BOOLEAN
  /\ writer \in [Conns -> BOOLEAN]
  /\ renamed \subseteq Conns

LocalTypes == conn \in [Conns -> Locals(DOMAIN order)]

SessionTypes == session \in [Conns -> Seq(SessionRecords(DOMAIN order))]

ChannelTypes ==
  /\ received \in [Conns -> Seq([session : Nat, number : Nat \ {0}])]
  /\ outCh \in [Conns -> Seq([session : Nat, number : Nat \ {0}])]
  /\ \A c \in Conns :
       /\ received[c] \in Seq(SentMessages(Len(session[c])))
       /\ outCh[c] \in Seq(SentMessages(Len(session[c])))
       /\ Len(outCh[c]) <= OutCap

TableTypes ==
  /\ sessions \subseteq Made /\ raced \subseteq Made
  /\ \A k, l \in sessions : Session(k).id = Session(l).id => k = l
  /\ monitor \in MonitorRecords

OrderTypes == order \in Seq(OrderRecords)

Types ==
  FlagTypes /\ LocalTypes /\ SessionTypes /\ ChannelTypes /\ TableTypes /\ OrderTypes

(* The goroutine of a connection uses the last session that it made, and    *)
(* has made one when it handles a message; it made no second one unless the *)
(* client changed its SenderCompID.                                         *)
Handling == {"register", "handle", "report", "filled", "number", "cancel", "enqueue"}

PlaceInv ==
  \A c \in Conns :
    /\ conn[c].session = IF conn[c].at = "ended" THEN 0 ELSE Len(session[c])
    /\ conn[c].at \in Handling => conn[c].session # 0
    /\ conn[c].at \in {"unopened", "read", "register", "handle"} => conn[c].order = 0
    /\ c \notin renamed => Len(session[c]) <= 1

(* The table keeps no session of a connection that has ended, unless it was *)
(* renamed; the monitor sends to sessions of the table, which it locked.    *)
TableInv ==
  /\ \A k \in sessions : k[1] \notin renamed => conn[k[1]].at \notin {"close", "ended"}
  /\ monitor.at \in {"select", "exited"} => monitor.due = {}
  /\ monitor.at = "enqueue" => monitor.session \in sessions
  /\ panicked => monitor.session[1] \in renamed

(* The number n was taken, and is not among those sent; it is above them,   *)
(* unless two goroutines held one at once.                                  *)
NotSent(k, n) ==
  /\ n \in 1..Session(k).seqOut
  /\ \A i \in Numbered(k) :
       IF k \in raced THEN Sent(k)[i].number # n ELSE Sent(k)[i].number < n

NumberInv ==
  \A k \in Made : ~Closed(k) =>
    /\ \A i \in Numbered(k) : Sent(k)[i].number <= Session(k).seqOut
    /\ HoldsNumber(k) => NotSent(k, conn[k[1]].number)
    /\ MonitorHoldsNumber(k) => NotSent(k, monitor.number)
    /\ HoldsNumber(k) /\ MonitorHoldsNumber(k) =>
         k \in raced /\ conn[k[1]].number # monitor.number

(* What a report will say is true of its order already; a session finds the *)
(* orders that rest under the names it gave them.                           *)
FilledInv ==
  \A o \in DOMAIN order :
    /\ order[o].status = "Filled" => order[o].filled = Quantity
    /\ order[o].at = "filling" => order[o].status # "Filled"

ReportOf(c) ==
  /\ conn[c].at \in {"report", "filled"} =>
       conn[c].order # 0 /\ Request(c).kind = "NewOrder"
  /\ conn[c].at = "cancel" =>
       /\ conn[c].order # 0 /\ Request(c).kind \in {"Cancel", "CancelElsewhere"}
       /\ conn[c].order = OrderOf(SessionOf(c), Request(c).clOrdID)
  /\ conn[c].at = "number" => conn[c].order # 0
  /\ conn[c].at = "filled" /\ conn[c].status = "Filled" =>
       order[conn[c].order].filled = Quantity
  /\ Answering(c) =>
       /\ Request(c).kind = "NewOrder" /\ conn[c].status = "Filled" => conn[c].filled = Quantity
       /\ Request(c).kind = "Cancel" => order[conn[c].order].at = "done"

ReportInv == \A c \in Conns : ReportOf(c)

FindInv ==
  \A o \in DOMAIN order :
    order[o].at # "done" /\ Latest(o) /\ ~Closed(order[o].session) =>
      OrderOf(order[o].session, order[o].clOrdID) = o

OrderInv == FilledInv /\ ReportInv /\ FindInv

IInv == Types /\ PlaceInv /\ TableInv /\ NumbersInOrder /\ NumberInv /\ OrderInv

-----------------------------------------------------------------------------
(* An order and a cancel have a name. *)
LEMMA RequestNames ==
  ASSUME NEW r \in Requests \cup {NoRequest}, r.kind \in OrderKinds
  PROVE  r.clOrdID \in ClOrdIDs
<1>1. CASE r \in [kind : SessionKinds]
  <2>1. r.kind \in SessionKinds
    BY <1>1
  <2>2. QED
    BY <2>1 DEF SessionKinds, OrderKinds
<1>2. CASE r \in [kind : OrderKinds, clOrdID : ClOrdIDs]
  BY <1>2
<1>3. CASE r = NoRequest
  BY <1>3 DEF NoRequest, OrderKinds
<1>4. QED
  BY <1>1, <1>2, <1>3 DEF Requests

(* The sessions that connections have made, for any table of sessions. *)
LEMMA KeysAre ==
  ASSUME NEW S, NEW s \in [Conns -> Seq(S)]
  PROVE  /\ \A c \in Conns : Len(s[c]) \in Nat /\ DOMAIN s[c] = 1..Len(s[c])
         /\ \A k \in UNION {{c} \X DOMAIN s[c] : c \in Conns} :
              /\ k = <<k[1], k[2]>> /\ k[1] \in Conns /\ k[2] \in Nat
              /\ k[2] \in 1..Len(s[k[1]])
         /\ \A c \in Conns : \A n \in 1..Len(s[c]) :
              <<c, n>> \in UNION {{d} \X DOMAIN s[d] : d \in Conns}
<1>1. \A c \in Conns : Len(s[c]) \in Nat /\ DOMAIN s[c] = 1..Len(s[c])
  OBVIOUS
<1>2. ASSUME NEW k \in UNION {{c} \X DOMAIN s[c] : c \in Conns}
      PROVE  /\ k = <<k[1], k[2]>> /\ k[1] \in Conns /\ k[2] \in Nat
             /\ k[2] \in 1..Len(s[k[1]])
  <2>1. PICK c \in Conns : k \in {c} \X DOMAIN s[c]
    BY <1>2
  <2>2. k = <<k[1], k[2]>> /\ k[1] = c /\ k[2] \in DOMAIN s[c]
    BY <2>1
  <2>3. QED
    BY <1>1, <2>2
<1>3. ASSUME NEW c \in Conns, NEW n \in 1..Len(s[c])
      PROVE  <<c, n>> \in UNION {{d} \X DOMAIN s[d] : d \in Conns}
  <2>1. <<c, n>> \in {c} \X DOMAIN s[c]
    BY <1>1
  <2>2. QED
    BY <2>1
<1>4. QED
  BY <1>1, <1>2, <1>3

(* Made, by its members. *)
LEMMA MadeFacts ==
  ASSUME SessionTypes
  PROVE  /\ \A c \in Conns : Len(session[c]) \in Nat /\ DOMAIN session[c] = 1..Len(session[c])
         /\ \A k \in Made :
              /\ k = <<k[1], k[2]>> /\ k[1] \in Conns /\ k[2] \in Nat
              /\ k[2] \in 1..Len(session[k[1]])
              /\ Session(k) \in SessionRecords(DOMAIN order)
              /\ k # NoSession
         /\ \A c \in Conns : \A n \in 1..Len(session[c]) : <<c, n>> \in Made
<1>1. session \in [Conns -> Seq(SessionRecords(DOMAIN order))]
  BY DEF SessionTypes
<1>2. /\ \A c \in Conns : Len(session[c]) \in Nat /\ DOMAIN session[c] = 1..Len(session[c])
      /\ \A k \in Made :
           /\ k = <<k[1], k[2]>> /\ k[1] \in Conns /\ k[2] \in Nat
           /\ k[2] \in 1..Len(session[k[1]])
      /\ \A c \in Conns : \A n \in 1..Len(session[c]) : <<c, n>> \in Made
  BY <1>1, KeysAre DEF Made
<1>3. ASSUME NEW k \in Made
      PROVE  Session(k) \in SessionRecords(DOMAIN order) /\ k # NoSession
  <2>1. k[1] \in Conns /\ k[2] \in 1..Len(session[k[1]]) /\ k = <<k[1], k[2]>> /\ k[2] \in Nat
    BY <1>2
  <2>2. session[k[1]] \in Seq(SessionRecords(DOMAIN order))
    BY <1>1, <2>1
  <2>3. Session(k) \in SessionRecords(DOMAIN order)
    BY <2>1, <2>2 DEF Session
  <2>4. <<k[1], k[2]>> \in Conns \X Nat
    BY <2>1
  <2>5. QED
    BY <2>1, <2>3, <2>4, GatewayAssumption
<1>4. QED
  BY <1>2, <1>3

(* No session goes away; when none is made, Made is as it was. *)
LEMMA MadeGrows ==
  ASSUME SessionTypes, SessionTypes', \A c \in Conns : Len(session[c]) <= Len(session'[c])
  PROVE  /\ Made \subseteq Made'
         /\ (\A c \in Conns : Len(session[c]) = Len(session'[c])) => Made' = Made
<1>1. session' \in [Conns -> Seq(SessionRecords(DOMAIN order'))]
  BY DEF SessionTypes
<1>2. /\ \A c \in Conns : Len(session'[c]) \in Nat
      /\ \A k \in Made' :
           k = <<k[1], k[2]>> /\ k[1] \in Conns /\ k[2] \in 1..Len(session'[k[1]])
      /\ \A c \in Conns : \A n \in 1..Len(session'[c]) : <<c, n>> \in Made'
  BY <1>1, KeysAre DEF Made
<1>3. /\ \A c \in Conns : Len(session[c]) \in Nat
      /\ \A k \in Made :
           k = <<k[1], k[2]>> /\ k[1] \in Conns /\ k[2] \in 1..Len(session[k[1]])
      /\ \A c \in Conns : \A n \in 1..Len(session[c]) : <<c, n>> \in Made
  BY MadeFacts
<1>4. ASSUME NEW k \in Made PROVE k \in Made'
  <2>1. k = <<k[1], k[2]>> /\ k[1] \in Conns /\ k[2] \in 1..Len(session'[k[1]])
    BY <1>2, <1>3
  <2>2. QED
    BY <1>2, <2>1
<1>5. ASSUME \A c \in Conns : Len(session[c]) = Len(session'[c]), NEW k \in Made'
      PROVE  k \in Made
  <2>1. k = <<k[1], k[2]>> /\ k[1] \in Conns /\ k[2] \in 1..Len(session[k[1]])
    BY <1>2, <1>5
  <2>2. QED
    BY <1>3, <2>1
<1>6. QED
  BY <1>4, <1>5

(* A session of a connection is replaced by another with the same ID.  The  *)
(* orders may be more than before.                                          *)
LEMMA SessionPut ==
  ASSUME SessionTypes, DOMAIN order \subseteq DOMAIN order',
         NEW k \in Made, NEW r \in SessionRecords(DOMAIN order'), r.id = Session(k).id,
         session' = [session EXCEPT ![k[1]] = [session[k[1]] EXCEPT ![k[2]] = r]]
  PROVE  /\ SessionTypes' /\ Made' = Made
         /\ \A c \in Conns : Len(session'[c]) = Len(session[c])
         /\ Session(k)' = r
         /\ \A l \in Made : l # k => Session(l)' = Session(l)
         /\ \A l \in Made : Session(l)'.id = Session(l).id
<1>1. /\ session \in [Conns -> Seq(SessionRecords(DOMAIN order))]
      /\ k = <<k[1], k[2]>> /\ k[1] \in Conns /\ k[2] \in 1..Len(session[k[1]])
      /\ \A l \in Made : l = <<l[1], l[2]>> /\ l[1] \in Conns /\ l[2] \in 1..Len(session[l[1]])
  BY MadeFacts DEF SessionTypes
<1>2. SessionRecords(DOMAIN order) \subseteq SessionRecords(DOMAIN order')
  <2>1. [ClOrdIDs -> {0} \cup DOMAIN order] \subseteq [ClOrdIDs -> {0} \cup DOMAIN order']
    OBVIOUS
  <2>2. QED
    BY <2>1 DEF SessionRecords
<1>3. \A c \in Conns : session[c] \in Seq(SessionRecords(DOMAIN order'))
  <2>1. \A c \in Conns : session[c] \in Seq(SessionRecords(DOMAIN order))
    BY <1>1
  <2>2. QED
    BY <1>2, <2>1
<1>4. /\ [session[k[1]] EXCEPT ![k[2]] = r] \in Seq(SessionRecords(DOMAIN order'))
      /\ Len([session[k[1]] EXCEPT ![k[2]] = r]) = Len(session[k[1]])
  BY <1>1, <1>3
<1>5. /\ session' \in [Conns -> Seq(SessionRecords(DOMAIN order'))]
      /\ \A c \in Conns : Len(session'[c]) = Len(session[c])
  BY <1>1, <1>3, <1>4
<1>6. SessionTypes' /\ Made' = Made
  <2>1. SessionTypes'
    BY <1>5 DEF SessionTypes
  <2>2. \A c \in Conns : Len(session[c]) \in Nat
    BY MadeFacts
  <2>3. \A c \in Conns : Len(session[c]) <= Len(session'[c])
    BY <1>5, <2>2
  <2>4. QED
    BY <1>5, <2>1, <2>3, MadeGrows
<1>7. Session(k)' = r
  BY <1>1 DEF Session
<1>8. ASSUME NEW l \in Made, l # k PROVE Session(l)' = Session(l)
  <2>1. l = <<l[1], l[2]>> /\ l[1] \in Conns /\ l[2] \in 1..Len(session[l[1]])
    BY <1>1
  <2>2. CASE l[1] # k[1]
    BY <1>1, <2>1, <2>2 DEF Session
  <2>3. CASE l[1] = k[1]
    <3>1. l[2] # k[2]
      BY <1>1, <1>8, <2>1, <2>3
    <3>2. session'[k[1]] = [session[k[1]] EXCEPT ![k[2]] = r]
      BY <1>1
    <3>3. session'[k[1]][l[2]] = session[k[1]][l[2]]
      BY <1>1, <2>1, <2>3, <3>1, <3>2
    <3>4. QED
      BY <2>3, <3>3 DEF Session
  <2>4. QED
    BY <2>2, <2>3
<1>9. \A l \in Made : Session(l)'.id = Session(l).id
  BY <1>7, <1>8
<1>10. QED
  BY <1>5, <1>6, <1>7, <1>8, <1>9

(* A number is taken. *)
LEMMA NumberPut ==
  ASSUME SessionTypes, NEW k \in Made, NEW b \in BOOLEAN, NextNumber(k, b), UNCHANGED order
  PROVE  /\ SessionTypes' /\ Made' = Made
         /\ \A c \in Conns : Len(session'[c]) = Len(session[c])
         /\ Session(k)'.seqOut = Session(k).seqOut + 1
         /\ session'[k[1]][k[2]].seqOut = Session(k).seqOut + 1
         /\ Session(k)'.lost = Session(k).lost
         /\ Session(k)'.orderIDs = Session(k).orderIDs
         /\ \A l \in Made : l # k => Session(l)' = Session(l)
         /\ \A l \in Made : Session(l)'.id = Session(l).id
<1> DEFINE s == Session(k)
           r == [s EXCEPT !.seqOut = @ + 1, !.loggedIn = b]
<1>1. s \in SessionRecords(DOMAIN order)
  BY MadeFacts
<1>2. /\ r \in SessionRecords(DOMAIN order') /\ r.id = s.id /\ r.seqOut = s.seqOut + 1
      /\ r.lost = s.lost /\ r.orderIDs = s.orderIDs
  <2>1. /\ r \in SessionRecords(DOMAIN order) /\ r.id = s.id /\ r.seqOut = s.seqOut + 1
        /\ r.lost = s.lost /\ r.orderIDs = s.orderIDs
    <3> DEFINE q == [s EXCEPT !.seqOut = @ + 1]
    <3>1. /\ q \in SessionRecords(DOMAIN order) /\ q.id = s.id /\ q.seqOut = s.seqOut + 1
          /\ q.lost = s.lost /\ q.orderIDs = s.orderIDs
      BY <1>1 DEF SessionRecords
    <3>2. r = [q EXCEPT !.loggedIn = b]
      OBVIOUS
    <3> HIDE DEF q, r
    <3>3. /\ r \in SessionRecords(DOMAIN order) /\ r.id = q.id /\ r.seqOut = q.seqOut
          /\ r.lost = q.lost /\ r.orderIDs = q.orderIDs
      BY <3>1, <3>2, Zenon DEF SessionRecords
    <3>4. QED
      BY <3>1, <3>3
  <2>2. DOMAIN order' = DOMAIN order
    OBVIOUS
  <2>3. QED
    BY <2>1, <2>2
<1>3. session' = [session EXCEPT ![k[1]] = [session[k[1]] EXCEPT ![k[2]] = r]]
  <2>1. session' = [session EXCEPT ![k[1]] = [session[k[1]] EXCEPT
                      ![k[2]] = [session[k[1]][k[2]] EXCEPT !.seqOut = @ + 1, !.loggedIn = b]]]
    <3>1. /\ k[1] \in Conns /\ k[2] \in DOMAIN session[k[1]] /\ DOMAIN session = Conns
          /\ session \in [Conns -> Seq(SessionRecords(DOMAIN order))]
      BY MadeFacts DEF SessionTypes
    <3>2. QED
      BY <3>1 DEF NextNumber
  <2>2. QED
    BY <2>1 DEF Session
<1> HIDE DEF r
<1>4. /\ SessionTypes' /\ Made' = Made
      /\ \A c \in Conns : Len(session'[c]) = Len(session[c])
      /\ Session(k)' = r
      /\ \A l \in Made : l # k => Session(l)' = Session(l)
      /\ \A l \in Made : Session(l)'.id = Session(l).id
  BY <1>2, <1>3, SessionPut
<1>5. session'[k[1]][k[2]] = r
  BY <1>4 DEF Session
<1>6. QED
  BY <1>2, <1>4, <1>5

(* A message is dropped. *)
LEMMA LostPut ==
  ASSUME SessionTypes, NEW k \in Made, UNCHANGED order,
         session' = [session EXCEPT ![k[1]][k[2]].lost = @ + 1]
  PROVE  /\ SessionTypes' /\ Made' = Made
         /\ \A c \in Conns : Len(session'[c]) = Len(session[c])
         /\ Session(k)'.seqOut = Session(k).seqOut
         /\ Session(k)'.lost = Session(k).lost + 1
         /\ Session(k)'.orderIDs = Session(k).orderIDs
         /\ \A l \in Made : l # k => Session(l)' = Session(l)
         /\ \A l \in Made : Session(l)'.id = Session(l).id
<1> DEFINE s == Session(k)
           r == [s EXCEPT !.lost = @ + 1]
<1>1. s \in SessionRecords(DOMAIN order)
  BY MadeFacts
<1>2. /\ r \in SessionRecords(DOMAIN order') /\ r.id = s.id /\ r.seqOut = s.seqOut
      /\ r.lost = s.lost + 1 /\ r.orderIDs = s.orderIDs
  <2>1. /\ r \in SessionRecords(DOMAIN order) /\ r.id = s.id /\ r.seqOut = s.seqOut
        /\ r.lost = s.lost + 1 /\ r.orderIDs = s.orderIDs
    BY <1>1 DEF SessionRecords
  <2>2. DOMAIN order' = DOMAIN order
    OBVIOUS
  <2>3. QED
    BY <2>1, <2>2
<1>3. session' = [session EXCEPT ![k[1]] = [session[k[1]] EXCEPT ![k[2]] = r]]
  <2>1. session' = [session EXCEPT ![k[1]] = [session[k[1]] EXCEPT
                      ![k[2]] = [session[k[1]][k[2]] EXCEPT !.lost = @ + 1]]]
    BY DEF SessionTypes
  <2>2. QED
    BY <2>1 DEF Session
<1> HIDE DEF r
<1>4. /\ SessionTypes' /\ Made' = Made
      /\ \A c \in Conns : Len(session'[c]) = Len(session[c])
      /\ Session(k)' = r
      /\ \A l \in Made : l # k => Session(l)' = Session(l)
      /\ \A l \in Made : Session(l)'.id = Session(l).id
  BY <1>2, <1>3, SessionPut
<1>5. QED
  BY <1>2, <1>4

(* The session remembers an order under a name, or forgets it. *)
LEMMA OrderIDPut ==
  ASSUME SessionTypes, DOMAIN order \subseteq DOMAIN order',
         NEW k \in Made, NEW cl \in ClOrdIDs, NEW o \in {0} \cup DOMAIN order',
         session' = [session EXCEPT ![k[1]][k[2]].orderIDs[cl] = o]
  PROVE  /\ SessionTypes' /\ Made' = Made
         /\ \A c \in Conns : Len(session'[c]) = Len(session[c])
         /\ Session(k)'.seqOut = Session(k).seqOut
         /\ Session(k)'.lost = Session(k).lost
         /\ OrderOf(k, cl)' = o
         /\ \A l \in Made, n \in ClOrdIDs :
              l # k \/ n # cl => OrderOf(l, n)' = OrderOf(l, n)
         /\ \A l \in Made : l # k => Session(l)' = Session(l)
         /\ \A l \in Made : Session(l)'.id = Session(l).id
<1> DEFINE s == Session(k)
           r == [s EXCEPT !.orderIDs = [s.orderIDs EXCEPT ![cl] = o]]
<1>1. s \in SessionRecords(DOMAIN order) /\ s.orderIDs \in [ClOrdIDs -> {0} \cup DOMAIN order]
  <2>1. s \in SessionRecords(DOMAIN order)
    BY MadeFacts
  <2>2. QED
    BY <2>1 DEF SessionRecords
<1>2. /\ r \in SessionRecords(DOMAIN order') /\ r.id = s.id /\ r.seqOut = s.seqOut
      /\ r.lost = s.lost /\ r.orderIDs = [s.orderIDs EXCEPT ![cl] = o]
  <2>1. [s.orderIDs EXCEPT ![cl] = o] \in [ClOrdIDs -> {0} \cup DOMAIN order']
    BY <1>1
  <2>2. s \in [id : CompIDs, loggedIn : BOOLEAN, seqOut : Nat, lost : Nat,
               orderIDs : [ClOrdIDs -> {0} \cup DOMAIN order]]
    BY <1>1 DEF SessionRecords
  <2>3. QED
    BY <2>1, <2>2 DEF SessionRecords
<1>3. session' = [session EXCEPT ![k[1]] = [session[k[1]] EXCEPT ![k[2]] = r]]
  <2>1. session' = [session EXCEPT ![k[1]] = [session[k[1]] EXCEPT
                      ![k[2]] = [session[k[1]][k[2]] EXCEPT !.orderIDs = [@ EXCEPT ![cl] = o]]]]
    BY DEF SessionTypes
  <2>2. QED
    BY <2>1 DEF Session
<1> HIDE DEF r
<1>4. /\ SessionTypes' /\ Made' = Made
      /\ \A c \in Conns : Len(session'[c]) = Len(session[c])
      /\ Session(k)' = r
      /\ \A l \in Made : l # k => Session(l)' = Session(l)
      /\ \A l \in Made : Session(l)'.id = Session(l).id
  BY <1>2, <1>3, SessionPut
<1>5. OrderOf(k, cl)' = o /\ \A n \in ClOrdIDs : n # cl => OrderOf(k, n)' = OrderOf(k, n)
  BY <1>1, <1>2, <1>4 DEF OrderOf
<1>6. \A l \in Made : l # k => \A n \in ClOrdIDs : OrderOf(l, n)' = OrderOf(l, n)
  BY <1>4 DEF OrderOf
<1>7. QED
  BY <1>2, <1>4, <1>5, <1>6

-----------------------------------------------------------------------------
(* The parts of the types are TypeOK. *)
LEMMA TypesAreTypeOK ==
  ASSUME Types, PlaceInv
  PROVE  TypeOK
<1>1. FlagTypes /\ LocalTypes /\ SessionTypes /\ ChannelTypes /\ TableTypes /\ OrderTypes
  BY DEF Types
<1>2. ctxDone \in BOOLEAN /\ accepting \in BOOLEAN /\ panicked \in BOOLEAN
  BY <1>1 DEF FlagTypes
<1>3. conn \in [Conns -> [at : ConnPlaces, session : Nat, request : Requests \cup {NoRequest},
                          number : Nat, order : {0} \cup DOMAIN order, status : OrderStatuses,
                          filled : 0..Quantity]]
  BY <1>1 DEF LocalTypes, Locals
<1>4. ASSUME NEW c \in Conns
      PROVE  /\ received[c] \in Seq([session : DOMAIN session[c], number : Nat \ {0}])
             /\ outCh[c] \in Seq([session : DOMAIN session[c], number : Nat \ {0}])
             /\ Len(outCh[c]) <= OutCap
             /\ conn[c].session \in {0} \cup DOMAIN session[c]
             /\ session[c] \in Seq([id : CompIDs, loggedIn : BOOLEAN, seqOut : Nat, lost : Nat,
                                    orderIDs : [ClOrdIDs -> {0} \cup DOMAIN order]])
  <2>1. DOMAIN session[c] = 1..Len(session[c]) /\ Len(session[c]) \in Nat
    BY <1>1, MadeFacts
  <2>2. session[c] \in Seq(SessionRecords(DOMAIN order))
    BY <1>1 DEF SessionTypes
  <2>3. /\ received[c] \in Seq(SentMessages(Len(session[c])))
        /\ outCh[c] \in Seq(SentMessages(Len(session[c])))
        /\ Len(outCh[c]) <= OutCap
    BY <1>1 DEF ChannelTypes
  <2>4. conn[c].session \in {0, Len(session[c])}
    BY DEF PlaceInv
  <2>5. conn[c].session \in {0} \cup DOMAIN session[c]
    BY <2>1, <2>4
  <2>6. QED
    BY <2>1, <2>2, <2>3, <2>5 DEF SessionRecords, SentMessages
<1>5. QED
  <2>1. \A o \in DOMAIN order :
          order[o] \in [session : Made, clOrdID : ClOrdIDs, filled : 0..Quantity,
                        status : OrderStatuses, at : {"resting", "filling", "done"}]
    <3>1. \A o \in DOMAIN order : order[o] \in OrderRecords
      BY <1>1 DEF OrderTypes
    <3>2. QED
      BY <3>1 DEF OrderRecords
  <2>2. /\ writer \in [Conns -> BOOLEAN]
        /\ renamed \subseteq Conns /\ raced \subseteq Made /\ sessions \subseteq Made
        /\ \A k, l \in sessions : Session(k).id = Session(l).id => k = l
        /\ monitor \in [at : {"select", "scan", "enqueue", "exited"}, due : SUBSET sessions,
                        session : {NoSession} \cup Made, number : Nat]
    BY <1>1 DEF FlagTypes, TableTypes, MonitorRecords
  <2>3. QED
    BY <1>2, <1>3, <1>4, <2>1, <2>2 DEF TypeOK

(* What a connection's goroutine keeps. *)
LEMMA LocalFacts ==
  ASSUME LocalTypes, NEW c \in Conns
  PROVE  /\ conn[c] \in Locals(DOMAIN order) /\ conn[c].at \in ConnPlaces
         /\ conn[c].session \in Nat /\ conn[c].number \in Nat
         /\ conn[c].request \in Requests \cup {NoRequest}
         /\ conn[c].order \in {0} \cup DOMAIN order
         /\ conn[c].status \in OrderStatuses /\ conn[c].filled \in 0..Quantity
BY DEF LocalTypes, Locals

(* One goroutine goes on, the others stay where they are. *)
LEMMA ConnPut ==
  ASSUME LocalTypes, DOMAIN order \subseteq DOMAIN order',
         NEW c \in Conns, NEW r \in Locals(DOMAIN order'), conn' = [conn EXCEPT ![c] = r]
  PROVE  /\ LocalTypes'
         /\ conn'[c] = r /\ \A d \in Conns : d # c => conn'[d] = conn[d]
<1>1. conn \in [Conns -> Locals(DOMAIN order)]
  BY DEF LocalTypes
<1>2. Locals(DOMAIN order) \subseteq Locals(DOMAIN order')
  BY DEF Locals
<1>3. conn' \in [Conns -> Locals(DOMAIN order')]
  BY <1>1, <1>2
<1>4. QED
  BY <1>1, <1>3 DEF LocalTypes

(* There may be more orders. *)
LEMMA LocalsStay ==
  ASSUME LocalTypes, DOMAIN order \subseteq DOMAIN order', UNCHANGED conn
  PROVE  LocalTypes'
<1>1. Locals(DOMAIN order) \subseteq Locals(DOMAIN order')
  BY DEF Locals
<1>2. QED
  BY <1>1 DEF LocalTypes

(* Nor do sessions change when there are more orders. *)
LEMMA SessionsStay ==
  ASSUME SessionTypes, DOMAIN order \subseteq DOMAIN order', UNCHANGED session
  PROVE  SessionTypes' /\ Made' = Made /\ \A k \in Made : Session(k)' = Session(k)
<1>1. SessionRecords(DOMAIN order) \subseteq SessionRecords(DOMAIN order')
  <2>1. [ClOrdIDs -> {0} \cup DOMAIN order] \subseteq [ClOrdIDs -> {0} \cup DOMAIN order']
    OBVIOUS
  <2>2. QED
    BY <2>1 DEF SessionRecords
<1>2. SessionTypes'
  BY <1>1 DEF SessionTypes
<1>3. QED
  BY <1>2 DEF Made, Session

(* The channels stay when sessions are made. *)
LEMMA ChannelsStay ==
  ASSUME ChannelTypes, SessionTypes, SessionTypes', UNCHANGED <<received, outCh>>,
         \A c \in Conns : Len(session[c]) <= Len(session'[c])
  PROVE  ChannelTypes'
<1>1. \A c \in Conns : Len(session[c]) \in Nat
  BY MadeFacts
<1>2. \A c \in Conns : Len(session'[c]) \in Nat
  <2>1. session' \in [Conns -> Seq(SessionRecords(DOMAIN order'))]
    BY DEF SessionTypes
  <2>2. QED
    BY <2>1
<1>3. ASSUME NEW c \in Conns
      PROVE  /\ received[c] \in Seq(SentMessages(Len(session'[c])))
             /\ outCh[c] \in Seq(SentMessages(Len(session'[c])))
             /\ Len(outCh[c]) <= OutCap
  <2>1. 1..Len(session[c]) \subseteq 1..Len(session'[c])
    BY <1>1, <1>2
  <2>2. SentMessages(Len(session[c])) \subseteq SentMessages(Len(session'[c]))
    BY <2>1 DEF SentMessages
  <2>3. /\ received[c] \in Seq(SentMessages(Len(session[c])))
        /\ outCh[c] \in Seq(SentMessages(Len(session[c])))
        /\ Len(outCh[c]) <= OutCap
    BY DEF ChannelTypes
  <2>4. QED
    BY <2>2, <2>3
<1>4. QED
  BY <1>3 DEF ChannelTypes

(* The table stays. *)
LEMMA TableStays ==
  ASSUME TableTypes, Made \subseteq Made', UNCHANGED <<sessions, monitor>>,
         raced' \subseteq Made', \A k \in sessions : Session(k)'.id = Session(k).id
  PROVE  TableTypes'
<1>1. /\ sessions \subseteq Made /\ monitor \in MonitorRecords
      /\ \A k, l \in sessions : Session(k).id = Session(l).id => k = l
  BY DEF TableTypes
<1>2. MonitorRecords \subseteq MonitorRecords'
  BY DEF MonitorRecords
<1>3. QED
  BY <1>1, <1>2 DEF TableTypes

(* The orders stay. *)
LEMMA OrdersStay ==
  ASSUME OrderTypes, Made \subseteq Made', UNCHANGED order
  PROVE  OrderTypes'
<1>1. OrderRecords \subseteq OrderRecords'
  BY DEF OrderRecords
<1>2. order \in Seq(OrderRecords)
  BY DEF OrderTypes
<1>3. order \in Seq(OrderRecords')
  BY <1>1, <1>2
<1>4. QED
  BY <1>3 DEF OrderTypes

-----------------------------------------------------------------------------
(* The numbers of one session. *)
NumbersOf(k) ==
  ~Closed(k) =>
    /\ \A i, j \in Numbered(k) :
         i < j => IF k \in raced THEN Sent(k)[i].number # Sent(k)[j].number
                  ELSE Sent(k)[i].number < Sent(k)[j].number
    /\ Cardinality(Numbered(k)) + Session(k).lost + InHand(k) = Session(k).seqOut
    /\ \A i \in Numbered(k) : Sent(k)[i].number <= Session(k).seqOut
    /\ HoldsNumber(k) => NotSent(k, conn[k[1]].number)
    /\ MonitorHoldsNumber(k) => NotSent(k, monitor.number)
    /\ HoldsNumber(k) /\ MonitorHoldsNumber(k) =>
         k \in raced /\ conn[k[1]].number # monitor.number

(* The invariants of the numbers, session by session. *)
LEMMA NumbersAre == (NumbersInOrder /\ NumberInv) <=> \A k \in Made : NumbersOf(k)
BY DEF NumbersInOrder, NumberInv, NumbersOf

(* And after a step. *)
LEMMA NumbersAreNext ==
  ASSUME \A k \in Made' : NumbersOf(k)'
  PROVE  NumbersInOrder' /\ NumberInv'
BY DEF NumbersInOrder, NumberInv, NumbersOf

(* A sequence, by its elements. *)
LEMMA SeqFacts ==
  ASSUME NEW S, NEW s \in Seq(S)
  PROVE  Len(s) \in Nat /\ DOMAIN s = 1..Len(s) /\ \A i \in DOMAIN s : s[i] \in S
OBVIOUS

(* An element appended to the second of two sequences comes last. *)
LEMMA AppendAfter ==
  ASSUME NEW S, NEW s \in Seq(S), NEW t \in Seq(S), NEW x \in S
  PROVE  s \o Append(t, x) = Append(s \o t, x)
<1>1. Append(t, x) = t \o <<x>> /\ <<x>> \in Seq(S)
  BY AppendIsConcat
<1>2. s \o (t \o <<x>>) = (s \o t) \o <<x>>
  BY <1>1, ConcatAssociative
<1>3. s \o t \in Seq(S)
  BY ConcatProperties
<1>4. QED
  BY <1>1, <1>2, <1>3, AppendIsConcat

(* What was sent in a session. *)
LEMMA SentFacts ==
  ASSUME SessionTypes, ChannelTypes, NEW k \in Made
  PROVE  /\ received[k[1]] \in Seq([session : Nat, number : Nat \ {0}])
         /\ outCh[k[1]] \in Seq([session : Nat, number : Nat \ {0}])
         /\ Sent(k) \in Seq([session : Nat, number : Nat \ {0}])
         /\ Len(Sent(k)) \in Nat /\ DOMAIN Sent(k) = 1..Len(Sent(k))
         /\ Len(Sent(k)) = Len(received[k[1]]) + Len(outCh[k[1]])
         /\ \A i \in DOMAIN Sent(k) : Sent(k)[i].session \in Nat /\ Sent(k)[i].number \in Nat
         /\ IsFiniteSet(Numbered(k)) /\ Cardinality(Numbered(k)) \in Nat
         /\ Session(k).seqOut \in Nat /\ Session(k).lost \in Nat
<1> DEFINE M == [session : Nat, number : Nat \ {0}]
<1>1. k[1] \in Conns /\ Session(k) \in SessionRecords(DOMAIN order)
  BY MadeFacts
<1>2. received[k[1]] \in Seq(M) /\ outCh[k[1]] \in Seq(M)
  BY <1>1 DEF ChannelTypes
<1>3. \A m \in M : m.session \in Nat /\ m.number \in Nat
  OBVIOUS
<1> HIDE DEF M
<1>4. /\ Sent(k) \in Seq(M) /\ Len(Sent(k)) \in Nat /\ DOMAIN Sent(k) = 1..Len(Sent(k))
      /\ Len(Sent(k)) = Len(received[k[1]]) + Len(outCh[k[1]])
  <2>1. Sent(k) \in Seq(M) /\ Len(Sent(k)) = Len(received[k[1]]) + Len(outCh[k[1]])
    BY <1>2, ConcatProperties DEF Sent
  <2>2. QED
    BY <2>1, SeqFacts
<1>5. \A i \in DOMAIN Sent(k) : Sent(k)[i] \in M
  BY <1>4, SeqFacts
<1>6. IsFiniteSet(Numbered(k)) /\ Cardinality(Numbered(k)) \in Nat
  <2>1. Numbered(k) \subseteq 1..Len(Sent(k))
    BY <1>4 DEF Numbered
  <2>2. IsFiniteSet(1..Len(Sent(k)))
    <3>1. Len(Sent(k)) \in Int
      BY <1>4
    <3>2. QED
      BY <3>1, FS_Interval
  <2>3. QED
    BY <2>1, <2>2, FS_Subset, FS_CardinalityType
<1>7. Session(k).seqOut \in Nat /\ Session(k).lost \in Nat
  BY <1>1 DEF SessionRecords
<1>8. QED
  BY <1>2, <1>3, <1>4, <1>5, <1>6, <1>7 DEF M

(* A step that does not concern the numbers of a session. *)
LEMMA KeepsNumbers ==
  ASSUME NEW k, NumbersOf(k), Closed(k) => Closed(k)',
         Numbered(k)' = Numbered(k), \A i \in Numbered(k) : Sent(k)'[i] = Sent(k)[i],
         Session(k)'.seqOut = Session(k).seqOut, Session(k)'.lost = Session(k).lost,
         HoldsNumber(k)' <=> HoldsNumber(k),
         HoldsNumber(k) => conn'[k[1]].number = conn[k[1]].number,
         MonitorHoldsNumber(k)' <=> MonitorHoldsNumber(k),
         MonitorHoldsNumber(k) => monitor'.number = monitor.number,
         k \in raced' <=> k \in raced
  PROVE  NumbersOf(k)'
<1> SUFFICES ASSUME ~Closed(k)'
             PROVE  /\ \A i, j \in Numbered(k)' :
                         i < j => IF k \in raced' THEN Sent(k)'[i].number # Sent(k)'[j].number
                                  ELSE Sent(k)'[i].number < Sent(k)'[j].number
                    /\ Cardinality(Numbered(k)') + Session(k)'.lost + InHand(k)' = Session(k)'.seqOut
                    /\ \A i \in Numbered(k)' : Sent(k)'[i].number <= Session(k)'.seqOut
                    /\ HoldsNumber(k)' => NotSent(k, conn[k[1]].number)'
                    /\ MonitorHoldsNumber(k)' => NotSent(k, monitor.number)'
                    /\ HoldsNumber(k)' /\ MonitorHoldsNumber(k)' =>
                         k \in raced' /\ conn'[k[1]].number # monitor'.number
  BY DEF NumbersOf
<1>1. /\ \A i, j \in Numbered(k) :
           i < j => IF k \in raced THEN Sent(k)[i].number # Sent(k)[j].number
                    ELSE Sent(k)[i].number < Sent(k)[j].number
      /\ Cardinality(Numbered(k)) + Session(k).lost + InHand(k) = Session(k).seqOut
      /\ \A i \in Numbered(k) : Sent(k)[i].number <= Session(k).seqOut
      /\ HoldsNumber(k) => NotSent(k, conn[k[1]].number)
      /\ MonitorHoldsNumber(k) => NotSent(k, monitor.number)
      /\ HoldsNumber(k) /\ MonitorHoldsNumber(k) =>
           k \in raced /\ conn[k[1]].number # monitor.number
  BY DEF NumbersOf
<1>2. InHand(k)' = InHand(k)
  BY DEF InHand
<1>3. HoldsNumber(k)' => NotSent(k, conn[k[1]].number)'
  BY <1>1 DEF NotSent
<1>4. MonitorHoldsNumber(k)' => NotSent(k, monitor.number)'
  BY <1>1 DEF NotSent
<1>5. QED
  BY <1>1, <1>2, <1>3, <1>4

(* What was sent stays. *)
LEMMA SentStays ==
  ASSUME NEW k, UNCHANGED <<received, outCh>>
  PROVE  Sent(k)' = Sent(k) /\ Numbered(k)' = Numbered(k)
BY DEF Sent, Numbered

(* The goroutine of a connection takes a number of its session. *)
LEMMA TakenByConn ==
  ASSUME SessionTypes, ChannelTypes, LocalTypes, TableTypes, \A l \in Made : NumbersOf(l),
         NEW c \in Conns, NEW k \in Made, k = SessionOf(c), NEW b \in BOOLEAN, TakeNumber(c, b),
         UNCHANGED <<received, outCh, order, monitor>>, conn[c].at \notin {"enqueue", "ended"}
  PROVE  /\ SessionTypes' /\ LocalTypes' /\ Made' = Made
         /\ \A d \in Conns : Len(session'[d]) = Len(session[d])
         /\ \A l \in Made : Session(l)'.id = Session(l).id
         /\ \A l \in Made : Session(l)'.orderIDs = Session(l).orderIDs
         /\ conn'[c] = [conn[c] EXCEPT !.at = "enqueue", !.number = conn'[c].number]
         /\ \A d \in Conns : d # c => conn'[d] = conn[d]
         /\ raced' \subseteq Made
         /\ \A l \in Made : NumbersOf(l)'
<1>0. PICK n : n = Session(k).seqOut + 1
  OBVIOUS
<1> DEFINE r == [conn[c] EXCEPT !.at = "enqueue", !.number = n]
<1>1. k \in Made /\ k[1] = c /\ k[2] = conn[c].session /\ k = <<c, conn[c].session>>
  BY DEF SessionOf
<1>2. NextNumber(k, b)
  BY DEF TakeNumber
<1>3. /\ SessionTypes' /\ Made' = Made
      /\ \A d \in Conns : Len(session'[d]) = Len(session[d])
      /\ Session(k)'.seqOut = n /\ session'[k[1]][k[2]].seqOut = n
      /\ Session(k)'.lost = Session(k).lost
      /\ Session(k)'.orderIDs = Session(k).orderIDs
      /\ \A l \in Made : l # k => Session(l)' = Session(l)
      /\ \A l \in Made : Session(l)'.id = Session(l).id
  BY <1>0, <1>2, NumberPut
<1>4. \A l \in Made : Session(l)'.orderIDs = Session(l).orderIDs
  BY <1>3
<1>5. conn' = [conn EXCEPT ![c] = r]
  BY <1>1, <1>3 DEF TakeNumber
<1>6. Session(k).seqOut \in Nat /\ Session(k).lost \in Nat /\ n \in Nat
  <2>1. Session(k).seqOut \in Nat /\ Session(k).lost \in Nat
    BY SentFacts
  <2>2. QED
    BY <1>0, <2>1
<1>7. r \in Locals(DOMAIN order) /\ r.at = "enqueue" /\ r.session = conn[c].session /\ r.number = n
  <2>1. conn[c] \in Locals(DOMAIN order)
    BY LocalFacts
  <2>2. "enqueue" \in ConnPlaces
    BY DEF ConnPlaces
  <2>3. QED
    BY <1>6, <2>1, <2>2 DEF Locals
<1>8. /\ LocalTypes' /\ conn'[c] = r
      /\ \A d \in Conns : d # c => conn'[d] = conn[d]
  <2>1. r \in Locals(DOMAIN order') /\ DOMAIN order \subseteq DOMAIN order'
    BY <1>7
  <2>2. QED
    BY <1>5, <2>1, ConnPut
<1>9. conn'[c] = [conn[c] EXCEPT !.at = "enqueue", !.number = conn'[c].number]
  BY <1>7, <1>8
<1>10. raced' = IF MonitorHoldsNumber(k) THEN raced \cup {k} ELSE raced
  BY DEF TakeNumber
<1>11. raced' \subseteq Made
  BY <1>1, <1>10 DEF TableTypes
<1> HIDE DEF r
<1>12. ASSUME NEW l \in Made PROVE MonitorHoldsNumber(l)' <=> MonitorHoldsNumber(l)
  BY DEF MonitorHoldsNumber
<1>13. ASSUME NEW l \in Made PROVE l[1] \in Conns /\ l = <<l[1], l[2]>>
  BY MadeFacts
<1>14. ASSUME NEW l \in Made, l # k PROVE NumbersOf(l)'
  <2>1. Sent(l)' = Sent(l) /\ Numbered(l)' = Numbered(l)
    BY SentStays
  <2>2. (~HoldsNumber(l)' /\ ~HoldsNumber(l)) \/ conn'[l[1]] = conn[l[1]]
    <3>1. CASE l[1] = c
      <4>1. SessionOf(c)' = k /\ conn[c].at # "enqueue"
        BY <1>1, <1>7, <1>8 DEF SessionOf
      <4>2. QED
        BY <1>14, <3>1, <4>1 DEF HoldsNumber, SessionOf
    <3>2. CASE l[1] # c
      BY <1>8, <1>13, <3>2
    <3>3. QED
      BY <3>1, <3>2
  <2>3. /\ HoldsNumber(l)' <=> HoldsNumber(l)
        /\ HoldsNumber(l) => conn'[l[1]].number = conn[l[1]].number
    BY <2>2 DEF HoldsNumber, SessionOf
  <2>4. Closed(l) => Closed(l)'
    BY <1>8, <1>13 DEF Closed
  <2>5. l \in raced' <=> l \in raced
    BY <1>10, <1>14
  <2>6. Session(l)' = Session(l)
    BY <1>3, <1>14
  <2>7. QED
    BY <1>12, <2>1, <2>3, <2>4, <2>5, <2>6, KeepsNumbers
<1>15. NumbersOf(k)'
  <2>0. PICK s, I : s = Sent(k) /\ I = Numbered(k)
    OBVIOUS
  <2>1. Sent(k)' = s /\ Numbered(k)' = I
    BY <2>0, SentStays
  <2>2. /\ \A i, j \in I :
             i < j => IF k \in raced THEN s[i].number # s[j].number ELSE s[i].number < s[j].number
        /\ Cardinality(I) + Session(k).lost + InHand(k) = Session(k).seqOut
        /\ \A i \in I : s[i].number <= Session(k).seqOut
        /\ MonitorHoldsNumber(k) => NotSent(k, monitor.number)
    BY <1>1, <2>0 DEF NumbersOf, Closed
  <2>3. Cardinality(I) \in Nat /\ \A i \in I : s[i].number \in Nat
    BY <2>0, SentFacts DEF Numbered
  <2>4. HoldsNumber(k)' /\ ~HoldsNumber(k)
    BY <1>1, <1>7, <1>8 DEF HoldsNumber, SessionOf
  <2>5. InHand(k)' = InHand(k) + 1
    BY <1>12, <1>1, <2>4 DEF InHand
  <2>6. InHand(k) \in Nat
    BY DEF InHand
  <2>7. \A i, j \in I :
          i < j => IF k \in raced' THEN s[i].number # s[j].number ELSE s[i].number < s[j].number
    <3>1. \A i, j \in I : s[i].number < s[j].number => s[i].number # s[j].number
      BY <2>3
    <3>2. k \in raced => k \in raced'
      BY <1>10
    <3>3. QED
      BY <2>2, <3>1, <3>2
  <2>8. Cardinality(I) + Session(k)'.lost + InHand(k)' = Session(k)'.seqOut
    <3>1. PICK z, lost, h, seqOut : /\ z = Cardinality(I) /\ lost = Session(k).lost
                                    /\ h = InHand(k) /\ seqOut = Session(k).seqOut
      OBVIOUS
    <3>2. z + lost + h = seqOut
      BY <2>2, <3>1
    <3>3. z \in Nat /\ lost \in Nat /\ h \in Nat /\ seqOut \in Nat
      BY <1>6, <2>3, <2>6, <3>1
    <3>4. z + lost + (h + 1) = seqOut + 1
      BY <3>2, <3>3
    <3>5. QED
      BY <1>0, <1>3, <2>5, <3>1, <3>4
  <2>9. \A i \in I : s[i].number < n
    BY <1>0, <1>6, <2>2, <2>3
  <2>10. \A i \in I : s[i].number <= n /\ s[i].number # n
    BY <1>6, <2>3, <2>9
  <2>11. NotSent(k, conn[k[1]].number)'
    <3>1. conn'[k[1]].number = n /\ n \in 1..Session(k)'.seqOut
      BY <1>0, <1>1, <1>3, <1>6, <1>7, <1>8
    <3>2. QED
      BY <2>1, <2>9, <2>10, <3>1 DEF NotSent
  <2>12. ASSUME MonitorHoldsNumber(k)'
         PROVE  NotSent(k, monitor.number)' /\ k \in raced' /\ conn'[k[1]].number # monitor'.number
    <3>1. MonitorHoldsNumber(k) /\ k \in raced'
      BY <1>1, <1>10, <1>12, <2>12
    <3>2. /\ monitor.number \in 1..Session(k).seqOut
          /\ \A i \in I : IF k \in raced THEN s[i].number # monitor.number
                          ELSE s[i].number < monitor.number
      BY <2>0, <2>2, <3>1 DEF NotSent
    <3>3. monitor.number \in 1..n /\ monitor.number # n /\ monitor.number \in Nat
      BY <1>0, <1>6, <3>2
    <3>4. \A i \in I : s[i].number # monitor.number
      BY <2>3, <3>2, <3>3
    <3>5. NotSent(k, monitor.number)'
      BY <1>3, <2>1, <3>1, <3>3, <3>4 DEF NotSent
    <3>6. QED
      BY <1>1, <1>7, <1>8, <3>1, <3>3, <3>5
  <2>13. QED
    BY <1>3, <2>1, <2>7, <2>8, <2>10, <2>11, <2>12 DEF NumbersOf
<1>16. QED
  BY <1>3, <1>4, <1>8, <1>9, <1>11, <1>14, <1>15

(* The monitor takes a number of a session. *)
LEMMA TakenByMonitor ==
  ASSUME SessionTypes, ChannelTypes, TableTypes, \A l \in Made : NumbersOf(l),
         monitor.at = "scan", NEW k \in sessions, Overdue(k),
         UNCHANGED <<received, conn, order>>
  PROVE  /\ SessionTypes' /\ Made' = Made
         /\ \A d \in Conns : Len(session'[d]) = Len(session[d])
         /\ \A l \in Made : Session(l)'.id = Session(l).id
         /\ \A l \in Made : Session(l)'.orderIDs = Session(l).orderIDs
         /\ monitor'.number \in Nat /\ monitor'.number = session'[k[1]][k[2]].seqOut
         /\ raced' \subseteq Made
         /\ \A l \in Made : NumbersOf(l)'
<1>0. PICK n : n = Session(k).seqOut + 1
  OBVIOUS
<1>1. k \in Made
  BY DEF TableTypes
<1>2. Session(k).loggedIn \in BOOLEAN
  <2>1. Session(k) \in SessionRecords(DOMAIN order)
    BY <1>1, MadeFacts
  <2>2. QED
    BY <2>1 DEF SessionRecords
<1>3. /\ SessionTypes' /\ Made' = Made
      /\ \A d \in Conns : Len(session'[d]) = Len(session[d])
      /\ Session(k)'.seqOut = n /\ session'[k[1]][k[2]].seqOut = n
      /\ Session(k)'.lost = Session(k).lost
      /\ Session(k)'.orderIDs = Session(k).orderIDs
      /\ \A l \in Made : l # k => Session(l)' = Session(l)
      /\ \A l \in Made : Session(l)'.id = Session(l).id
  <2>1. NextNumber(k, Session(k).loggedIn)
    BY DEF Overdue
  <2>2. QED
    BY <1>0, <1>1, <1>2, <2>1, NumberPut
<1>4. \A l \in Made : Session(l)'.orderIDs = Session(l).orderIDs
  BY <1>3
<1>5. monitor'.at = "enqueue" /\ monitor'.session = k /\ monitor'.number = n
  BY <1>3 DEF Overdue
<1>6. Session(k).seqOut \in Nat /\ Session(k).lost \in Nat /\ n \in Nat
  <2>1. Session(k).seqOut \in Nat /\ Session(k).lost \in Nat
    BY <1>1, SentFacts
  <2>2. QED
    BY <1>0, <2>1
<1>7. /\ raced' = IF HoldsNumber(k) THEN raced \cup {k} ELSE raced
      /\ UNCHANGED outCh
  BY DEF Overdue
<1>8. raced' \subseteq Made
  BY <1>1, <1>7 DEF TableTypes
<1>9. \A l \in Made : HoldsNumber(l)' <=> HoldsNumber(l)
  BY DEF HoldsNumber, SessionOf
<1>10. \A l \in Made : ~MonitorHoldsNumber(l) /\ (MonitorHoldsNumber(l)' <=> l = k)
  BY <1>5 DEF MonitorHoldsNumber
<1>11. ASSUME NEW l \in Made, l # k PROVE NumbersOf(l)'
  <2>1. Sent(l)' = Sent(l) /\ Numbered(l)' = Numbered(l)
    BY <1>7, SentStays
  <2>2. Closed(l) => Closed(l)'
    BY DEF Closed
  <2>3. l \in raced' <=> l \in raced
    BY <1>7, <1>11
  <2>4. Session(l)' = Session(l)
    BY <1>3, <1>11
  <2>5. QED
    BY <1>9, <1>10, <1>11, <2>1, <2>2, <2>3, <2>4, KeepsNumbers
<1>12. ASSUME ~Closed(k)' PROVE NumbersOf(k)'
  <2>0. PICK s, I : s = Sent(k) /\ I = Numbered(k)
    OBVIOUS
  <2>1. Sent(k)' = s /\ Numbered(k)' = I
    BY <1>7, <2>0, SentStays
  <2>2. /\ \A i, j \in I :
             i < j => IF k \in raced THEN s[i].number # s[j].number ELSE s[i].number < s[j].number
        /\ Cardinality(I) + Session(k).lost + InHand(k) = Session(k).seqOut
        /\ \A i \in I : s[i].number <= Session(k).seqOut
        /\ HoldsNumber(k) => NotSent(k, conn[k[1]].number)
    BY <1>1, <1>12, <2>0 DEF NumbersOf, Closed
  <2>3. Cardinality(I) \in Nat /\ \A i \in I : s[i].number \in Nat
    BY <1>1, <2>0, SentFacts DEF Numbered
  <2>4. InHand(k)' = InHand(k) + 1 /\ InHand(k) \in Nat
    BY <1>1, <1>9, <1>10 DEF InHand
  <2>5. \A i, j \in I :
          i < j => IF k \in raced' THEN s[i].number # s[j].number ELSE s[i].number < s[j].number
    <3>1. \A i, j \in I : s[i].number < s[j].number => s[i].number # s[j].number
      BY <2>3
    <3>2. k \in raced => k \in raced'
      BY <1>7
    <3>3. QED
      BY <2>2, <3>1, <3>2
  <2>6. Cardinality(I) + Session(k)'.lost + InHand(k)' = Session(k)'.seqOut
    <3>1. Session(k)'.seqOut = Session(k).seqOut + 1 /\ Session(k)'.lost = Session(k).lost
      BY <1>0, <1>3
    <3>2. Cardinality(I) + Session(k).lost + InHand(k) = Session(k).seqOut
      BY <2>2
    <3>3. QED
      BY <1>6, <2>3, <2>4, <3>1, <3>2
  <2>7. \A i \in I : s[i].number < n
    BY <1>0, <1>6, <2>2, <2>3
  <2>8. \A i \in I : s[i].number <= n /\ s[i].number # n
    BY <1>6, <2>3, <2>7
  <2>9. NotSent(k, monitor.number)'
    <3>1. monitor'.number = n /\ n \in 1..Session(k)'.seqOut
      BY <1>0, <1>3, <1>5, <1>6
    <3>2. QED
      BY <2>1, <2>7, <2>8, <3>1 DEF NotSent
  <2>10. ASSUME HoldsNumber(k)'
         PROVE  NotSent(k, conn[k[1]].number)' /\ k \in raced' /\ conn'[k[1]].number # monitor'.number
    <3>0. PICK m : m = conn[k[1]].number
      OBVIOUS
    <3>1. HoldsNumber(k) /\ k \in raced' /\ conn'[k[1]].number = m
      BY <1>1, <1>7, <1>9, <2>10, <3>0
    <3>2. /\ m \in 1..Session(k).seqOut
          /\ \A i \in I : IF k \in raced THEN s[i].number # m ELSE s[i].number < m
      BY <2>0, <2>2, <3>0, <3>1 DEF NotSent
    <3>3. m \in 1..n /\ m # n /\ m \in Nat
      BY <1>0, <1>6, <3>2
    <3>4. \A i \in I : s[i].number # m
      BY <2>3, <3>2, <3>3
    <3>5. NotSent(k, conn[k[1]].number)'
      BY <1>3, <2>1, <3>1, <3>3, <3>4 DEF NotSent
    <3>6. QED
      BY <1>5, <3>1, <3>3, <3>5
  <2>11. QED
    BY <1>3, <2>1, <2>5, <2>6, <2>8, <2>9, <2>10 DEF NumbersOf
<1>13. Closed(k)' => NumbersOf(k)'
  BY DEF NumbersOf
<1>14. QED
  BY <1>1, <1>3, <1>4, <1>5, <1>6, <1>8, <1>11, <1>12, <1>13

(* A message with the number n goes out, or is dropped: the number was not  *)
(* yet sent.                                                                *)
LEMMA SendPut ==
  ASSUME SessionTypes, ChannelTypes, NEW k \in Made, NEW n \in Nat \ {0},
         \A i, j \in Numbered(k) :
           i < j => IF k \in raced THEN Sent(k)[i].number # Sent(k)[j].number
                    ELSE Sent(k)[i].number < Sent(k)[j].number,
         \A i \in Numbered(k) : Sent(k)[i].number <= Session(k).seqOut,
         NotSent(k, n), Send(k, n), UNCHANGED <<received, order, raced>>
  PROVE  /\ SessionTypes' /\ ChannelTypes' /\ Made' = Made
         /\ \A d \in Conns : Len(session'[d]) = Len(session[d])
         /\ \A l \in Made : Session(l)'.id = Session(l).id
         /\ \A l \in Made : Session(l)'.orderIDs = Session(l).orderIDs
         /\ \A l \in Made : l # k =>
              /\ Session(l)' = Session(l) /\ Numbered(l)' = Numbered(l)
              /\ \A i \in Numbered(l) : Sent(l)'[i] = Sent(l)[i]
         /\ Session(k)'.seqOut = Session(k).seqOut
         /\ Cardinality(Numbered(k)') + Session(k)'.lost
              = Cardinality(Numbered(k)) + Session(k).lost + 1
         /\ \A i, j \in Numbered(k)' :
              i < j => IF k \in raced THEN Sent(k)'[i].number # Sent(k)'[j].number
                       ELSE Sent(k)'[i].number < Sent(k)'[j].number
         /\ \A i \in Numbered(k)' : Sent(k)'[i].number <= Session(k)'.seqOut
         /\ \A m \in Nat : m # n /\ k \in raced /\ NotSent(k, m) => NotSent(k, m)'
<1> DEFINE M == [session : Nat, number : Nat \ {0}]
<1>0. PICK s, I, o : s = Sent(k) /\ I = Numbered(k) /\ o = outCh[k[1]]
  OBVIOUS
<1>1. /\ k[1] \in Conns /\ k[2] \in Nat /\ k[2] \in 1..Len(session[k[1]])
      /\ Len(session[k[1]]) \in Nat /\ k = <<k[1], k[2]>>
  BY MadeFacts
<1>2. /\ s \in Seq(M) /\ Len(s) \in Nat /\ DOMAIN s = 1..Len(s)
      /\ I = {i \in 1..Len(s) : s[i].session = k[2]}
      /\ IsFiniteSet(I) /\ Cardinality(I) \in Nat
      /\ \A i \in 1..Len(s) : s[i].session \in Nat /\ s[i].number \in Nat
      /\ Session(k).seqOut \in Nat /\ Session(k).lost \in Nat
  BY <1>0, SentFacts DEF Numbered
<1>3. /\ \A i, j \in I :
           i < j => IF k \in raced THEN s[i].number # s[j].number ELSE s[i].number < s[j].number
      /\ \A i \in I : s[i].number <= Session(k).seqOut
      /\ n \in 1..Session(k).seqOut
      /\ \A i \in I : IF k \in raced THEN s[i].number # n ELSE s[i].number < n
  BY <1>0 DEF NotSent
<1>4. CASE Len(o) < OutCap
  <2> DEFINE m == [session |-> k[2], number |-> n]
  <2>1. outCh' = [outCh EXCEPT ![k[1]] = Append(o, m)] /\ UNCHANGED session
    BY <1>0, <1>4 DEF Send
  <2>2. m \in SentMessages(Len(session[k[1]])) /\ m \in M
    BY <1>1 DEF SentMessages
  <2>3. m.session = k[2] /\ m.number = n
    OBVIOUS
  <2> HIDE DEF m, M
  <2>4. SessionTypes' /\ Made' = Made /\ \A l \in Made : Session(l)' = Session(l)
    BY <2>1, SessionsStay
  <2>5. /\ outCh \in [Conns -> Seq(M)] /\ received \in [Conns -> Seq(M)]
        /\ o \in Seq(M) /\ o \in Seq(SentMessages(Len(session[k[1]]))) /\ Len(o) \in Nat
    BY <1>0, <1>1, SeqFacts DEF ChannelTypes, M
  <2>6. /\ Append(o, m) \in Seq(M) /\ Append(o, m) \in Seq(SentMessages(Len(session[k[1]])))
        /\ Len(Append(o, m)) = Len(o) + 1
    BY <2>2, <2>5, AppendProperties
  <2>7. ChannelTypes'
    <3>1. outCh' \in [Conns -> Seq(M)]
      BY <2>1, <2>5, <2>6
    <3>2. Len(Append(o, m)) <= OutCap
      BY <1>4, <2>5, <2>6, GatewayAssumption
    <3>3. \A c \in Conns : outCh'[c] = IF c = k[1] THEN Append(o, m) ELSE outCh[c]
      BY <2>1, <2>5
    <3>4. \A c \in Conns :
            /\ outCh'[c] \in Seq(SentMessages(Len(session[c])))
            /\ Len(outCh'[c]) <= OutCap
      BY <2>6, <3>2, <3>3 DEF ChannelTypes
    <3>5. QED
      BY <2>1, <3>1, <3>4 DEF ChannelTypes, M
  <2>8. Sent(k)' = Append(s, m)
    <3>1. PICK rc : rc = received[k[1]]
      OBVIOUS
    <3>2. Sent(k)' = rc \o Append(o, m)
      BY <1>1, <2>1, <2>5, <3>1 DEF Sent
    <3>3. s = rc \o o
      BY <1>0, <3>1 DEF Sent
    <3>4. rc \in Seq(M) /\ o \in Seq(M) /\ m \in M
      BY <1>1, <2>2, <2>5, <3>1
    <3>5. rc \o Append(o, m) = Append(rc \o o, m)
      BY <3>4, AppendAfter
    <3>6. QED
      BY <3>2, <3>3, <3>5
  <2>9. /\ Append(s, m) \in Seq(M) /\ Len(Append(s, m)) = Len(s) + 1
        /\ \A i \in 1..Len(s) : Append(s, m)[i] = s[i]
        /\ Append(s, m)[Len(s) + 1] = m
        /\ DOMAIN Append(s, m) = 1..(Len(s) + 1)
    <3>1. s \in Seq(M)
      BY <1>2 DEF M
    <3>2. /\ Append(s, m) \in Seq(M) /\ Len(Append(s, m)) = Len(s) + 1
          /\ \A i \in 1..Len(s) : Append(s, m)[i] = s[i]
          /\ Append(s, m)[Len(s) + 1] = m
      BY <2>2, <3>1, AppendProperties
    <3>3. QED
      BY <3>2, SeqFacts
  <2>10. Numbered(k)' = I \cup {Len(s) + 1} /\ Len(s) + 1 \notin I
    <3>1. Numbered(k)' = {i \in DOMAIN Append(s, m) : Append(s, m)[i].session = k[2]}
      BY <2>8 DEF Numbered
    <3>2. Len(s) + 1 \notin I
      BY <1>2
    <3>3. \A i \in 1..(Len(s) + 1) : i \in 1..Len(s) \/ i = Len(s) + 1
      BY <1>2
    <3>4. 1..Len(s) \subseteq 1..(Len(s) + 1) /\ Len(s) + 1 \in 1..(Len(s) + 1)
      BY <1>2
    <3>5. QED
      BY <1>2, <2>3, <2>9, <3>1, <3>2, <3>3, <3>4
  <2>11. Cardinality(Numbered(k)') = Cardinality(I) + 1
    BY <1>2, <2>10, FS_AddElement
  <2>12. /\ \A i \in I : i \in 1..Len(s) /\ i < Len(s) + 1 /\ Sent(k)'[i] = s[i]
         /\ Sent(k)'[Len(s) + 1].number = n
    BY <1>2, <2>3, <2>8, <2>9
  <2>13. \A i \in I : s[i].number < n => s[i].number # n
    BY <1>2
  <2>14. ASSUME NEW i \in Numbered(k)', NEW j \in Numbered(k)', i < j
         PROVE  IF k \in raced THEN Sent(k)'[i].number # Sent(k)'[j].number
                ELSE Sent(k)'[i].number < Sent(k)'[j].number
    <3>1. i \in I
      <4>1. CASE i = Len(s) + 1
        <5>1. j \in I \/ j = Len(s) + 1
          BY <2>10
        <5>2. j <= Len(s) + 1
          BY <1>2, <2>12, <5>1
        <5>3. QED
          BY <1>2, <2>12, <2>14, <4>1, <5>1, <5>2
      <4>2. QED
        BY <2>10, <4>1
    <3>2. CASE j \in I
      BY <1>3, <2>12, <2>14, <3>1, <3>2
    <3>3. CASE j = Len(s) + 1
      BY <1>3, <2>12, <3>1, <3>3
    <3>4. QED
      BY <2>10, <3>2, <3>3
  <2>15. \A i \in Numbered(k)' : Sent(k)'[i].number <= Session(k)'.seqOut
    <3>1. Session(k)'.seqOut = Session(k).seqOut /\ n <= Session(k).seqOut
      BY <1>2, <1>3, <2>4
    <3>2. QED
      BY <1>3, <2>10, <2>12, <3>1
  <2>16. ASSUME NEW x \in Nat, x # n, k \in raced, NotSent(k, x) PROVE NotSent(k, x)'
    <3>1. x \in 1..Session(k)'.seqOut /\ \A i \in I : s[i].number # x
      BY <1>0, <2>4, <2>16 DEF NotSent
    <3>2. \A i \in Numbered(k)' : Sent(k)'[i].number # x
      BY <2>10, <2>12, <2>16, <3>1
    <3>3. QED
      BY <2>16, <3>1, <3>2 DEF NotSent
  <2>17. ASSUME NEW l \in Made, l # k
         PROVE  /\ Numbered(l)' = Numbered(l)
                /\ \A i \in Numbered(l) : Sent(l)'[i] = Sent(l)[i]
    <3>1. l[1] \in Conns /\ l = <<l[1], l[2]>>
      BY MadeFacts
    <3>2. CASE l[1] # k[1]
      <4>1. outCh'[l[1]] = outCh[l[1]]
        BY <1>1, <2>1, <2>5, <3>1, <3>2
      <4>2. Sent(l)' = Sent(l)
        BY <4>1 DEF Sent
      <4>3. QED
        BY <4>2 DEF Numbered
    <3>3. CASE l[1] = k[1]
      <4>1. l[2] # k[2]
        BY <1>1, <2>17, <3>1, <3>3
      <4>2. Sent(l) = s /\ Sent(l)' = Append(s, m)
        BY <1>0, <2>8, <3>3 DEF Sent
      <4>3. Numbered(l)' = {i \in 1..(Len(s) + 1) : Append(s, m)[i].session = l[2]}
        BY <2>9, <4>2 DEF Numbered
      <4>4. Numbered(l) = {i \in 1..Len(s) : s[i].session = l[2]}
        BY <1>2, <4>2 DEF Numbered
      <4>5. \A i \in 1..(Len(s) + 1) : i \in 1..Len(s) \/ i = Len(s) + 1
        BY <1>2
      <4>6. 1..Len(s) \subseteq 1..(Len(s) + 1)
        BY <1>2
      <4>7. QED
        BY <2>3, <2>9, <4>1, <4>2, <4>3, <4>4, <4>5, <4>6
    <3>4. QED
      BY <3>2, <3>3
  <2>18. Cardinality(Numbered(k)') + Session(k)'.lost = Cardinality(I) + Session(k).lost + 1
    <3>1. Session(k)'.lost = Session(k).lost
      BY <2>4
    <3>2. Session(k).lost \in Nat /\ Cardinality(I) \in Nat
      BY <1>2
    <3>3. QED
      BY <2>11, <3>1, <3>2
  <2>19. QED
    BY <1>0, <2>1, <2>4, <2>7, <2>14, <2>15, <2>16, <2>17, <2>18
<1>5. CASE ~(Len(o) < OutCap)
  <2>1. session' = [session EXCEPT ![k[1]][k[2]].lost = @ + 1] /\ UNCHANGED outCh
    BY <1>0, <1>5 DEF Send
  <2>2. /\ SessionTypes' /\ Made' = Made
        /\ \A c \in Conns : Len(session'[c]) = Len(session[c])
        /\ Session(k)'.seqOut = Session(k).seqOut
        /\ Session(k)'.lost = Session(k).lost + 1
        /\ Session(k)'.orderIDs = Session(k).orderIDs
        /\ \A l \in Made : l # k => Session(l)' = Session(l)
        /\ \A l \in Made : Session(l)'.id = Session(l).id
    BY <2>1, LostPut
  <2>3. ChannelTypes'
    <3>1. \A c \in Conns : Len(session[c]) \in Nat
      BY MadeFacts
    <3>2. \A c \in Conns : Len(session[c]) <= Len(session'[c])
      BY <2>2, <3>1
    <3>3. QED
      BY <2>1, <2>2, <3>2, ChannelsStay
  <2>4. \A l \in Made : Sent(l)' = Sent(l) /\ Numbered(l)' = Numbered(l)
    BY <2>1, SentStays
  <2>5. Cardinality(Numbered(k)') + Session(k)'.lost = Cardinality(I) + Session(k).lost + 1
    <3>1. Cardinality(Numbered(k)') = Cardinality(I)
      BY <1>0, <2>4
    <3>2. Session(k)'.lost = Session(k).lost + 1
      BY <2>2
    <3>3. QED
      BY <1>2, <3>1, <3>2
  <2>6. \A x \in Nat : NotSent(k, x) => NotSent(k, x)'
    BY <2>2, <2>4 DEF NotSent
  <2>7. QED
    BY <1>0, <2>2, <2>3, <2>4, <2>5, <2>6
<1>6. QED
  BY <1>4, <1>5

-----------------------------------------------------------------------------
(* The head of the second of two sequences moves to the first, or goes.     *)
LEMMA HeadMoves ==
  ASSUME NEW S, NEW r \in Seq(S), NEW o \in Seq(S), o # <<>>
  PROVE  /\ Append(r, Head(o)) \o Tail(o) = r \o o
         /\ Len(r) \in Nat /\ Len(o) \in Nat /\ Len(o) > 0 /\ Len(r \o o) = Len(r) + Len(o)
         /\ (r \o o)[Len(r) + 1] = Head(o)
         /\ r \o Tail(o) \in Seq(S) /\ Len(r \o Tail(o)) = Len(r \o o) - 1
         /\ \A i \in 1..(Len(r \o o) - 1) :
              (r \o Tail(o))[i] = IF i <= Len(r) THEN (r \o o)[i] ELSE (r \o o)[i + 1]
<1>1. /\ Head(o) \in S /\ Tail(o) \in Seq(S) /\ Len(Tail(o)) = Len(o) - 1
      /\ \A i \in 1..Len(Tail(o)) : Tail(o)[i] = o[i + 1]
      /\ Head(o) = o[1]
  BY HeadTailProperties
<1>2. PICK h, t, m, n : h = Head(o) /\ t = Tail(o) /\ m = Len(r) /\ n = Len(o)
  OBVIOUS
<1>3. m \in Nat /\ n \in Nat /\ n > 0
  BY <1>2, EmptySeq
<1>4. /\ r \o o \in Seq(S) /\ Len(r \o o) = m + n
      /\ \A i \in 1..(m + n) : (r \o o)[i] = IF i <= m THEN r[i] ELSE o[i - m]
  BY <1>2, ConcatProperties
<1>5. /\ r \o t \in Seq(S) /\ Len(r \o t) = m + (n - 1)
      /\ \A i \in 1..(m + (n - 1)) : (r \o t)[i] = IF i <= m THEN r[i] ELSE t[i - m]
  BY <1>1, <1>2, ConcatProperties
<1>6. /\ Append(r, h) \in Seq(S) /\ Len(Append(r, h)) = m + 1
      /\ \A i \in 1..m : Append(r, h)[i] = r[i]
      /\ Append(r, h)[m + 1] = h
  BY <1>1, <1>2, AppendProperties
<1>7. /\ Append(r, h) \o t \in Seq(S) /\ Len(Append(r, h) \o t) = (m + 1) + (n - 1)
      /\ \A i \in 1..((m + 1) + (n - 1)) :
           (Append(r, h) \o t)[i] = IF i <= m + 1 THEN Append(r, h)[i] ELSE t[i - (m + 1)]
  BY <1>1, <1>2, <1>6, ConcatProperties
<1>8. \A i \in 1..(n - 1) : t[i] = o[i + 1]
  BY <1>1, <1>2
<1>9. h = o[1]
  BY <1>1, <1>2
<1>10. Append(r, h) \o t = r \o o
  <2>1. Len(Append(r, h) \o t) = m + n
    BY <1>3, <1>7
  <2>2. ASSUME NEW i \in 1..(m + n) PROVE (Append(r, h) \o t)[i] = (r \o o)[i]
    <3>1. CASE i <= m
      <4>1. i \in 1..m /\ i <= m + 1 /\ i \in 1..((m + 1) + (n - 1))
        BY <1>3, <3>1
      <4>2. QED
        BY <1>4, <1>6, <1>7, <3>1, <4>1
    <3>2. CASE i = m + 1
      <4>1. i \in 1..((m + 1) + (n - 1)) /\ i <= m + 1 /\ ~(i <= m) /\ i - m = 1
        BY <1>3, <3>2
      <4>2. (Append(r, h) \o t)[i] = Append(r, h)[i]
        BY <1>7, <4>1
      <4>3. Append(r, h)[i] = h
        BY <1>6, <3>2
      <4>4. (r \o o)[i] = o[1]
        BY <1>4, <4>1
      <4>5. QED
        BY <1>9, <4>2, <4>3, <4>4, Zenon
    <3>3. CASE i > m + 1
      <4>1. /\ i \in 1..((m + 1) + (n - 1)) /\ ~(i <= m + 1) /\ ~(i <= m)
            /\ i - (m + 1) \in 1..(n - 1) /\ (i - (m + 1)) + 1 = i - m
        BY <1>3, <3>3
      <4>2. QED
        BY <1>4, <1>7, <1>8, <4>1
    <3>4. i <= m \/ i = m + 1 \/ i > m + 1
      BY <1>3
    <3>5. QED
      BY <3>1, <3>2, <3>3, <3>4
  <2>3. QED
    BY <1>4, <1>7, <2>1, <2>2, SeqEqual
<1>11. (r \o o)[m + 1] = h
  <2>1. m + 1 \in 1..(m + n) /\ ~(m + 1 <= m) /\ (m + 1) - m = 1
    BY <1>3
  <2>2. QED
    BY <1>4, <1>9, <2>1
<1>12. ASSUME NEW i \in 1..((m + n) - 1)
       PROVE  (r \o t)[i] = IF i <= m THEN (r \o o)[i] ELSE (r \o o)[i + 1]
  <2>1. i \in 1..(m + (n - 1)) /\ i \in 1..(m + n) /\ i + 1 \in 1..(m + n)
    BY <1>3
  <2>2. CASE i <= m
    BY <1>4, <1>5, <2>1, <2>2
  <2>3. CASE ~(i <= m)
    <3>1. i - m \in 1..(n - 1) /\ (i - m) + 1 = (i + 1) - m /\ ~(i + 1 <= m)
      BY <1>3, <2>3
    <3>2. QED
      BY <1>4, <1>5, <1>8, <2>1, <2>3, <3>1
  <2>4. QED
    BY <2>2, <2>3
<1>13. m + (n - 1) = (m + n) - 1
  BY <1>3
<1>14. QED
  BY <1>2, <1>3, <1>4, <1>5, <1>10, <1>11, <1>12, <1>13

(* Of the indices with some property, one goes, and those above move down.  *)
LEMMA IndicesDrop ==
  ASSUME NEW n \in Nat, NEW j \in 1..n, NEW I \in SUBSET (1..n), NEW J \in SUBSET (1..(n - 1)),
         \A i \in 1..(n - 1) : i \in J <=> (IF i < j THEN i ELSE i + 1) \in I
  PROVE  /\ Cardinality(I) \in Nat /\ Cardinality(J) \in Nat
         /\ Cardinality(J) = IF j \in I THEN Cardinality(I) - 1 ELSE Cardinality(I)
<1> DEFINE f == [i \in J |-> IF i < j THEN i ELSE i + 1]
<1>1. IsFiniteSet(I) /\ IsFiniteSet(J)
  <2>1. n - 1 \in Int
    OBVIOUS
  <2>2. IsFiniteSet(1..n) /\ IsFiniteSet(1..(n - 1))
    BY <2>1, FS_Interval
  <2>3. QED
    BY <2>2, FS_Subset
<1>2. f \in [J -> I \ {j}]
  <2>1. ASSUME NEW i \in J PROVE (IF i < j THEN i ELSE i + 1) \in I \ {j}
    <3>1. i \in 1..(n - 1) /\ (IF i < j THEN i ELSE i + 1) # j
      OBVIOUS
    <3>2. QED
      BY <3>1
  <2>2. QED
    BY <2>1
<1>3. \A a, b \in J : f[a] = f[b] => a = b
  <2>1. \A a, b \in 1..(n - 1) :
          (IF a < j THEN a ELSE a + 1) = (IF b < j THEN b ELSE b + 1) => a = b
    OBVIOUS
  <2>2. QED
    BY <2>1
<1>4. ASSUME NEW x \in I \ {j} PROVE \E i \in J : f[i] = x
  <2>1. PICK i : i = IF x < j THEN x ELSE x - 1
    OBVIOUS
  <2>2. i \in 1..(n - 1) /\ (IF i < j THEN i ELSE i + 1) = x
    BY <2>1
  <2>3. QED
    BY <2>2
<1>5. f \in Bijection(J, I \ {j})
  BY <1>2, <1>3, <1>4, Fun_IsBij
<1>6. Cardinality(I \ {j}) = Cardinality(J)
  BY <1>1, <1>5, FS_Bijection, Fun_ExistsBij
<1>7. Cardinality(I \ {j}) = IF j \in I THEN Cardinality(I) - 1 ELSE Cardinality(I)
  BY <1>1, FS_RemoveElement
<1>8. QED
  BY <1>1, <1>6, <1>7, FS_CardinalityType

(* The writer writes: what was sent is as it was, or one message is lost.   *)
LEMMA WritePut ==
  ASSUME SessionTypes, ChannelTypes, \A l \in Made : NumbersOf(l), NEW c \in Conns, Write(c)
  PROVE  /\ SessionTypes' /\ ChannelTypes' /\ Made' = Made
         /\ \A d \in Conns : Len(session'[d]) = Len(session[d])
         /\ \A l \in Made : Session(l)'.id = Session(l).id
         /\ \A l \in Made : Session(l)'.orderIDs = Session(l).orderIDs
         /\ \A l \in Made : NumbersOf(l)'
<1> DEFINE M == [session : Nat, number : Nat \ {0}]
<1>0. PICK r, o, N : r = received[c] /\ o = outCh[c] /\ N = SentMessages(Len(session[c]))
  OBVIOUS
<1>1. /\ outCh \in [Conns -> Seq(M)] /\ received \in [Conns -> Seq(M)]
      /\ r \in Seq(M) /\ o \in Seq(M) /\ r \in Seq(N) /\ o \in Seq(N) /\ Len(o) <= OutCap
      /\ o # <<>> /\ outCh' = [outCh EXCEPT ![c] = Tail(o)]
      /\ UNCHANGED <<conn, order, monitor, raced>>
  BY <1>0 DEF ChannelTypes, Write, WriterFrame
<1>2. Len(session[c]) \in Nat /\ \A l \in Made : l[1] \in Conns /\ l = <<l[1], l[2]>>
  BY MadeFacts
<1>3. N \subseteq M /\ \A x \in N : x.session \in 1..Len(session[c]) /\ x.number \in Nat
  <2>1. 1..Len(session[c]) \subseteq Nat
    BY <1>2
  <2>2. QED
    BY <1>0, <2>1 DEF SentMessages
<1> HIDE DEF M
<1>4. /\ Head(o) \in N /\ Tail(o) \in Seq(N) /\ Tail(o) \in Seq(M)
      /\ Len(Tail(o)) = Len(o) - 1 /\ Len(o) \in Nat
  BY <1>1, HeadTailProperties, SeqFacts
<1>5. /\ Append(r, Head(o)) \o Tail(o) = r \o o
      /\ Len(r) \in Nat /\ Len(o) > 0 /\ Len(r \o o) = Len(r) + Len(o)
      /\ (r \o o)[Len(r) + 1] = Head(o)
      /\ r \o Tail(o) \in Seq(N) /\ Len(r \o Tail(o)) = Len(r \o o) - 1
      /\ \A i \in 1..(Len(r \o o) - 1) :
           (r \o Tail(o))[i] = IF i <= Len(r) THEN (r \o o)[i] ELSE (r \o o)[i + 1]
  BY <1>1, HeadMoves
<1>6. Len(Tail(o)) <= OutCap
  BY <1>1, <1>4, GatewayAssumption
<1>7. \A d \in Conns : outCh'[d] = IF d = c THEN Tail(o) ELSE outCh[d]
  BY <1>1
<1>8. outCh' \in [Conns -> Seq(M)]
  BY <1>1, <1>4
<1>9. \A l \in Made :
        /\ HoldsNumber(l)' <=> HoldsNumber(l)
        /\ MonitorHoldsNumber(l)' <=> MonitorHoldsNumber(l)
        /\ Closed(l)' <=> Closed(l)
  BY <1>1 DEF HoldsNumber, MonitorHoldsNumber, SessionOf, Closed
<1>10. \A l \in Made : l[1] = c => Sent(l) = r \o o
  BY <1>0 DEF Sent
<1>11. CASE received' = [received EXCEPT ![c] = Append(r, Head(o))] /\ UNCHANGED session
  <2>1. SessionTypes' /\ Made' = Made /\ \A l \in Made : Session(l)' = Session(l)
    BY <1>1, <1>11, SessionsStay
  <2>2. Append(r, Head(o)) \in Seq(N) /\ Append(r, Head(o)) \in Seq(M)
    BY <1>1, <1>3, <1>4, AppendProperties
  <2>3. ChannelTypes'
    <3>1. received' \in [Conns -> Seq(M)]
      BY <1>1, <1>11, <2>2
    <3>2. \A d \in Conns : received'[d] = IF d = c THEN Append(r, Head(o)) ELSE received[d]
      BY <1>1, <1>11
    <3>3. \A d \in Conns :
            /\ received'[d] \in Seq(SentMessages(Len(session[d])))
            /\ outCh'[d] \in Seq(SentMessages(Len(session[d])))
            /\ Len(outCh'[d]) <= OutCap
      BY <1>0, <1>4, <1>6, <1>7, <2>2, <3>2 DEF ChannelTypes
    <3>4. QED
      BY <1>8, <1>11, <3>1, <3>3 DEF ChannelTypes, M
  <2>4. ASSUME NEW l \in Made PROVE Sent(l)' = Sent(l)
    <3>1. CASE l[1] = c
      <4>1. Sent(l)' = Append(r, Head(o)) \o Tail(o)
        BY <1>1, <1>2, <1>7, <1>11, <3>1 DEF Sent
      <4>2. QED
        BY <1>5, <1>10, <3>1, <4>1
    <3>2. CASE l[1] # c
      BY <1>1, <1>2, <1>7, <1>11, <3>2 DEF Sent
    <3>3. QED
      BY <3>1, <3>2
  <2>5. ASSUME NEW l \in Made PROVE NumbersOf(l)'
    <3>1. Numbered(l)' = Numbered(l)
      BY <2>4 DEF Numbered
    <3>2. QED
      BY <1>1, <1>9, <2>1, <2>4, <3>1, KeepsNumbers
  <2>6. QED
    BY <1>11, <2>1, <2>3, <2>5
<1>12. CASE /\ session' = [session EXCEPT ![c][Head(o).session].lost = @ + 1]
            /\ UNCHANGED received
  <2>1. PICK k \in Made : k = <<c, Head(o).session>>
    BY <1>3, <1>4, MadeFacts
  <2>2. /\ SessionTypes' /\ Made' = Made
        /\ \A d \in Conns : Len(session'[d]) = Len(session[d])
        /\ Session(k)'.seqOut = Session(k).seqOut
        /\ Session(k)'.lost = Session(k).lost + 1
        /\ Session(k)'.orderIDs = Session(k).orderIDs
        /\ \A l \in Made : l # k => Session(l)' = Session(l)
        /\ \A l \in Made : Session(l)'.id = Session(l).id
    <3>1. k[1] = c /\ k[2] = Head(o).session
      BY <2>1
    <3>2. session' = [session EXCEPT ![k[1]][k[2]].lost = @ + 1]
      BY <1>12, <3>1
    <3>3. QED
      BY <1>1, <3>2, LostPut
  <2>3. ChannelTypes'
    <3>1. \A d \in Conns :
            /\ received[d] \in Seq(SentMessages(Len(session'[d])))
            /\ outCh'[d] \in Seq(SentMessages(Len(session'[d])))
            /\ Len(outCh'[d]) <= OutCap
      BY <1>0, <1>4, <1>6, <1>7, <2>2 DEF ChannelTypes
    <3>2. QED
      BY <1>1, <1>8, <1>12, <3>1 DEF ChannelTypes, M
  <2>4. ASSUME NEW l \in Made, l[1] # c PROVE NumbersOf(l)'
    <3>1. Sent(l)' = Sent(l) /\ Numbered(l)' = Numbered(l)
      BY <1>2, <1>7, <1>12, <2>4 DEF Sent, Numbered
    <3>2. l # k
      BY <2>1, <2>4
    <3>3. QED
      BY <1>1, <1>9, <2>2, <3>1, <3>2, KeepsNumbers
  <2>5. ASSUME NEW l \in Made, l[1] = c, ~Closed(l)' PROVE NumbersOf(l)'
    <3>0. PICK s, t, I, J, n, j :
            /\ s = r \o o /\ t = r \o Tail(o) /\ n = Len(s) /\ j = Len(r) + 1
            /\ I = Numbered(l) /\ J = Numbered(l)'
      OBVIOUS
    <3>1. /\ Sent(l) = s /\ Sent(l)' = t
      BY <1>0, <1>1, <1>7, <1>10, <1>12, <2>5, <3>0 DEF Sent
    <3>2. /\ n \in Nat /\ j \in 1..n /\ DOMAIN s = 1..n /\ DOMAIN t = 1..(n - 1)
          /\ \A i \in 1..(n - 1) : t[i] = s[IF i < j THEN i ELSE i + 1]
          /\ s[j] = Head(o)
          /\ \A i \in 1..n : s[i].number \in Nat
      <4>1. /\ r \o o \in Seq(M) /\ r \o Tail(o) \in Seq(M)
        BY <1>1, <1>4, ConcatProperties
      <4>2. /\ DOMAIN s = 1..n /\ n \in Nat /\ DOMAIN t = 1..Len(t) /\ \A i \in 1..n : s[i] \in M
        BY <3>0, <4>1, SeqFacts
      <4>3. \A x \in M : x.number \in Nat
        BY DEF M
      <4>4. Len(t) = n - 1 /\ n = Len(r) + Len(o) /\ s[j] = Head(o)
        BY <1>5, <3>0
      <4>5. \A i \in 1..(n - 1) : t[i] = IF i <= Len(r) THEN s[i] ELSE s[i + 1]
        BY <1>5, <3>0
      <4>6. j \in 1..n /\ \A i \in 1..(n - 1) : i <= Len(r) <=> i < j
        BY <1>4, <1>5, <3>0, <4>4
      <4>7. QED
        BY <4>2, <4>3, <4>4, <4>5, <4>6
    <3>3. I = {i \in 1..n : s[i].session = l[2]} /\ J = {i \in 1..(n - 1) : t[i].session = l[2]}
      BY <3>0, <3>1, <3>2 DEF Numbered
    <3>4. \A i \in 1..(n - 1) : (IF i < j THEN i ELSE i + 1) \in 1..n
      BY <3>2
    <3>5. \A i \in 1..(n - 1) : i \in J <=> (IF i < j THEN i ELSE i + 1) \in I
      BY <3>2, <3>3, <3>4
    <3>6. /\ Cardinality(I) \in Nat /\ Cardinality(J) \in Nat
          /\ Cardinality(J) = IF j \in I THEN Cardinality(I) - 1 ELSE Cardinality(I)
      <4>1. I \in SUBSET (1..n) /\ J \in SUBSET (1..(n - 1))
        BY <3>3
      <4>2. n \in Nat /\ j \in 1..n
        BY <3>2
      <4>3. QED
        BY <3>5, <4>1, <4>2, IndicesDrop
    <3>7. j \in I <=> l = k
      BY <1>2, <2>1, <2>5, <3>2, <3>3
    <3>8. /\ Session(l)'.seqOut = Session(l).seqOut
          /\ Session(l)'.lost = IF l = k THEN Session(l).lost + 1 ELSE Session(l).lost
          /\ Session(l).lost \in Nat /\ Session(l).seqOut \in Nat
      BY <2>2, SentFacts
    <3>9. /\ \A a, b \in I :
               a < b => IF l \in raced THEN s[a].number # s[b].number ELSE s[a].number < s[b].number
          /\ Cardinality(I) + Session(l).lost + InHand(l) = Session(l).seqOut
          /\ \A a \in I : s[a].number <= Session(l).seqOut
          /\ HoldsNumber(l) => NotSent(l, conn[l[1]].number)
          /\ MonitorHoldsNumber(l) => NotSent(l, monitor.number)
          /\ HoldsNumber(l) /\ MonitorHoldsNumber(l) =>
               l \in raced /\ conn[l[1]].number # monitor.number
      <4>1. /\ \A a, b \in Numbered(l) :
                 a < b => IF l \in raced THEN Sent(l)[a].number # Sent(l)[b].number
                          ELSE Sent(l)[a].number < Sent(l)[b].number
            /\ Cardinality(Numbered(l)) + Session(l).lost + InHand(l) = Session(l).seqOut
            /\ \A a \in Numbered(l) : Sent(l)[a].number <= Session(l).seqOut
            /\ HoldsNumber(l) => NotSent(l, conn[l[1]].number)
            /\ MonitorHoldsNumber(l) => NotSent(l, monitor.number)
            /\ HoldsNumber(l) /\ MonitorHoldsNumber(l) =>
                 l \in raced /\ conn[l[1]].number # monitor.number
        BY <1>9, <2>5 DEF NumbersOf
      <4>2. I = Numbered(l) /\ s = Sent(l)
        BY <3>0, <3>1
      <4>3. QED
        BY <4>1, <4>2
    <3>10. ASSUME NEW a \in J, NEW b \in J, a < b
           PROVE  IF l \in raced THEN t[a].number # t[b].number ELSE t[a].number < t[b].number
      <4>1. PICK x, y : x = (IF a < j THEN a ELSE a + 1) /\ y = (IF b < j THEN b ELSE b + 1)
        OBVIOUS
      <4>2. a \in 1..(n - 1) /\ b \in 1..(n - 1)
        BY <3>3
      <4>3. x \in I /\ y \in I /\ t[a] = s[x] /\ t[b] = s[y]
        BY <3>2, <3>5, <4>1, <4>2
      <4>4. x < y
        BY <3>2, <3>10, <4>1, <4>2
      <4>5. QED
        BY <3>9, <4>3, <4>4
    <3>11. \A a \in J : \E x \in I : t[a] = s[x]
      BY <3>2, <3>3, <3>5
    <3>12. InHand(l)' = InHand(l) /\ InHand(l) \in Nat
      BY <1>9 DEF InHand
    <3>13. Cardinality(J) + Session(l)'.lost + InHand(l)' = Session(l)'.seqOut
      <4>1. CASE l = k
        <5>1. Cardinality(J) = Cardinality(I) - 1 /\ Session(l)'.lost = Session(l).lost + 1
          BY <3>6, <3>7, <3>8, <4>1
        <5>2. QED
          BY <3>6, <3>8, <3>9, <3>12, <5>1
      <4>2. CASE l # k
        <5>1. Cardinality(J) = Cardinality(I) /\ Session(l)'.lost = Session(l).lost
          BY <3>6, <3>7, <3>8, <4>2
        <5>2. QED
          BY <3>6, <3>8, <3>9, <3>12, <5>1
      <4>3. QED
        BY <4>1, <4>2
    <3>14. \A a \in J : t[a].number <= Session(l)'.seqOut
      BY <3>8, <3>9, <3>11
    <3>15. \A m : NotSent(l, m) => NotSent(l, m)'
      <4>1. ASSUME NEW m, NotSent(l, m) PROVE NotSent(l, m)'
        <5>1. /\ m \in 1..Session(l)'.seqOut
              /\ \A a \in I : IF l \in raced THEN s[a].number # m ELSE s[a].number < m
          BY <3>0, <3>1, <3>8, <4>1 DEF NotSent
        <5>2. \A a \in J : IF l \in raced THEN t[a].number # m ELSE t[a].number < m
          BY <3>11, <5>1
        <5>3. QED
          BY <1>1, <3>0, <3>1, <5>1, <5>2 DEF NotSent
      <4>2. QED
        BY <4>1
    <3>16. /\ HoldsNumber(l)' => NotSent(l, conn[l[1]].number)'
           /\ MonitorHoldsNumber(l)' => NotSent(l, monitor.number)'
           /\ HoldsNumber(l)' /\ MonitorHoldsNumber(l)' =>
                l \in raced' /\ conn'[l[1]].number # monitor'.number
      <4>1. PICK x, y : x = conn[l[1]].number /\ y = monitor.number
        OBVIOUS
      <4>2. conn'[l[1]].number = x /\ monitor'.number = y
        BY <1>1, <4>1
      <4>3. QED
        BY <1>1, <1>9, <3>9, <3>15, <4>1, <4>2 DEF NotSent
    <3>17. QED
      BY <1>1, <3>0, <3>1, <3>10, <3>13, <3>14, <3>16 DEF NumbersOf
  <2>6. \A l \in Made : Closed(l)' => NumbersOf(l)'
    BY DEF NumbersOf
  <2>7. \A l \in Made : Session(l)'.orderIDs = Session(l).orderIDs
    BY <2>2
  <2>8. QED
    BY <2>2, <2>3, <2>4, <2>5, <2>6, <2>7
<1>13. QED
  BY <1>0, <1>11, <1>12 DEF Write

-----------------------------------------------------------------------------
(* A goroutine that has a session uses the last that its connection made. *)
LEMMA OwnSession ==
  ASSUME SessionTypes, PlaceInv, NEW c \in Conns, conn[c].session # 0
  PROVE  /\ SessionOf(c) \in Made /\ SessionOf(c)[1] = c /\ SessionOf(c)[2] = conn[c].session
         /\ conn[c].session = Len(session[c]) /\ conn[c].at # "ended" /\ ~Closed(SessionOf(c))
<1>1. conn[c].session = Len(session[c]) /\ conn[c].at # "ended"
  BY DEF PlaceInv
<1>2. Len(session[c]) \in Nat /\ \A n \in 1..Len(session[c]) : <<c, n>> \in Made
  BY MadeFacts
<1>3. conn[c].session \in 1..Len(session[c])
  BY <1>1, <1>2
<1>4. QED
  BY <1>1, <1>2, <1>3 DEF SessionOf, Closed

(* An order, by its ID. *)
LEMMA OrderFacts ==
  ASSUME OrderTypes
  PROVE  /\ Len(order) \in Nat /\ DOMAIN order = 1..Len(order)
         /\ \A o \in DOMAIN order :
              /\ order[o] \in OrderRecords /\ order[o].session \in Made
              /\ order[o].clOrdID \in ClOrdIDs /\ order[o].filled \in 0..Quantity
              /\ order[o].status \in OrderStatuses
              /\ order[o].at \in {"resting", "filling", "done"}
<1>1. /\ Len(order) \in Nat /\ DOMAIN order = 1..Len(order)
      /\ \A o \in DOMAIN order : order[o] \in OrderRecords
  BY SeqFacts DEF OrderTypes
<1>2. QED
  BY <1>1 DEF OrderRecords

(* A goroutine that stays says of its order what it said. *)
LEMMA ReportStays ==
  ASSUME LocalTypes, NEW d \in Conns, ReportOf(d), conn'[d] = conn[d],
         \A o \in DOMAIN order :
           /\ order[o].at = "done" => order'[o].at = "done"
           /\ order[o].filled = Quantity => order'[o].filled = Quantity,
         conn[d].at = "cancel" =>
           OrderOf(SessionOf(d), Request(d).clOrdID)' = OrderOf(SessionOf(d), Request(d).clOrdID)
  PROVE  ReportOf(d)'
<1>1. /\ conn[d].at \in {"report", "filled"} =>
           conn[d].order # 0 /\ Request(d).kind = "NewOrder"
      /\ conn[d].at = "cancel" =>
           /\ conn[d].order # 0 /\ Request(d).kind \in {"Cancel", "CancelElsewhere"}
           /\ conn[d].order = OrderOf(SessionOf(d), Request(d).clOrdID)
      /\ conn[d].at = "number" => conn[d].order # 0
      /\ conn[d].at = "filled" /\ conn[d].status = "Filled" =>
           order[conn[d].order].filled = Quantity
      /\ Answering(d) =>
           /\ Request(d).kind = "NewOrder" /\ conn[d].status = "Filled" =>
                conn[d].filled = Quantity
           /\ Request(d).kind = "Cancel" => order[conn[d].order].at = "done"
  BY DEF ReportOf
<1>2. Request(d)' = Request(d) /\ (Answering(d)' <=> Answering(d))
  BY DEF Request, Answering
<1>3. conn[d].order # 0 => conn[d].order \in DOMAIN order
  BY LocalFacts
<1>4. conn[d].at = "filled" => conn[d].order # 0
  BY <1>1
<1>5. Answering(d) => conn[d].order # 0
  BY DEF Answering
<1>6. conn'[d].at = "filled" /\ conn'[d].status = "Filled" =>
        order'[conn'[d].order].filled = Quantity
  BY <1>1, <1>3, <1>4
<1>7. Answering(d)' =>
        /\ Request(d)'.kind = "NewOrder" /\ conn'[d].status = "Filled" =>
             conn'[d].filled = Quantity
        /\ Request(d)'.kind = "Cancel" => order'[conn'[d].order].at = "done"
  BY <1>1, <1>2, <1>3, <1>5
<1>8. conn'[d].at = "cancel" =>
        /\ conn'[d].order # 0 /\ Request(d)'.kind \in {"Cancel", "CancelElsewhere"}
        /\ conn'[d].order = OrderOf(SessionOf(d), Request(d).clOrdID)'
  BY <1>1, <1>2
<1>9. QED
  BY <1>1, <1>2, <1>6, <1>7, <1>8 DEF ReportOf

(* Sessions find their orders as before. *)
LEMMA FindStays ==
  ASSUME OrderTypes, FindInv, UNCHANGED order,
         \A k \in Made : Closed(k) => Closed(k)',
         \A k \in Made, cl \in ClOrdIDs : ~Closed(k)' => OrderOf(k, cl)' = OrderOf(k, cl)
  PROVE  FindInv'
<1> SUFFICES ASSUME NEW o \in DOMAIN order, order[o].at # "done", Latest(o),
                    ~Closed(order[o].session)'
             PROVE  OrderOf(order[o].session, order[o].clOrdID)' = o
  BY DEF FindInv, Latest
<1>1. PICK k, cl : k = order[o].session /\ cl = order[o].clOrdID
  OBVIOUS
<1>2. k \in Made /\ cl \in ClOrdIDs
  BY <1>1, OrderFacts
<1>3. ~Closed(k)'
  BY <1>1 DEF Closed
<1>4. OrderOf(k, cl) = o
  <2>1. ~Closed(k)
    BY <1>2, <1>3
  <2>2. QED
    BY <1>1, <2>1 DEF FindInv
<1>5. OrderOf(k, cl)' = o
  BY <1>2, <1>3, <1>4
<1>6. QED
  BY <1>1, <1>5 DEF OrderOf, Session

(* The goroutine of a connection goes on and holds no number: what concerns *)
(* numbers, channels and orders stays.                                      *)
LEMMA ConnGoes ==
  ASSUME IInv, NEW c \in Conns, NEW r \in Locals(DOMAIN order), conn' = [conn EXCEPT ![c] = r],
         UNCHANGED <<received, outCh, session, monitor, order, raced, renamed>>,
         conn[c].at \notin {"enqueue", "ended"}, r.at \notin {"enqueue", "ended"},
         r.session = conn[c].session,
         r.at \in Handling => r.session # 0,
         r.at \in {"unopened", "read", "register", "handle"} => r.order = 0,
         ReportOf(c)'
  PROVE  /\ LocalTypes' /\ SessionTypes' /\ ChannelTypes' /\ OrderTypes' /\ PlaceInv'
         /\ NumbersInOrder' /\ NumberInv' /\ OrderInv'
         /\ conn'[c] = r /\ \A d \in Conns : d # c => conn'[d] = conn[d]
         /\ Made' = Made /\ \A k \in Made : Session(k)' = Session(k)
<1>1. /\ LocalTypes /\ SessionTypes /\ ChannelTypes /\ OrderTypes /\ PlaceInv
      /\ NumbersInOrder /\ NumberInv /\ FilledInv /\ ReportInv /\ FindInv
  BY DEF IInv, Types, OrderInv
<1>2. LocalTypes' /\ conn'[c] = r /\ \A d \in Conns : d # c => conn'[d] = conn[d]
  BY <1>1, ConnPut
<1>3. SessionTypes' /\ Made' = Made /\ \A k \in Made : Session(k)' = Session(k)
  BY <1>1, SessionsStay
<1>4. ChannelTypes' /\ OrderTypes'
  <2>1. \A d \in Conns : Len(session[d]) <= Len(session'[d])
    BY <1>1, MadeFacts
  <2>2. QED
    BY <1>1, <1>3, <2>1, ChannelsStay, OrdersStay
<1>5. PlaceInv'
  <2>1. ASSUME NEW d \in Conns
        PROVE  /\ conn'[d].session = IF conn'[d].at = "ended" THEN 0 ELSE Len(session'[d])
               /\ conn'[d].at \in Handling => conn'[d].session # 0
               /\ conn'[d].at \in {"unopened", "read", "register", "handle"} => conn'[d].order = 0
               /\ d \notin renamed' => Len(session'[d]) <= 1
    <3>1. CASE d = c
      BY <1>1, <1>2, <3>1 DEF PlaceInv
    <3>2. CASE d # c
      BY <1>1, <1>2, <3>2 DEF PlaceInv
    <3>3. QED
      BY <3>1, <3>2
  <2>2. QED
    BY <2>1 DEF PlaceInv
<1>6. ASSUME NEW k \in Made PROVE NumbersOf(k)' /\ (Closed(k)' <=> Closed(k))
  <2>1. k[1] \in Conns
    BY <1>1, MadeFacts
  <2>2. Closed(k)' <=> Closed(k)
    BY <1>2, <2>1 DEF Closed
  <2>3. /\ HoldsNumber(k)' <=> HoldsNumber(k)
        /\ HoldsNumber(k) => conn'[k[1]].number = conn[k[1]].number
    BY <1>2, <2>1 DEF HoldsNumber, SessionOf
  <2>4. Sent(k)' = Sent(k) /\ Numbered(k)' = Numbered(k)
    BY SentStays
  <2>5. MonitorHoldsNumber(k)' <=> MonitorHoldsNumber(k)
    BY DEF MonitorHoldsNumber
  <2>6. NumbersOf(k)
    BY <1>1, NumbersAre
  <2>7. QED
    BY <1>3, <2>2, <2>3, <2>4, <2>5, <2>6, KeepsNumbers
<1>7. NumbersInOrder' /\ NumberInv'
  BY <1>3, <1>6, NumbersAreNext
<1>8. FilledInv'
  BY <1>1 DEF FilledInv
<1>9. FindInv'
  <2>1. \A k \in Made, cl \in ClOrdIDs : OrderOf(k, cl)' = OrderOf(k, cl)
    BY <1>3 DEF OrderOf
  <2>2. QED
    BY <1>1, <1>6, <2>1, FindStays
<1>10. ReportInv'
  <2>1. ASSUME NEW d \in Conns, d # c PROVE ReportOf(d)'
    <3>1. conn'[d] = conn[d] /\ ReportOf(d)
      BY <1>1, <1>2, <2>1 DEF ReportInv
    <3>2. OrderOf(SessionOf(d), Request(d).clOrdID)' = OrderOf(SessionOf(d), Request(d).clOrdID)
      BY <3>1 DEF OrderOf, Session, SessionOf, Request
    <3>3. QED
      BY <1>1, <3>1, <3>2, ReportStays
  <2>2. QED
    BY <2>1 DEF ReportInv
<1>11. QED
  BY <1>2, <1>3, <1>4, <1>5, <1>7, <1>8, <1>9, <1>10 DEF OrderInv

-----------------------------------------------------------------------------
(* The table and the monitor stay, and no connection ends. *)
LEMMA TableKeeps ==
  ASSUME SessionTypes, TableTypes, TableInv, Made \subseteq Made', raced' \subseteq Made',
         UNCHANGED <<sessions, monitor, panicked>>, renamed \subseteq renamed',
         \A k \in Made : Session(k)'.id = Session(k).id,
         \A c \in Conns : conn'[c].at \in {"close", "ended"} => conn[c].at \in {"close", "ended"}
  PROVE  TableTypes' /\ TableInv'
<1>1. sessions \subseteq Made /\ \A k \in Made : k[1] \in Conns
  BY MadeFacts DEF TableTypes
<1>2. TableTypes'
  BY <1>1, TableStays
<1>3. TableInv'
  BY <1>1 DEF TableInv
<1>4. QED
  BY <1>2, <1>3

(* A goroutine that has no order to report of says nothing. *)
LEMMA NoReport ==
  ASSUME NEW c \in Conns, conn'[c].at \notin {"report", "filled", "cancel", "number"},
         conn'[c].at = "enqueue" => conn'[c].order = 0
  PROVE  ReportOf(c)'
BY DEF ReportOf, Answering

(* The goroutine of a connection goes on, holds no number, and leaves the   *)
(* table as it is.                                                          *)
LEMMA GoStep ==
  ASSUME IInv, NEW c \in Conns, NEW r \in Locals(DOMAIN order), conn' = [conn EXCEPT ![c] = r],
         UNCHANGED <<received, outCh, session, monitor, order, raced, renamed>>,
         UNCHANGED <<ctxDone, writer, sessions, panicked>>, accepting' \in BOOLEAN,
         conn[c].at \notin {"enqueue", "ended"}, r.at \notin {"enqueue", "close", "ended"},
         r.session = conn[c].session,
         r.at \in Handling => r.session # 0,
         r.at \in {"unopened", "read", "register", "handle"} => r.order = 0,
         ReportOf(c)'
  PROVE  IInv'
<1>1. /\ LocalTypes' /\ SessionTypes' /\ ChannelTypes' /\ OrderTypes' /\ PlaceInv'
      /\ NumbersInOrder' /\ NumberInv' /\ OrderInv'
      /\ conn'[c] = r /\ \A d \in Conns : d # c => conn'[d] = conn[d]
      /\ Made' = Made /\ \A k \in Made : Session(k)' = Session(k)
  BY ConnGoes
<1>2. FlagTypes'
  BY DEF IInv, Types, FlagTypes
<1>3. TableTypes' /\ TableInv'
  <2>1. SessionTypes /\ TableTypes /\ TableInv
    BY DEF IInv, Types
  <2>2. raced' \subseteq Made'
    BY <1>1, <2>1 DEF TableTypes
  <2>3. \A d \in Conns : conn'[d].at \in {"close", "ended"} => conn[d].at \in {"close", "ended"}
    BY <1>1
  <2>4. QED
    BY <1>1, <2>1, <2>2, <2>3, TableKeeps
<1>4. QED
  BY <1>1, <1>2, <1>3 DEF IInv, Types

(* A fresh place. *)
LEMMA PlaceFacts ==
  ASSUME NEW D, NEW at \in ConnPlaces, NEW n \in Nat
  PROVE  /\ Place(at, n) \in Locals(D) /\ Place(at, n).at = at /\ Place(at, n).session = n
         /\ Place(at, n).order = 0
<1>1. 0 \in 0..Quantity
  BY GatewayAssumption
<1>2. QED
  BY <1>1 DEF Place, Locals, OrderStatuses

(* Back to the head of the loop. *)
LEMMA LoopStep ==
  ASSUME IInv, NEW c \in Conns, LoopsBack(c),
         UNCHANGED <<received, outCh, session, monitor, order, raced, renamed>>,
         UNCHANGED <<ctxDone, writer, sessions, panicked>>, accepting' \in BOOLEAN,
         conn[c].at \notin {"enqueue", "ended"}
  PROVE  IInv'
<1>1. PICK at : at = LoopPlace
  OBVIOUS
<1>2. at \in {"read", "delete"} /\ at \in ConnPlaces
  BY <1>1 DEF LoopPlace, ConnPlaces
<1>3. LocalTypes /\ conn[c].session \in Nat
  BY LocalFacts DEF IInv, Types
<1>4. PICK r : r = Place(at, conn[c].session)
  OBVIOUS
<1>5. r \in Locals(DOMAIN order) /\ r.at = at /\ r.session = conn[c].session /\ r.order = 0
  BY <1>2, <1>3, <1>4, PlaceFacts
<1>6. conn' = [conn EXCEPT ![c] = r] /\ conn'[c] = r
  BY <1>1, <1>3, <1>4 DEF LoopsBack, LocalTypes
<1>7. ReportOf(c)'
  BY <1>2, <1>5, <1>6, NoReport
<1>8. QED
  BY <1>2, <1>5, <1>6, <1>7, GoStep DEF Handling

(* A connection is accepted. *)
LEMMA AcceptStep ==
  ASSUME IInv, NEW c \in Conns, Accept(c), ConnFrame
  PROVE  IInv'
<1>1. ctxDone \in BOOLEAN
  BY DEF IInv, Types, FlagTypes
<1>2. accepting' \in BOOLEAN
  BY <1>1 DEF Accept
<1>3. LoopsBack(c) /\ conn[c].at = "unopened"
  BY DEF Accept
<1>4. QED
  BY <1>2, <1>3, LoopStep DEF Accept, ConnFrame

(* A message is skipped. *)
LEMMA SkipStep ==
  ASSUME IInv, NEW c \in Conns, Skip(c), ConnFrame
  PROVE  IInv'
<1>1. accepting \in BOOLEAN
  BY DEF IInv, Types, FlagTypes
<1>2. QED
  BY <1>1, LoopStep DEF Skip, ConnFrame

(* A message is not answered. *)
LEMMA IgnoreStep ==
  ASSUME IInv, NEW c \in Conns, Ignore(c), HandlerFrame, ConnFrame
  PROVE  IInv'
<1>1. accepting \in BOOLEAN
  BY DEF IInv, Types, FlagTypes
<1>2. QED
  BY <1>1, LoopStep DEF Ignore, HandlerFrame, ConnFrame

(* The client went away. *)
LEMMA ReadFailsStep ==
  ASSUME IInv, NEW c \in Conns, ReadFails(c), ConnFrame
  PROVE  IInv'
<1>1. accepting \in BOOLEAN /\ LocalTypes
  BY DEF IInv, Types, FlagTypes
<1>2. PICK r : r = [conn[c] EXCEPT !.at = "delete"]
  OBVIOUS
<1>3. r \in Locals(DOMAIN order) /\ r.at = "delete" /\ r.session = conn[c].session
  BY <1>1, <1>2, LocalFacts DEF Locals, ConnPlaces
<1>4. conn' = [conn EXCEPT ![c] = r] /\ conn'[c] = r
  BY <1>1, <1>2 DEF ReadFails, Goes, LocalTypes
<1>5. ReportOf(c)'
  BY <1>3, <1>4, NoReport
<1>6. QED
  BY <1>1, <1>3, <1>4, <1>5, GoStep DEF ReadFails, ConnFrame, Handling

(* The report reads the status: what it says Filled is full. *)
LEMMA ReadStatusStep ==
  ASSUME IInv, NEW c \in Conns, ReadReport(c), conn[c].at = "report", HandlerFrame, ConnFrame
  PROVE  IInv'
<1>1. /\ accepting \in BOOLEAN /\ LocalTypes /\ OrderTypes /\ PlaceInv /\ FilledInv
      /\ ReportOf(c)
  BY DEF IInv, Types, FlagTypes, OrderInv, ReportInv
<1>2. PICK o : o = conn[c].order
  OBVIOUS
<1>3. o \in DOMAIN order /\ o # 0 /\ Request(c).kind = "NewOrder"
  BY <1>1, <1>2, LocalFacts DEF ReportOf
<1>4. PICK r : r = [conn[c] EXCEPT !.at = "filled", !.status = order[o].status]
  OBVIOUS
<1>5. /\ r \in Locals(DOMAIN order) /\ r.at = "filled" /\ r.session = conn[c].session
      /\ r.order = o /\ r.status = order[o].status /\ r.request = conn[c].request
  <2>1. order[o].status \in OrderStatuses /\ conn[c] \in Locals(DOMAIN order)
    BY <1>1, <1>3, LocalFacts, OrderFacts
  <2>2. QED
    BY <1>2, <1>4, <2>1 DEF Locals, ConnPlaces
<1>6. conn' = [conn EXCEPT ![c] = r] /\ conn'[c] = r
  BY <1>1, <1>2, <1>4 DEF ReadReport, LocalTypes
<1>7. UNCHANGED <<outCh, session, order, raced>>
  BY DEF ReadReport
<1>8. ReportOf(c)'
  <2>1. Request(c)'.kind = "NewOrder"
    BY <1>3, <1>5, <1>6 DEF Request
  <2>2. conn'[c].status = "Filled" => order'[conn'[c].order].filled = Quantity
    BY <1>1, <1>3, <1>5, <1>6, <1>7 DEF FilledInv
  <2>3. conn'[c].at = "filled" /\ conn'[c].order # 0 /\ ~Answering(c)'
    BY <1>3, <1>5, <1>6 DEF Answering
  <2>4. QED
    BY <2>1, <2>2, <2>3 DEF ReportOf
<1>9. r.session # 0
  BY <1>1, <1>5 DEF PlaceInv, Handling
<1>10. QED
  BY <1>1, <1>5, <1>6, <1>7, <1>8, <1>9, GoStep DEF HandlerFrame, ConnFrame

(* And then the quantity, which can only have grown. *)
LEMMA ReadFilledStep ==
  ASSUME IInv, NEW c \in Conns, ReadReport(c), conn[c].at = "filled", HandlerFrame, ConnFrame
  PROVE  IInv'
<1>1. accepting \in BOOLEAN /\ LocalTypes /\ OrderTypes /\ PlaceInv /\ ReportOf(c)
  BY DEF IInv, Types, FlagTypes, OrderInv, ReportInv
<1>2. PICK o : o = conn[c].order
  OBVIOUS
<1>3. /\ o \in DOMAIN order /\ o # 0 /\ Request(c).kind = "NewOrder"
      /\ conn[c].status = "Filled" => order[o].filled = Quantity
  BY <1>1, <1>2, LocalFacts DEF ReportOf
<1>4. PICK r : r = [conn[c] EXCEPT !.at = "number", !.filled = order[o].filled]
  OBVIOUS
<1>5. /\ r \in Locals(DOMAIN order) /\ r.at = "number" /\ r.session = conn[c].session
      /\ r.order = o /\ r.status = conn[c].status /\ r.request = conn[c].request
      /\ r.filled = order[o].filled
  <2>1. order[o].filled \in 0..Quantity /\ conn[c] \in Locals(DOMAIN order)
    BY <1>1, <1>3, LocalFacts, OrderFacts
  <2>2. QED
    BY <1>2, <1>4, <2>1 DEF Locals, ConnPlaces
<1>6. conn' = [conn EXCEPT ![c] = r] /\ conn'[c] = r
  BY <1>1, <1>2, <1>4 DEF ReadReport, LocalTypes
<1>7. UNCHANGED <<outCh, session, order, raced>>
  BY DEF ReadReport
<1>8. ReportOf(c)'
  <2>1. Request(c)'.kind = "NewOrder"
    BY <1>3, <1>5, <1>6 DEF Request
  <2>2. conn'[c].status = "Filled" => conn'[c].filled = Quantity
    BY <1>3, <1>5, <1>6
  <2>3. conn'[c].at = "number" /\ conn'[c].order # 0
    BY <1>3, <1>5, <1>6
  <2>4. QED
    BY <2>1, <2>2, <2>3 DEF ReportOf
<1>9. r.session # 0
  BY <1>1, <1>5 DEF PlaceInv, Handling
<1>10. QED
  BY <1>1, <1>5, <1>6, <1>7, <1>8, <1>9, GoStep DEF HandlerFrame, ConnFrame

(* A cancel finds the order that the session has under its name. *)
LEMMA FindOrderStep ==
  ASSUME IInv, NEW c \in Conns, FindOrder(c), HandlerFrame, ConnFrame
  PROVE  IInv'
<1>1. accepting \in BOOLEAN /\ LocalTypes /\ SessionTypes /\ PlaceInv
  BY DEF IInv, Types, FlagTypes
<1>2. PICK o, k, cl : o = OrderOf(SessionOf(c), Request(c).clOrdID) /\ k = SessionOf(c)
                      /\ cl = Request(c).clOrdID
  OBVIOUS
<1>3. /\ conn[c].at = "handle" /\ Request(c).kind \in {"Cancel", "CancelElsewhere"} /\ o # 0
      /\ UNCHANGED <<outCh, session, order, raced>>
  BY <1>2 DEF FindOrder
<1>4. conn[c].session # 0
  BY <1>1, <1>3 DEF PlaceInv, Handling
<1>5. o \in DOMAIN order
  <2>1. cl \in ClOrdIDs
    BY <1>1, <1>2, <1>3, LocalFacts, RequestNames DEF Request, OrderKinds
  <2>2. k \in Made
    BY <1>1, <1>2, <1>4, OwnSession
  <2>3. Session(k) \in SessionRecords(DOMAIN order)
    BY <1>1, <2>2, MadeFacts
  <2>4. OrderOf(k, cl) \in {0} \cup DOMAIN order
    BY <2>1, <2>3 DEF OrderOf, SessionRecords
  <2>5. QED
    BY <1>2, <1>3, <2>4
<1>6. PICK r : r = [conn[c] EXCEPT !.at = "cancel", !.order = o]
  OBVIOUS
<1>7. /\ r \in Locals(DOMAIN order) /\ r.at = "cancel" /\ r.session = conn[c].session
      /\ r.order = o /\ r.request = conn[c].request
  BY <1>1, <1>5, <1>6, LocalFacts DEF Locals, ConnPlaces
<1>8. conn' = [conn EXCEPT ![c] = r] /\ conn'[c] = r
  BY <1>1, <1>2, <1>6 DEF FindOrder, LocalTypes
<1>9. ReportOf(c)'
  <2>1. Request(c)' = Request(c) /\ SessionOf(c)' = SessionOf(c)
    BY <1>7, <1>8 DEF Request, SessionOf
  <2>2. OrderOf(SessionOf(c), Request(c).clOrdID)' = o
    BY <1>2, <1>3, <2>1 DEF OrderOf, Session
  <2>3. conn'[c].at = "cancel" /\ conn'[c].order = o /\ ~Answering(c)'
    BY <1>7, <1>8 DEF Answering
  <2>4. QED
    BY <1>3, <2>1, <2>2, <2>3 DEF ReportOf
<1>10. QED
  BY <1>1, <1>3, <1>4, <1>7, <1>8, <1>9, GoStep DEF HandlerFrame, ConnFrame

(* A cancel is refused when its order is out of the book. *)
LEMMA CancelRefusedStep ==
  ASSUME IInv, NEW c \in Conns, CancelRefused(c), HandlerFrame, ConnFrame
  PROVE  IInv'
<1>1. accepting \in BOOLEAN /\ LocalTypes /\ PlaceInv /\ ReportOf(c)
  BY DEF IInv, Types, FlagTypes, OrderInv, ReportInv
<1>2. PICK o : o = conn[c].order
  OBVIOUS
<1>3. /\ conn[c].at = "cancel" /\ o # 0 /\ Request(c).kind \in {"Cancel", "CancelElsewhere"}
      /\ Request(c).kind = "Cancel" => order[o].at = "done"
      /\ UNCHANGED <<outCh, session, order, raced>>
  BY <1>1, <1>2 DEF CancelRefused, Refused, ReportOf
<1>4. conn[c].session # 0
  BY <1>1, <1>3 DEF PlaceInv, Handling
<1>5. PICK r : r = [conn[c] EXCEPT !.at = "number"]
  OBVIOUS
<1>6. /\ r \in Locals(DOMAIN order) /\ r.at = "number" /\ r.session = conn[c].session
      /\ r.order = o /\ r.request = conn[c].request
  BY <1>1, <1>2, <1>5, LocalFacts DEF Locals, ConnPlaces
<1>7. conn' = [conn EXCEPT ![c] = r] /\ conn'[c] = r
  BY <1>1, <1>5 DEF CancelRefused, Goes, LocalTypes
<1>8. ReportOf(c)'
  <2>1. Request(c)' = Request(c)
    BY <1>6, <1>7 DEF Request
  <2>2. conn'[c].at = "number" /\ conn'[c].order = o
    BY <1>6, <1>7
  <2>3. QED
    BY <1>3, <2>1, <2>2 DEF ReportOf
<1>9. QED
  BY <1>1, <1>3, <1>4, <1>6, <1>7, <1>8, GoStep DEF HandlerFrame, ConnFrame

-----------------------------------------------------------------------------
(* The goroutine of a connection takes a number, to answer a message or the *)
(* client's silence.                                                        *)
LEMMA TakeStep ==
  ASSUME IInv, NEW c \in Conns, NEW b \in BOOLEAN, TakeNumber(c, b),
         UNCHANGED <<received, outCh, monitor, order, renamed>>,
         UNCHANGED <<ctxDone, writer, sessions, panicked, accepting>>,
         conn[c].at \in {"read", "handle", "number"}, conn[c].session # 0
  PROVE  IInv'
<1>1. /\ FlagTypes /\ LocalTypes /\ SessionTypes /\ ChannelTypes /\ OrderTypes /\ TableTypes
      /\ PlaceInv /\ TableInv /\ NumbersInOrder /\ NumberInv /\ FilledInv /\ ReportInv /\ FindInv
  BY DEF IInv, Types, OrderInv
<1>2. PICK k \in Made : k = SessionOf(c)
  BY <1>1, OwnSession
<1>3. \A l \in Made : NumbersOf(l)
  BY <1>1, NumbersAre
<1>4. /\ SessionTypes' /\ LocalTypes' /\ Made' = Made
      /\ \A d \in Conns : Len(session'[d]) = Len(session[d])
      /\ \A l \in Made : Session(l)'.id = Session(l).id
      /\ \A l \in Made : Session(l)'.orderIDs = Session(l).orderIDs
      /\ conn'[c] = [conn[c] EXCEPT !.at = "enqueue", !.number = conn'[c].number]
      /\ \A d \in Conns : d # c => conn'[d] = conn[d]
      /\ raced' \subseteq Made
      /\ \A l \in Made : NumbersOf(l)'
  BY <1>1, <1>2, <1>3, TakenByConn
<1>5. /\ conn'[c].at = "enqueue" /\ conn'[c].session = conn[c].session
      /\ conn'[c].order = conn[c].order /\ conn'[c].request = conn[c].request
      /\ conn'[c].status = conn[c].status /\ conn'[c].filled = conn[c].filled
  <2>1. conn[c] \in Locals(DOMAIN order)
    BY <1>1, LocalFacts
  <2>2. QED
    BY <1>4, <2>1 DEF Locals
<1>6. FlagTypes'
  BY <1>1 DEF FlagTypes
<1>7. ChannelTypes' /\ OrderTypes'
  <2>1. \A d \in Conns : Len(session[d]) <= Len(session'[d])
    BY <1>1, <1>4, MadeFacts
  <2>2. QED
    BY <1>1, <1>4, <2>1, ChannelsStay, OrdersStay
<1>8. TableTypes' /\ TableInv'
  <2>1. \A d \in Conns : conn'[d].at \in {"close", "ended"} => conn[d].at \in {"close", "ended"}
    BY <1>4, <1>5
  <2>2. QED
    BY <1>1, <1>4, <2>1, TableKeeps
<1>9. PlaceInv'
  <2>1. ASSUME NEW d \in Conns
        PROVE  /\ conn'[d].session = IF conn'[d].at = "ended" THEN 0 ELSE Len(session'[d])
               /\ conn'[d].at \in Handling => conn'[d].session # 0
               /\ conn'[d].at \in {"unopened", "read", "register", "handle"} => conn'[d].order = 0
               /\ d \notin renamed' => Len(session'[d]) <= 1
    <3>1. CASE d = c
      BY <1>1, <1>4, <1>5, <3>1 DEF PlaceInv
    <3>2. CASE d # c
      BY <1>1, <1>4, <3>2 DEF PlaceInv
    <3>3. QED
      BY <3>1, <3>2
  <2>2. QED
    BY <2>1 DEF PlaceInv
<1>10. NumbersInOrder' /\ NumberInv'
  BY <1>4, NumbersAreNext
<1>11. FilledInv'
  BY <1>1 DEF FilledInv
<1>12. FindInv'
  <2>1. \A l \in Made, cl \in ClOrdIDs : OrderOf(l, cl)' = OrderOf(l, cl)
    BY <1>4 DEF OrderOf
  <2>2. \A l \in Made : Closed(l) => Closed(l)'
    <3>1. \A l \in Made : l[1] \in Conns
      BY <1>1, MadeFacts
    <3>2. QED
      BY <1>4, <3>1 DEF Closed
  <2>3. QED
    BY <1>1, <2>1, <2>2, FindStays
<1>13. ReportInv'
  <2>1. ASSUME NEW d \in Conns, d # c PROVE ReportOf(d)'
    <3>1. conn'[d] = conn[d] /\ ReportOf(d)
      BY <1>1, <1>4, <2>1 DEF ReportInv
    <3>2. ASSUME conn[d].at = "cancel"
          PROVE  OrderOf(SessionOf(d), Request(d).clOrdID)' = OrderOf(SessionOf(d), Request(d).clOrdID)
      <4>1. conn[d].session # 0
        BY <1>1, <3>2 DEF PlaceInv, Handling
      <4>2. PICK l \in Made : l = SessionOf(d)
        BY <1>1, <4>1, OwnSession
      <4>3. SessionOf(d)' = l /\ Request(d)' = Request(d)
        BY <3>1, <4>2 DEF SessionOf, Request
      <4>4. Session(l)'.orderIDs = Session(l).orderIDs
        BY <1>4
      <4>5. QED
        BY <4>2, <4>3, <4>4 DEF OrderOf, Session
    <3>3. QED
      BY <1>1, <3>1, <3>2, ReportStays
  <2>2. ReportOf(c)'
    <3>1. CASE conn[c].at \in {"read", "handle"}
      <4>1. conn'[c].order = 0
        BY <1>1, <1>5, <3>1 DEF PlaceInv
      <4>2. QED
        BY <1>5, <4>1, NoReport
    <3>2. CASE conn[c].at = "number"
      <4>1. /\ Answering(c)
            /\ Request(c).kind = "NewOrder" /\ conn[c].status = "Filled" => conn[c].filled = Quantity
            /\ Request(c).kind = "Cancel" => order[conn[c].order].at = "done"
        BY <1>1, <3>2 DEF ReportInv, ReportOf, Answering
      <4>2. Request(c)' = Request(c)
        BY <1>5 DEF Request
      <4>3. QED
        BY <1>5, <4>1, <4>2 DEF ReportOf
    <3>3. QED
      BY <3>1, <3>2
  <2>3. QED
    BY <2>1, <2>2 DEF ReportInv
<1>14. QED
  BY <1>4, <1>6, <1>7, <1>8, <1>9, <1>10, <1>11, <1>12, <1>13 DEF IInv, Types, OrderInv

(* Someone who is logged in has a session. *)
LEMMA LoggedInHasSession ==
  ASSUME IInv, NEW c \in Conns, LoggedIn(c)
  PROVE  conn[c].session # 0
BY DEF LoggedIn

(* Nothing came for a while. *)
LEMMA TimeoutStep ==
  ASSUME IInv, NEW c \in Conns, Timeout(c), ConnFrame
  PROVE  IInv'
<1>1. accepting \in BOOLEAN
  BY DEF IInv, Types, FlagTypes
<1>2. CASE LoggedIn(c)
  <2>1. TakeNumber(c, TRUE) /\ conn[c].session # 0
    BY <1>2, LoggedInHasSession DEF Timeout
  <2>2. QED
    BY <2>1, TakeStep DEF Timeout, ConnFrame
<1>3. CASE ~LoggedIn(c)
  <2>1. LoopsBack(c) /\ UNCHANGED <<session, raced>>
    BY <1>3 DEF Timeout
  <2>2. QED
    BY <1>1, <2>1, LoopStep DEF Timeout, ConnFrame
<1>4. QED
  BY <1>2, <1>3

(* A logon, a logout and a test request are answered. *)
LEMMA HandleSessionStep ==
  ASSUME IInv, NEW c \in Conns, HandleSession(c), HandlerFrame, ConnFrame
  PROVE  IInv'
<1>1. conn[c].at = "handle" /\ PlaceInv /\ SessionTypes
  BY DEF HandleSession, IInv, Types
<1>2. conn[c].session # 0
  BY <1>1 DEF PlaceInv, Handling
<1>3. LoggedIn(c) \in BOOLEAN
  <2>1. PICK k \in Made : k = SessionOf(c)
    BY <1>1, <1>2, OwnSession
  <2>2. Session(k).loggedIn \in BOOLEAN
    BY <1>1, MadeFacts DEF SessionRecords
  <2>3. QED
    BY <2>1, <2>2 DEF LoggedIn
<1>4. \E b \in BOOLEAN : TakeNumber(c, b)
  BY <1>3 DEF HandleSession
<1>5. QED
  BY <1>1, <1>2, <1>4, TakeStep DEF HandleSession, HandlerFrame, ConnFrame

(* A message is rejected. *)
LEMMA RejectStep ==
  ASSUME IInv, NEW c \in Conns, Reject(c), HandlerFrame, ConnFrame
  PROVE  IInv'
<1>1. TakeNumber(c, TRUE) /\ conn[c].session # 0
  BY LoggedInHasSession DEF Reject
<1>2. QED
  BY <1>1, TakeStep DEF Reject, HandlerFrame, ConnFrame

(* A report gets its number. *)
LEMMA NumberStep ==
  ASSUME IInv, NEW c \in Conns, Number(c), HandlerFrame, ConnFrame
  PROVE  IInv'
<1>1. conn[c].session # 0
  BY DEF Number, IInv, PlaceInv, Handling
<1>2. QED
  BY <1>1, TakeStep DEF Number, HandlerFrame, ConnFrame

-----------------------------------------------------------------------------
(* A session enters the table, in place of one with its SenderCompID. *)
LEMMA RegisterStep ==
  ASSUME IInv, NEW c \in Conns, Register(c), ConnFrame
  PROVE  IInv'
<1>1. /\ FlagTypes /\ LocalTypes /\ SessionTypes /\ TableTypes /\ PlaceInv /\ TableInv
  BY DEF IInv, Types
<1>2. /\ conn[c].at = "register" /\ TableFree
      /\ sessions' = Others(Session(SessionOf(c)).id) \cup {SessionOf(c)}
      /\ UNCHANGED <<accepting, outCh, received, session, order, messages, faults, renamed, raced>>
      /\ UNCHANGED <<ctxDone, writer, monitor, panicked>>
  BY DEF Register, ConnFrame
<1>3. conn[c].session # 0 /\ conn[c].order = 0
  BY <1>1, <1>2 DEF PlaceInv, Handling
<1>4. PICK k \in Made : k = SessionOf(c) /\ k[1] = c
  BY <1>1, <1>3, OwnSession
<1>5. PICK r : r = [conn[c] EXCEPT !.at = "handle"]
  OBVIOUS
<1>6. r \in Locals(DOMAIN order) /\ r.at = "handle" /\ r.session = conn[c].session /\ r.order = 0
  BY <1>1, <1>3, <1>5, LocalFacts DEF Locals, ConnPlaces
<1>7. conn' = [conn EXCEPT ![c] = r] /\ conn'[c] = r
  BY <1>1, <1>5 DEF Register, Goes, LocalTypes
<1>8. ReportOf(c)'
  BY <1>6, <1>7, NoReport
<1>9. /\ LocalTypes' /\ SessionTypes' /\ ChannelTypes' /\ OrderTypes' /\ PlaceInv'
      /\ NumbersInOrder' /\ NumberInv' /\ OrderInv'
      /\ \A d \in Conns : d # c => conn'[d] = conn[d]
      /\ Made' = Made /\ \A l \in Made : Session(l)' = Session(l)
  BY <1>2, <1>3, <1>6, <1>7, <1>8, ConnGoes
<1>10. FlagTypes'
  BY <1>1, <1>2 DEF FlagTypes
<1>11. sessions' \subseteq sessions \cup {k} /\ sessions' \subseteq Made /\ sessions \subseteq Made
  BY <1>1, <1>2, <1>4 DEF Others, TableTypes
<1>12. monitor.at \in {"select", "exited"} /\ monitor.due = {}
  BY <1>1, <1>2 DEF TableFree, TableInv
<1>13. TableTypes'
  <2>1. ASSUME NEW l \in sessions', NEW m \in sessions', Session(l)'.id = Session(m)'.id
        PROVE  l = m
    <3>1. Session(l).id = Session(m).id
      BY <1>9, <1>11, <2>1
    <3>2. /\ l = k \/ (l \in sessions /\ Session(l).id # Session(k).id)
          /\ m = k \/ (m \in sessions /\ Session(m).id # Session(k).id)
      BY <1>2, <1>4 DEF Others
    <3>3. QED
      BY <1>1, <3>1, <3>2 DEF TableTypes
  <2>2. monitor' \in MonitorRecords'
    BY <1>1, <1>2, <1>9, <1>12 DEF TableTypes, MonitorRecords
  <2>3. raced' \subseteq Made'
    BY <1>1, <1>2, <1>9 DEF TableTypes
  <2>4. QED
    BY <1>9, <1>11, <2>1, <2>2, <2>3 DEF TableTypes
<1>14. TableInv'
  <2>1. ASSUME NEW l \in sessions', l[1] \notin renamed'
        PROVE  conn'[l[1]].at \notin {"close", "ended"}
    <3>1. CASE l[1] = c
      BY <1>6, <1>7, <3>1
    <3>2. CASE l[1] # c
      <4>1. l \in sessions /\ l[1] \in Conns
        BY <1>1, <1>4, <1>11, <3>2, MadeFacts
      <4>2. QED
        BY <1>1, <1>2, <1>9, <2>1, <3>2, <4>1 DEF TableInv
    <3>3. QED
      BY <3>1, <3>2
  <2>2. QED
    BY <1>1, <1>2, <1>12, <2>1 DEF TableInv
<1>15. QED
  BY <1>9, <1>10, <1>13, <1>14 DEF IInv, Types

(* The entry of the SenderCompID leaves the table: of a connection that did *)
(* not change it, this is the only one.                                     *)
LEMMA DeleteStep ==
  ASSUME IInv, NEW c \in Conns, Delete(c), ConnFrame
  PROVE  IInv'
<1>1. /\ FlagTypes /\ LocalTypes /\ SessionTypes /\ TableTypes /\ PlaceInv /\ TableInv
  BY DEF IInv, Types
<1>2. /\ TableFree \/ conn[c].session = 0
      /\ sessions' = IF conn[c].session = 0 THEN sessions ELSE Others(Session(SessionOf(c)).id)
      /\ UNCHANGED <<accepting, outCh, received, session, order, messages, faults, renamed, raced>>
      /\ UNCHANGED <<ctxDone, writer, monitor, panicked>>
  BY DEF Delete, DeleteEntry, ConnFrame
<1>3. conn[c].at = "delete" /\ sessions' \subseteq sessions
  BY <1>2 DEF Delete, Others
<1>4. PICK r : r = [conn[c] EXCEPT !.at = "close"]
  OBVIOUS
<1>5. r \in Locals(DOMAIN order) /\ r.at = "close" /\ r.session = conn[c].session
  BY <1>1, <1>4, LocalFacts DEF Locals, ConnPlaces
<1>6. conn' = [conn EXCEPT ![c] = r] /\ conn'[c] = r
  BY <1>1, <1>4 DEF Delete, Goes, LocalTypes
<1>7. ReportOf(c)'
  BY <1>5, <1>6, NoReport
<1>8. /\ LocalTypes' /\ SessionTypes' /\ ChannelTypes' /\ OrderTypes' /\ PlaceInv'
      /\ NumbersInOrder' /\ NumberInv' /\ OrderInv'
      /\ \A d \in Conns : d # c => conn'[d] = conn[d]
      /\ Made' = Made /\ \A l \in Made : Session(l)' = Session(l)
  BY <1>2, <1>3, <1>5, <1>6, <1>7, ConnGoes DEF Handling
<1>9. FlagTypes'
  BY <1>1, <1>2 DEF FlagTypes
<1>10. \/ sessions' = sessions
       \/ monitor.at \in {"select", "exited"} /\ monitor.due = {}
  BY <1>1, <1>2 DEF Delete, TableFree, TableInv
<1>11. TableTypes'
  <2>1. sessions' \subseteq Made' /\ raced' \subseteq Made'
    BY <1>1, <1>2, <1>3, <1>8 DEF TableTypes
  <2>2. \A l, m \in sessions' : Session(l)'.id = Session(m)'.id => l = m
    BY <1>1, <1>3, <1>8, <2>1 DEF TableTypes
  <2>3. monitor' \in MonitorRecords'
    BY <1>1, <1>2, <1>8, <1>10 DEF TableTypes, MonitorRecords
  <2>4. QED
    BY <2>1, <2>2, <2>3 DEF TableTypes
<1>12. ASSUME NEW l \in sessions', l[1] = c PROVE c \in renamed
  <2>1. l \in Made /\ l = <<l[1], l[2]>> /\ l[2] \in 1..Len(session[c]) /\ Len(session[c]) \in Nat
    BY <1>1, <1>3, <1>12, MadeFacts DEF TableTypes
  <2>2. conn[c].session = Len(session[c]) /\ conn[c].session # 0
    BY <1>1, <1>3, <2>1 DEF PlaceInv
  <2>3. Session(l).id # Session(SessionOf(c)).id
    BY <1>2, <2>2 DEF Others
  <2>4. l # SessionOf(c)
    BY <2>3
  <2>5. Len(session[c]) > 1
    BY <1>12, <2>1, <2>2, <2>4 DEF SessionOf
  <2>6. QED
    BY <1>1, <2>1, <2>5 DEF PlaceInv
<1>13. TableInv'
  <2>1. ASSUME NEW l \in sessions', l[1] \notin renamed'
        PROVE  conn'[l[1]].at \notin {"close", "ended"}
    <3>1. l[1] # c
      BY <1>2, <1>12, <2>1
    <3>2. l \in sessions /\ l[1] \in Conns
      BY <1>1, <1>3, MadeFacts DEF TableTypes
    <3>3. QED
      BY <1>1, <1>2, <1>8, <2>1, <3>1, <3>2 DEF TableInv
  <2>2. QED
    BY <1>1, <1>2, <1>10, <2>1 DEF TableInv
<1>14. QED
  BY <1>8, <1>9, <1>11, <1>13 DEF IInv, Types

(* The sessions of a connection that has ended are as good as new. *)
LEMMA SessionsReset ==
  ASSUME SessionTypes, NEW c \in Conns, UNCHANGED order,
         session' = [session EXCEPT ![c] = [n \in DOMAIN @ |-> NewSession(@[n].id)]]
  PROVE  /\ SessionTypes' /\ Made' = Made
         /\ \A d \in Conns : Len(session'[d]) = Len(session[d])
         /\ \A k \in Made : Session(k)'.id = Session(k).id
         /\ \A k \in Made : k[1] # c => Session(k)' = Session(k)
<1>1. PICK s : s = session[c]
  OBVIOUS
<1>2. PICK t : t = [n \in DOMAIN s |-> NewSession(s[n].id)]
  OBVIOUS
<1>3. PICK R : R = SessionRecords(DOMAIN order)
  OBVIOUS
<1>4. session \in [Conns -> Seq(R)] /\ R = SessionRecords(DOMAIN order')
  BY <1>3 DEF SessionTypes
<1>5. s \in Seq(R) /\ Len(s) \in Nat /\ DOMAIN s = 1..Len(s) /\ \A n \in DOMAIN s : s[n] \in R
  <2>1. s \in Seq(R)
    BY <1>1, <1>4
  <2>2. QED
    BY <2>1, SeqFacts
<1>6. \A n \in DOMAIN s : NewSession(s[n].id) \in R /\ NewSession(s[n].id).id = s[n].id
  <2>1. \A n \in DOMAIN s : s[n].id \in CompIDs
    BY <1>3, <1>5 DEF SessionRecords
  <2>2. [cl \in ClOrdIDs |-> 0] \in [ClOrdIDs -> {0} \cup DOMAIN order]
    OBVIOUS
  <2>3. QED
    BY <1>3, <2>1, <2>2 DEF SessionRecords, NewSession
<1>7. t \in Seq(R) /\ Len(t) = Len(s) /\ \A n \in DOMAIN s : t[n].id = s[n].id
  <2>1. t \in [1..Len(s) -> R]
    BY <1>2, <1>5, <1>6
  <2>2. t \in Seq(R) /\ DOMAIN t = 1..Len(s) /\ Len(t) = Len(s)
    BY <1>5, <2>1
  <2>3. QED
    BY <1>2, <1>6, <2>2
<1>8. session' = [session EXCEPT ![c] = t]
  BY <1>1, <1>2, <1>4
<1>9. /\ session' \in [Conns -> Seq(R)]
      /\ \A d \in Conns : session'[d] = IF d = c THEN t ELSE session[d]
  BY <1>4, <1>7, <1>8
<1>10. \A d \in Conns : Len(session'[d]) = Len(session[d])
  BY <1>1, <1>7, <1>9
<1>11. SessionTypes' /\ Made' = Made
  <2>1. SessionTypes'
    BY <1>4, <1>9 DEF SessionTypes
  <2>2. \A d \in Conns : Len(session[d]) <= Len(session'[d])
    BY <1>10, MadeFacts
  <2>3. QED
    BY <1>10, <2>1, <2>2, MadeGrows
<1>12. \A k \in Made : k[1] \in Conns /\ k[2] \in 1..Len(session[k[1]])
  BY MadeFacts
<1>13. \A k \in Made : k[1] # c => Session(k)' = Session(k)
  BY <1>9, <1>12 DEF Session
<1>14. ASSUME NEW k \in Made, k[1] = c PROVE Session(k)'.id = Session(k).id
  BY <1>1, <1>5, <1>7, <1>9, <1>12, <1>14 DEF Session
<1>15. QED
  BY <1>10, <1>11, <1>13, <1>14

(* A connection ends. *)
LEMMA CloseStep ==
  ASSUME IInv, NEW c \in Conns, Close(c), ConnFrame
  PROVE  IInv'
<1>1. /\ FlagTypes /\ LocalTypes /\ SessionTypes /\ ChannelTypes /\ OrderTypes /\ TableTypes
      /\ PlaceInv /\ TableInv /\ NumbersInOrder /\ NumberInv /\ FilledInv /\ ReportInv /\ FindInv
  BY DEF IInv, Types, OrderInv
<1>2. /\ conn[c].at = "close"
      /\ outCh' = [outCh EXCEPT ![c] = <<>>] /\ received' = [received EXCEPT ![c] = <<>>]
      /\ raced' = {k \in raced : k[1] # c}
      /\ UNCHANGED <<accepting, sessions, order, messages, faults, renamed>>
      /\ UNCHANGED <<ctxDone, writer, monitor, panicked>>
  BY DEF Close, ConnFrame
<1>3. PICK r : r = Place("ended", 0)
  OBVIOUS
<1>4. r \in Locals(DOMAIN order) /\ r.at = "ended" /\ r.session = 0 /\ r.order = 0
  BY <1>3, PlaceFacts DEF ConnPlaces
<1>5. conn' = [conn EXCEPT ![c] = r]
  BY <1>3 DEF Close
<1>6. /\ LocalTypes' /\ conn'[c] = r /\ \A d \in Conns : d # c => conn'[d] = conn[d]
  BY <1>1, <1>2, <1>4, <1>5, ConnPut
<1>7. /\ SessionTypes' /\ Made' = Made
      /\ \A d \in Conns : Len(session'[d]) = Len(session[d])
      /\ \A k \in Made : Session(k)'.id = Session(k).id
      /\ \A k \in Made : k[1] # c => Session(k)' = Session(k)
  BY <1>1, <1>2, SessionsReset DEF Close
<1>8. FlagTypes'
  BY <1>1, <1>2 DEF FlagTypes
<1>9. ChannelTypes'
  <2> DEFINE M == [session : Nat, number : Nat \ {0}]
  <2>1. /\ received \in [Conns -> Seq(M)] /\ outCh \in [Conns -> Seq(M)]
        /\ \A d \in Conns :
             /\ received[d] \in Seq(SentMessages(Len(session[d])))
             /\ outCh[d] \in Seq(SentMessages(Len(session[d])))
             /\ Len(outCh[d]) <= OutCap
    BY <1>1 DEF ChannelTypes
  <2> HIDE DEF M
  <2>2. \A S : <<>> \in Seq(S)
    BY EmptySeq
  <2>3. received' \in [Conns -> Seq(M)] /\ outCh' \in [Conns -> Seq(M)]
    BY <1>2, <2>1, <2>2
  <2>4. ASSUME NEW d \in Conns
        PROVE  /\ received'[d] \in Seq(SentMessages(Len(session'[d])))
               /\ outCh'[d] \in Seq(SentMessages(Len(session'[d])))
               /\ Len(outCh'[d]) <= OutCap
    <3>1. Len(session'[d]) = Len(session[d])
      BY <1>7
    <3>2. CASE d = c
      <4>1. received'[d] = <<>> /\ outCh'[d] = <<>>
        BY <1>2, <2>1, <3>2
      <4>2. Len(<<>>) = 0 /\ 0 <= OutCap
        BY GatewayAssumption
      <4>3. QED
        BY <2>2, <4>1, <4>2
    <3>3. CASE d # c
      BY <1>2, <2>1, <3>1, <3>3
    <3>4. QED
      BY <3>2, <3>3
  <2>5. QED
    BY <2>3, <2>4 DEF ChannelTypes, M
<1>10. OrderTypes'
  BY <1>1, <1>2, <1>7, OrdersStay
<1>11. raced' \subseteq Made' /\ TableTypes'
  <2>1. raced' \subseteq Made'
    BY <1>1, <1>2, <1>7 DEF TableTypes
  <2>2. sessions \subseteq Made
    BY <1>1 DEF TableTypes
  <2>3. QED
    BY <1>1, <1>2, <1>7, <2>1, <2>2, TableStays
<1>12. TableInv'
  <2>1. ASSUME NEW l \in sessions, l[1] \notin renamed
        PROVE  conn'[l[1]].at \notin {"close", "ended"}
    <3>1. l[1] # c
      BY <1>1, <1>2, <2>1 DEF TableInv
    <3>2. l[1] \in Conns
      BY <1>1, MadeFacts DEF TableTypes
    <3>3. QED
      BY <1>1, <1>6, <2>1, <3>1, <3>2 DEF TableInv
  <2>2. QED
    BY <1>1, <1>2, <2>1 DEF TableInv
<1>13. PlaceInv'
  <2>1. ASSUME NEW d \in Conns
        PROVE  /\ conn'[d].session = IF conn'[d].at = "ended" THEN 0 ELSE Len(session'[d])
               /\ conn'[d].at \in Handling => conn'[d].session # 0
               /\ conn'[d].at \in {"unopened", "read", "register", "handle"} => conn'[d].order = 0
               /\ d \notin renamed' => Len(session'[d]) <= 1
    <3>1. CASE d = c
      BY <1>1, <1>2, <1>4, <1>6, <1>7, <3>1 DEF PlaceInv, Handling
    <3>2. CASE d # c
      BY <1>1, <1>2, <1>6, <1>7, <3>2 DEF PlaceInv
    <3>3. QED
      BY <3>1, <3>2
  <2>2. QED
    BY <2>1 DEF PlaceInv
<1>14. ASSUME NEW k \in Made PROVE NumbersOf(k)' /\ (Closed(k) => Closed(k)')
  <2>1. k[1] \in Conns
    BY <1>1, MadeFacts
  <2>2. CASE k[1] = c
    <3>1. Closed(k)'
      BY <1>4, <1>6, <2>2 DEF Closed
    <3>2. QED
      BY <3>1 DEF NumbersOf
  <2>3. CASE k[1] # c
    <3>1. conn'[k[1]] = conn[k[1]]
      BY <1>6, <2>1, <2>3
    <3>2. /\ HoldsNumber(k)' <=> HoldsNumber(k)
          /\ MonitorHoldsNumber(k)' <=> MonitorHoldsNumber(k)
          /\ Closed(k)' <=> Closed(k)
      BY <1>2, <3>1 DEF HoldsNumber, MonitorHoldsNumber, SessionOf, Closed
    <3>3. Sent(k)' = Sent(k)
      BY <1>1, <1>2, <2>1, <2>3 DEF Sent, ChannelTypes
    <3>4. Numbered(k)' = Numbered(k)
      BY <3>3 DEF Numbered
    <3>5. k \in raced' <=> k \in raced
      BY <1>2, <2>3
    <3>6. NumbersOf(k) /\ Session(k)' = Session(k)
      BY <1>1, <1>7, <2>3, NumbersAre
    <3>7. QED
      BY <1>2, <3>1, <3>2, <3>3, <3>4, <3>5, <3>6, KeepsNumbers
  <2>4. QED
    BY <2>2, <2>3
<1>15. NumbersInOrder' /\ NumberInv'
  BY <1>7, <1>14, NumbersAreNext
<1>16. FilledInv'
  BY <1>1, <1>2 DEF FilledInv
<1>17. FindInv'
  <2>1. ASSUME NEW k \in Made, NEW cl \in ClOrdIDs, ~Closed(k)'
        PROVE  OrderOf(k, cl)' = OrderOf(k, cl)
    <3>1. k[1] # c
      BY <1>4, <1>6, <2>1 DEF Closed
    <3>2. QED
      BY <1>7, <3>1 DEF OrderOf
  <2>2. QED
    BY <1>1, <1>2, <1>14, <2>1, FindStays
<1>18. ReportInv'
  <2>1. ASSUME NEW d \in Conns, d # c PROVE ReportOf(d)'
    <3>1. conn'[d] = conn[d] /\ ReportOf(d)
      BY <1>1, <1>6, <2>1 DEF ReportInv
    <3>2. session'[d] = session[d]
      BY <1>1, <2>1 DEF Close, SessionTypes
    <3>3. OrderOf(SessionOf(d), Request(d).clOrdID)' = OrderOf(SessionOf(d), Request(d).clOrdID)
      BY <3>1, <3>2 DEF OrderOf, Session, SessionOf, Request
    <3>4. QED
      BY <1>1, <1>2, <3>1, <3>3, ReportStays
  <2>2. ReportOf(c)'
    BY <1>4, <1>6, NoReport
  <2>3. QED
    BY <2>1, <2>2 DEF ReportInv
<1>19. QED
  BY <1>6, <1>7, <1>8, <1>9, <1>10, <1>11, <1>12, <1>13, <1>15, <1>16, <1>17, <1>18
     DEF IInv, Types, OrderInv

-----------------------------------------------------------------------------
(* No connection's goroutine moves, and no order changes. *)
LEMMA OthersMove ==
  ASSUME IInv, SessionTypes', Made' = Made, UNCHANGED <<conn, order, renamed>>,
         \A d \in Conns : Len(session'[d]) = Len(session[d]),
         \A k \in Made : Session(k)'.orderIDs = Session(k).orderIDs
  PROVE  LocalTypes' /\ OrderTypes' /\ PlaceInv' /\ OrderInv'
<1>1. /\ LocalTypes /\ SessionTypes /\ OrderTypes /\ PlaceInv /\ FilledInv /\ ReportInv /\ FindInv
  BY DEF IInv, Types, OrderInv
<1>2. LocalTypes' /\ OrderTypes'
  BY <1>1, LocalsStay, OrdersStay
<1>3. PlaceInv'
  <2>1. ASSUME NEW d \in Conns
        PROVE  /\ conn'[d].session = IF conn'[d].at = "ended" THEN 0 ELSE Len(session'[d])
               /\ conn'[d].at \in Handling => conn'[d].session # 0
               /\ conn'[d].at \in {"unopened", "read", "register", "handle"} => conn'[d].order = 0
               /\ d \notin renamed' => Len(session'[d]) <= 1
    BY <1>1 DEF PlaceInv
  <2>2. QED
    BY <2>1 DEF PlaceInv
<1>4. FilledInv'
  BY <1>1 DEF FilledInv
<1>5. FindInv'
  <2>1. \A l \in Made, cl \in ClOrdIDs : OrderOf(l, cl)' = OrderOf(l, cl)
    BY DEF OrderOf
  <2>2. \A l \in Made : Closed(l) => Closed(l)'
    BY DEF Closed
  <2>3. QED
    BY <1>1, <2>1, <2>2, FindStays
<1>6. ReportInv'
  <2>1. ASSUME NEW d \in Conns PROVE ReportOf(d)'
    <3>1. ReportOf(d)
      BY <1>1 DEF ReportInv
    <3>2. ASSUME conn[d].at = "cancel"
          PROVE  OrderOf(SessionOf(d), Request(d).clOrdID)' = OrderOf(SessionOf(d), Request(d).clOrdID)
      <4>1. conn[d].session # 0
        BY <1>1, <3>2 DEF PlaceInv, Handling
      <4>2. PICK l \in Made : l = SessionOf(d)
        BY <1>1, <4>1, OwnSession
      <4>3. SessionOf(d)' = l /\ Request(d)' = Request(d)
        BY <4>2 DEF SessionOf, Request
      <4>4. Session(l)'.orderIDs = Session(l).orderIDs
        OBVIOUS
      <4>5. QED
        BY <4>2, <4>3, <4>4 DEF OrderOf, Session
    <3>3. QED
      BY <1>1, <3>1, <3>2, ReportStays
  <2>2. QED
    BY <2>1 DEF ReportInv
<1>7. QED
  BY <1>2, <1>3, <1>4, <1>5, <1>6 DEF OrderInv

(* The monitor moves, over the same table. *)
LEMMA MonitorMoves ==
  ASSUME SessionTypes, TableTypes, Made' = Made, UNCHANGED sessions, raced' \subseteq Made,
         monitor' \in MonitorRecords, \A k \in Made : Session(k)'.id = Session(k).id
  PROVE  TableTypes'
<1>1. /\ sessions \subseteq Made
      /\ \A k, l \in sessions : Session(k).id = Session(l).id => k = l
  BY DEF TableTypes
<1>2. MonitorRecords' = MonitorRecords
  BY DEF MonitorRecords
<1>3. QED
  BY <1>1, <1>2 DEF TableTypes

(* Neither numbers nor sessions change. *)
LEMMA NothingSent ==
  ASSUME IInv, UNCHANGED <<conn, received, outCh, session, raced, order, renamed>>,
         \A k \in Made :
           /\ MonitorHoldsNumber(k)' <=> MonitorHoldsNumber(k)
           /\ MonitorHoldsNumber(k) => monitor'.number = monitor.number
  PROVE  /\ LocalTypes' /\ SessionTypes' /\ ChannelTypes' /\ OrderTypes' /\ PlaceInv'
         /\ NumbersInOrder' /\ NumberInv' /\ OrderInv'
         /\ Made' = Made /\ \A k \in Made : Session(k)' = Session(k)
<1>1. SessionTypes /\ ChannelTypes /\ NumbersInOrder /\ NumberInv
  BY DEF IInv, Types
<1>2. SessionTypes' /\ Made' = Made /\ \A k \in Made : Session(k)' = Session(k)
  BY <1>1, SessionsStay
<1>3. ChannelTypes'
  BY <1>1 DEF ChannelTypes
<1>4. LocalTypes' /\ OrderTypes' /\ PlaceInv' /\ OrderInv'
  BY <1>2, OthersMove
<1>5. ASSUME NEW k \in Made PROVE NumbersOf(k)'
  <2>1. /\ HoldsNumber(k)' <=> HoldsNumber(k)
        /\ Closed(k)' <=> Closed(k)
    BY DEF HoldsNumber, SessionOf, Closed
  <2>2. NumbersOf(k)
    BY <1>1, NumbersAre
  <2>3. Sent(k)' = Sent(k) /\ Numbered(k)' = Numbered(k)
    BY SentStays
  <2>4. QED
    BY <1>2, <2>1, <2>2, <2>3, KeepsNumbers
<1>6. QED
  BY <1>2, <1>3, <1>4, <1>5, NumbersAreNext

(* Stop is called. *)
LEMMA StopStep == IInv /\ Stop => IInv'
<1> SUFFICES ASSUME IInv, Stop PROVE IInv'
  OBVIOUS
<1>1. /\ ctxDone' = TRUE
      /\ UNCHANGED <<accepting, conn, writer, outCh, received, session, sessions, monitor,
                     order, panicked, messages, faults, renamed, raced>>
  BY DEF Stop
<1>2. \A k \in Made : MonitorHoldsNumber(k)' <=> MonitorHoldsNumber(k)
  BY <1>1 DEF MonitorHoldsNumber
<1>3. /\ LocalTypes' /\ SessionTypes' /\ ChannelTypes' /\ OrderTypes' /\ PlaceInv'
      /\ NumbersInOrder' /\ NumberInv' /\ OrderInv'
      /\ Made' = Made /\ \A k \in Made : Session(k)' = Session(k)
  BY <1>1, <1>2, NothingSent
<1>4. FlagTypes'
  BY <1>1 DEF IInv, Types, FlagTypes
<1>5. TableTypes' /\ TableInv'
  <2>1. SessionTypes /\ TableTypes /\ TableInv /\ raced' \subseteq Made'
    BY <1>1, <1>3 DEF IInv, Types, TableTypes
  <2>2. QED
    BY <1>1, <1>3, <2>1, TableKeeps
<1>6. QED
  BY <1>3, <1>4, <1>5 DEF IInv, Types

(* The accept loop ends. *)
LEMMA AcceptExitStep == IInv /\ AcceptExit => IInv'
<1> SUFFICES ASSUME IInv, AcceptExit PROVE IInv'
  OBVIOUS
<1>1. /\ accepting' = FALSE
      /\ UNCHANGED <<ctxDone, conn, writer, outCh, received, session, sessions, monitor,
                     order, panicked, messages, faults, renamed, raced>>
  BY DEF AcceptExit
<1>2. \A k \in Made : MonitorHoldsNumber(k)' <=> MonitorHoldsNumber(k)
  BY <1>1 DEF MonitorHoldsNumber
<1>3. /\ LocalTypes' /\ SessionTypes' /\ ChannelTypes' /\ OrderTypes' /\ PlaceInv'
      /\ NumbersInOrder' /\ NumberInv' /\ OrderInv'
      /\ Made' = Made /\ \A k \in Made : Session(k)' = Session(k)
  BY <1>1, <1>2, NothingSent
<1>4. FlagTypes'
  BY <1>1 DEF IInv, Types, FlagTypes
<1>5. TableTypes' /\ TableInv'
  <2>1. SessionTypes /\ TableTypes /\ TableInv /\ raced' \subseteq Made'
    BY <1>1, <1>3 DEF IInv, Types, TableTypes
  <2>2. QED
    BY <1>1, <1>3, <2>1, TableKeeps
<1>6. QED
  BY <1>3, <1>4, <1>5 DEF IInv, Types

(* The monitor locks the table and walks it, lets go of it, or ends. *)
LEMMA MonitorWalks ==
  ASSUME IInv, ~panicked, Tick \/ ScanEnds \/ MonitorExit, MonitorFrame
  PROVE  IInv'
<1>1. FlagTypes /\ SessionTypes /\ TableTypes /\ TableInv
  BY DEF IInv, Types
<1>2. /\ UNCHANGED <<ctxDone, accepting, conn, writer, received, sessions, order, messages, renamed>>
      /\ UNCHANGED <<outCh, session, panicked, faults, raced>>
  BY DEF Tick, ScanEnds, MonitorExit, MonitorFrame
<1>3. monitor \in MonitorRecords
  BY <1>1 DEF TableTypes
<1>4. /\ monitor' \in MonitorRecords /\ monitor.at # "enqueue" /\ monitor'.at # "enqueue"
      /\ monitor'.at \in {"select", "exited"} => monitor'.due = {}
  <2>1. CASE Tick
    BY <1>3, <2>1 DEF Tick, MonitorRecords
  <2>2. CASE ScanEnds
    BY <1>3, <2>2 DEF ScanEnds, MonitorRecords
  <2>3. CASE MonitorExit
    BY <1>1, <1>3, <2>3 DEF MonitorExit, MonitorRecords, TableInv
  <2>4. QED
    BY <2>1, <2>2, <2>3
<1>5. \A k \in Made : ~MonitorHoldsNumber(k)' /\ ~MonitorHoldsNumber(k)
  BY <1>4 DEF MonitorHoldsNumber
<1>6. /\ LocalTypes' /\ SessionTypes' /\ ChannelTypes' /\ OrderTypes' /\ PlaceInv'
      /\ NumbersInOrder' /\ NumberInv' /\ OrderInv'
      /\ Made' = Made /\ \A k \in Made : Session(k)' = Session(k)
  BY <1>2, <1>5, NothingSent
<1>7. FlagTypes'
  BY <1>1, <1>2 DEF FlagTypes
<1>8. TableTypes'
  <2>1. raced' \subseteq Made
    BY <1>1, <1>2 DEF TableTypes
  <2>2. QED
    BY <1>1, <1>2, <1>4, <1>6, <2>1, MonitorMoves
<1>9. TableInv'
  BY <1>1, <1>2, <1>4 DEF TableInv
<1>10. QED
  BY <1>6, <1>7, <1>8, <1>9 DEF IInv, Types

(* The monitor finds a session that missed its heartbeats. *)
LEMMA OverdueStep ==
  ASSUME IInv, ~panicked, NEW k \in monitor.due, Overdue(k), MonitorFrame
  PROVE  IInv'
<1>1. /\ FlagTypes /\ SessionTypes /\ ChannelTypes /\ TableTypes /\ TableInv
      /\ NumbersInOrder /\ NumberInv
  BY DEF IInv, Types
<1>2. monitor \in MonitorRecords /\ monitor.due \in SUBSET sessions /\ k \in sessions /\ k \in Made
  BY <1>1 DEF TableTypes, MonitorRecords
<1>3. /\ UNCHANGED <<ctxDone, accepting, conn, writer, received, sessions, order, messages, renamed>>
      /\ UNCHANGED <<outCh, panicked>> /\ monitor.at = "scan"
      /\ monitor' = [at |-> "enqueue", due |-> monitor.due \ {k}, session |-> k,
                     number |-> session'[k[1]][k[2]].seqOut]
  BY DEF Overdue, MonitorFrame
<1>4. /\ SessionTypes' /\ Made' = Made
      /\ \A d \in Conns : Len(session'[d]) = Len(session[d])
      /\ \A l \in Made : Session(l)'.id = Session(l).id
      /\ \A l \in Made : Session(l)'.orderIDs = Session(l).orderIDs
      /\ monitor'.number \in Nat
      /\ raced' \subseteq Made
      /\ \A l \in Made : NumbersOf(l)'
  <2>1. \A l \in Made : NumbersOf(l)
    BY <1>1, NumbersAre
  <2>2. QED
    BY <1>1, <1>2, <1>3, <2>1, TakenByMonitor
<1>5. /\ monitor' \in MonitorRecords /\ monitor'.at = "enqueue" /\ monitor'.session = k
  BY <1>2, <1>3, <1>4 DEF MonitorRecords
<1>6. LocalTypes' /\ OrderTypes' /\ PlaceInv' /\ OrderInv'
  BY <1>3, <1>4, OthersMove
<1>7. ChannelTypes'
  <2>1. \A d \in Conns : Len(session[d]) <= Len(session'[d])
    BY <1>1, <1>4, MadeFacts
  <2>2. QED
    BY <1>1, <1>3, <1>4, <2>1, ChannelsStay
<1>8. FlagTypes'
  BY <1>1, <1>3 DEF FlagTypes
<1>9. TableTypes' /\ TableInv'
  <2>1. TableTypes'
    BY <1>1, <1>3, <1>4, <1>5, MonitorMoves
  <2>2. TableInv'
    BY <1>1, <1>2, <1>3, <1>5 DEF TableInv
  <2>3. QED
    BY <2>1, <2>2
<1>10. QED
  BY <1>4, <1>6, <1>7, <1>8, <1>9, NumbersAreNext DEF IInv, Types

(* A writer writes, or fails. *)
LEMMA WriteStep ==
  ASSUME IInv, NEW c \in Conns, Write(c)
  PROVE  IInv'
<1>1. /\ FlagTypes /\ SessionTypes /\ ChannelTypes /\ TableTypes /\ TableInv
      /\ NumbersInOrder /\ NumberInv
  BY DEF IInv, Types
<1>2. UNCHANGED <<ctxDone, accepting, conn, sessions, monitor, order, panicked, messages,
                  renamed, raced>>
  BY DEF Write, WriterFrame
<1>3. /\ SessionTypes' /\ ChannelTypes' /\ Made' = Made
      /\ \A d \in Conns : Len(session'[d]) = Len(session[d])
      /\ \A l \in Made : Session(l)'.id = Session(l).id
      /\ \A l \in Made : Session(l)'.orderIDs = Session(l).orderIDs
      /\ \A l \in Made : NumbersOf(l)'
  <2>1. \A l \in Made : NumbersOf(l)
    BY <1>1, NumbersAre
  <2>2. QED
    BY <1>1, <2>1, WritePut
<1>4. LocalTypes' /\ OrderTypes' /\ PlaceInv' /\ OrderInv'
  BY <1>2, <1>3, OthersMove
<1>5. FlagTypes'
  <2>1. writer' = writer \/ writer' = [writer EXCEPT ![c] = FALSE]
    BY DEF Write
  <2>2. writer' \in [Conns -> BOOLEAN]
    BY <1>1, <2>1 DEF FlagTypes
  <2>3. QED
    BY <1>1, <1>2, <2>2 DEF FlagTypes
<1>6. TableTypes' /\ TableInv'
  <2>1. raced' \subseteq Made'
    BY <1>1, <1>2, <1>3 DEF TableTypes
  <2>2. QED
    BY <1>1, <1>2, <1>3, <2>1, TableKeeps
<1>7. QED
  BY <1>3, <1>4, <1>5, <1>6, NumbersAreNext DEF IInv, Types

-----------------------------------------------------------------------------
(* A goroutine sends the number that it holds: nobody else holds it, and it *)
(* is not among those sent.                                                 *)
LEMMA EnqueueStep ==
  ASSUME IInv, NEW c \in Conns, Enqueue(c), HandlerFrame, ConnFrame
  PROVE  IInv'
<1>1. /\ FlagTypes /\ LocalTypes /\ SessionTypes /\ ChannelTypes /\ OrderTypes /\ TableTypes
      /\ PlaceInv /\ TableInv /\ NumbersInOrder /\ NumberInv /\ FilledInv /\ ReportInv /\ FindInv
  BY DEF IInv, Types, OrderInv
<1>2. /\ conn[c].at = "enqueue" /\ LoopsBack(c) /\ Send(SessionOf(c), conn[c].number)
      /\ UNCHANGED <<order, raced, accepting, received, sessions, messages, faults, renamed>>
      /\ UNCHANGED <<ctxDone, writer, monitor, panicked>>
  BY DEF Enqueue, HandlerFrame, ConnFrame
<1>3. conn[c].session # 0
  BY <1>1, <1>2 DEF PlaceInv, Handling
<1>4. PICK k \in Made : k = SessionOf(c) /\ k[1] = c /\ ~Closed(k)
  BY <1>1, <1>3, OwnSession
<1>5. PICK n, at, m : n = conn[c].number /\ at = LoopPlace /\ m = monitor.number
  OBVIOUS
<1>6. \A l \in Made : NumbersOf(l)
  BY <1>1, NumbersAre
<1>7. HoldsNumber(k)
  BY <1>2, <1>4 DEF HoldsNumber
<1>8. /\ \A i, j \in Numbered(k) :
           i < j => IF k \in raced THEN Sent(k)[i].number # Sent(k)[j].number
                    ELSE Sent(k)[i].number < Sent(k)[j].number
      /\ Cardinality(Numbered(k)) + Session(k).lost + InHand(k) = Session(k).seqOut
      /\ \A i \in Numbered(k) : Sent(k)[i].number <= Session(k).seqOut
      /\ NotSent(k, n)
      /\ MonitorHoldsNumber(k) => NotSent(k, m) /\ k \in raced /\ n # m
  BY <1>4, <1>5, <1>6, <1>7 DEF NumbersOf
<1>9. Session(k).seqOut \in Nat /\ Session(k).lost \in Nat /\ Cardinality(Numbered(k)) \in Nat
  BY <1>1, SentFacts
<1>10. n \in Nat \ {0}
  <2>1. n \in 1..Session(k).seqOut
    BY <1>8 DEF NotSent
  <2>2. QED
    BY <1>9, <2>1
<1>11. Send(k, n)
  BY <1>2, <1>4, <1>5
<1>12. /\ SessionTypes' /\ ChannelTypes' /\ Made' = Made
       /\ \A d \in Conns : Len(session'[d]) = Len(session[d])
       /\ \A l \in Made : Session(l)'.id = Session(l).id
       /\ \A l \in Made : Session(l)'.orderIDs = Session(l).orderIDs
       /\ \A l \in Made : l # k =>
            /\ Session(l)' = Session(l) /\ Numbered(l)' = Numbered(l)
            /\ \A i \in Numbered(l) : Sent(l)'[i] = Sent(l)[i]
       /\ Session(k)'.seqOut = Session(k).seqOut
       /\ Cardinality(Numbered(k)') + Session(k)'.lost
            = Cardinality(Numbered(k)) + Session(k).lost + 1
       /\ \A i, j \in Numbered(k)' :
            i < j => IF k \in raced THEN Sent(k)'[i].number # Sent(k)'[j].number
                     ELSE Sent(k)'[i].number < Sent(k)'[j].number
       /\ \A i \in Numbered(k)' : Sent(k)'[i].number <= Session(k)'.seqOut
       /\ \A x \in Nat : x # n /\ k \in raced /\ NotSent(k, x) => NotSent(k, x)'
  BY <1>1, <1>2, <1>8, <1>10, <1>11, SendPut
<1>13. PICK r : r = Place(at, conn[c].session)
  OBVIOUS
<1>14. /\ r \in Locals(DOMAIN order) /\ r.at \in {"read", "delete"} /\ r.order = 0
       /\ r.session = conn[c].session
  <2>1. at \in {"read", "delete"} /\ at \in ConnPlaces
    BY <1>5 DEF LoopPlace, ConnPlaces
  <2>2. conn[c].session \in Nat
    BY <1>1, LocalFacts
  <2>3. QED
    BY <1>13, <2>1, <2>2, PlaceFacts
<1>15. LocalTypes' /\ conn'[c] = r /\ \A d \in Conns : d # c => conn'[d] = conn[d]
  <2>1. conn' = [conn EXCEPT ![c] = r]
    BY <1>2, <1>5, <1>13 DEF LoopsBack
  <2>2. QED
    BY <1>1, <1>2, <1>14, <2>1, ConnPut
<1>16. \A l \in Made : l[1] \in Conns
  BY <1>1, MadeFacts
<1>17. \A l \in Made :
         /\ MonitorHoldsNumber(l)' <=> MonitorHoldsNumber(l)
         /\ Closed(l)' <=> Closed(l)
  BY <1>2, <1>14, <1>15, <1>16 DEF MonitorHoldsNumber, Closed
<1>18. ASSUME NEW l \in Made, l # k PROVE NumbersOf(l)'
  <2>1. /\ HoldsNumber(l)' <=> HoldsNumber(l)
        /\ HoldsNumber(l) => conn'[l[1]].number = conn[l[1]].number
    <3>1. CASE l[1] = c
      <4>1. ~HoldsNumber(l)'
        BY <1>14, <1>15, <3>1 DEF HoldsNumber
      <4>2. ~HoldsNumber(l)
        BY <1>4, <1>18, <3>1 DEF HoldsNumber
      <4>3. QED
        BY <4>1, <4>2
    <3>2. CASE l[1] # c
      BY <1>15, <1>16, <3>2 DEF HoldsNumber, SessionOf
    <3>3. QED
      BY <3>1, <3>2
  <2>2. QED
    BY <1>2, <1>6, <1>12, <1>17, <1>18, <2>1, KeepsNumbers
<1>19. NumbersOf(k)'
  <2>1. ~HoldsNumber(k)'
    BY <1>4, <1>14, <1>15 DEF HoldsNumber
  <2>2. InHand(k)' \in Nat /\ InHand(k) = InHand(k)' + 1
    BY <1>7, <1>17, <2>1 DEF InHand
  <2>3. Cardinality(Numbered(k)') + Session(k)'.lost + InHand(k)' = Session(k)'.seqOut
    <3>1. PICK a, b, h : a = Cardinality(Numbered(k)) /\ b = Session(k).lost /\ h = InHand(k)'
      OBVIOUS
    <3>2. PICK x, y : x = Cardinality(Numbered(k)') /\ y = Session(k)'.lost
      OBVIOUS
    <3>3. a + b + (h + 1) = Session(k).seqOut /\ x + y = a + b + 1
      BY <1>8, <1>12, <2>2, <3>1, <3>2
    <3>4. a \in Nat /\ b \in Nat /\ h \in Nat
      BY <1>9, <2>2, <3>1
    <3>5. x + y + h = Session(k).seqOut
      BY <3>3, <3>4
    <3>6. QED
      BY <1>12, <3>1, <3>2, <3>5
  <2>4. MonitorHoldsNumber(k)' => NotSent(k, monitor.number)'
    <3>1. SUFFICES ASSUME MonitorHoldsNumber(k)' PROVE NotSent(k, m)'
      BY <1>2, <1>5 DEF NotSent
    <3>2. NotSent(k, m) /\ k \in raced /\ n # m
      BY <1>8, <1>17, <3>1
    <3>3. m \in Nat
      BY <1>9, <3>2 DEF NotSent
    <3>4. QED
      BY <1>12, <3>2, <3>3
  <2>5. QED
    BY <1>2, <1>12, <2>1, <2>3, <2>4 DEF NumbersOf
<1>20. NumbersInOrder' /\ NumberInv'
  BY <1>12, <1>18, <1>19, NumbersAreNext
<1>21. FlagTypes' /\ OrderTypes'
  BY <1>1, <1>2, <1>12, OrdersStay DEF FlagTypes
<1>22. TableTypes' /\ TableInv'
  <2>1. raced' \subseteq Made'
    BY <1>1, <1>2, <1>12 DEF TableTypes
  <2>2. \A d \in Conns : conn'[d].at \in {"close", "ended"} => conn[d].at \in {"close", "ended"}
    BY <1>14, <1>15
  <2>3. QED
    BY <1>1, <1>2, <1>12, <2>1, <2>2, TableKeeps
<1>23. PlaceInv'
  <2>1. ASSUME NEW d \in Conns
        PROVE  /\ conn'[d].session = IF conn'[d].at = "ended" THEN 0 ELSE Len(session'[d])
               /\ conn'[d].at \in Handling => conn'[d].session # 0
               /\ conn'[d].at \in {"unopened", "read", "register", "handle"} => conn'[d].order = 0
               /\ d \notin renamed' => Len(session'[d]) <= 1
    <3>1. CASE d = c
      BY <1>1, <1>2, <1>12, <1>14, <1>15, <3>1 DEF PlaceInv, Handling
    <3>2. CASE d # c
      BY <1>1, <1>2, <1>12, <1>15, <3>2 DEF PlaceInv
    <3>3. QED
      BY <3>1, <3>2
  <2>2. QED
    BY <2>1 DEF PlaceInv
<1>24. FilledInv'
  BY <1>1, <1>2 DEF FilledInv
<1>25. FindInv'
  <2>1. \A l \in Made, cl \in ClOrdIDs : OrderOf(l, cl)' = OrderOf(l, cl)
    BY <1>12 DEF OrderOf
  <2>2. QED
    BY <1>1, <1>2, <1>17, <2>1, FindStays
<1>26. ReportInv'
  <2>1. ASSUME NEW d \in Conns, d # c PROVE ReportOf(d)'
    <3>1. conn'[d] = conn[d] /\ ReportOf(d)
      BY <1>1, <1>15, <2>1 DEF ReportInv
    <3>2. ASSUME conn[d].at = "cancel"
          PROVE  OrderOf(SessionOf(d), Request(d).clOrdID)' = OrderOf(SessionOf(d), Request(d).clOrdID)
      <4>1. conn[d].session # 0
        BY <1>1, <3>2 DEF PlaceInv, Handling
      <4>2. PICK l \in Made : l = SessionOf(d)
        BY <1>1, <4>1, OwnSession
      <4>3. SessionOf(d)' = l /\ Request(d)' = Request(d)
        BY <3>1, <4>2 DEF SessionOf, Request
      <4>4. Session(l)'.orderIDs = Session(l).orderIDs
        BY <1>12
      <4>5. QED
        BY <4>2, <4>3, <4>4 DEF OrderOf, Session
    <3>3. QED
      BY <1>1, <1>2, <3>1, <3>2, ReportStays
  <2>2. ReportOf(c)'
    BY <1>14, <1>15, NoReport
  <2>3. QED
    BY <2>1, <2>2 DEF ReportInv
<1>27. QED
  BY <1>12, <1>15, <1>20, <1>21, <1>22, <1>23, <1>24, <1>25, <1>26 DEF IInv, Types, OrderInv

(* The monitor sends on a closed channel only when the connection left an   *)
(* earlier session in the table.                                            *)
LEMMA MonitorSendsOnClosed ==
  ASSUME IInv, ~panicked, MonitorSend, MonitorFrame, Closed(monitor.session)
  PROVE  IInv'
<1>1. FlagTypes /\ SessionTypes /\ TableTypes /\ TableInv
  BY DEF IInv, Types
<1>2. /\ UNCHANGED <<ctxDone, accepting, conn, writer, received, sessions, order, messages, renamed>>
      /\ UNCHANGED <<outCh, session, monitor, faults, raced>>
      /\ panicked' = TRUE /\ monitor.at = "enqueue"
  BY DEF MonitorSend, MonitorFrame, Closed
<1>3. monitor.session[1] \in renamed
  BY <1>1, <1>2 DEF TableInv, Closed
<1>4. \A k \in Made : MonitorHoldsNumber(k)' <=> MonitorHoldsNumber(k)
  BY <1>2 DEF MonitorHoldsNumber
<1>5. /\ LocalTypes' /\ SessionTypes' /\ ChannelTypes' /\ OrderTypes' /\ PlaceInv'
      /\ NumbersInOrder' /\ NumberInv' /\ OrderInv'
      /\ Made' = Made /\ \A k \in Made : Session(k)' = Session(k)
  BY <1>2, <1>4, NothingSent
<1>6. FlagTypes'
  BY <1>1, <1>2 DEF FlagTypes
<1>7. TableTypes'
  <2>1. raced' \subseteq Made' /\ sessions \subseteq Made
    BY <1>1, <1>2, <1>5 DEF TableTypes
  <2>2. QED
    BY <1>1, <1>2, <1>5, <2>1, TableStays
<1>8. TableInv'
  BY <1>1, <1>2, <1>3 DEF TableInv
<1>9. QED
  BY <1>5, <1>6, <1>7, <1>8 DEF IInv, Types

(* The monitor sends the number that it holds. *)
LEMMA MonitorSends ==
  ASSUME IInv, ~panicked, MonitorSend, MonitorFrame, ~Closed(monitor.session)
  PROVE  IInv'
<1>1. /\ FlagTypes /\ SessionTypes /\ ChannelTypes /\ TableTypes
      /\ TableInv /\ NumbersInOrder /\ NumberInv
  BY DEF IInv, Types
<1>2. PICK k, m : k = monitor.session /\ m = monitor.number
  OBVIOUS
<1>3. /\ UNCHANGED <<ctxDone, accepting, conn, writer, received, sessions, order, messages, renamed>>
      /\ UNCHANGED <<faults, raced>>
      /\ panicked' = FALSE /\ monitor.at = "enqueue" /\ Send(k, m)
      /\ monitor' = [monitor EXCEPT !.at = "scan", !.session = NoSession, !.number = 0]
  BY <1>2 DEF MonitorSend, MonitorFrame, Closed
<1>4. k \in Made /\ ~Closed(k)
  BY <1>1, <1>2, <1>3 DEF TableInv, TableTypes
<1>5. \A l \in Made : NumbersOf(l)
  BY <1>1, NumbersAre
<1>6. MonitorHoldsNumber(k) /\ \A l \in Made : l # k => ~MonitorHoldsNumber(l)
  BY <1>2, <1>3 DEF MonitorHoldsNumber
<1>7. /\ \A i, j \in Numbered(k) :
           i < j => IF k \in raced THEN Sent(k)[i].number # Sent(k)[j].number
                    ELSE Sent(k)[i].number < Sent(k)[j].number
      /\ Cardinality(Numbered(k)) + Session(k).lost + InHand(k) = Session(k).seqOut
      /\ \A i \in Numbered(k) : Sent(k)[i].number <= Session(k).seqOut
      /\ NotSent(k, m)
      /\ HoldsNumber(k) => NotSent(k, conn[k[1]].number) /\ k \in raced /\ conn[k[1]].number # m
  BY <1>2, <1>4, <1>5, <1>6 DEF NumbersOf
<1>8. Session(k).seqOut \in Nat /\ Session(k).lost \in Nat /\ Cardinality(Numbered(k)) \in Nat
  BY <1>1, <1>4, SentFacts
<1>9. m \in Nat \ {0}
  <2>1. m \in 1..Session(k).seqOut
    BY <1>7 DEF NotSent
  <2>2. QED
    BY <1>8, <2>1
<1>10. /\ SessionTypes' /\ ChannelTypes' /\ Made' = Made
       /\ \A d \in Conns : Len(session'[d]) = Len(session[d])
       /\ \A l \in Made : Session(l)'.id = Session(l).id
       /\ \A l \in Made : Session(l)'.orderIDs = Session(l).orderIDs
       /\ \A l \in Made : l # k =>
            /\ Session(l)' = Session(l) /\ Numbered(l)' = Numbered(l)
            /\ \A i \in Numbered(l) : Sent(l)'[i] = Sent(l)[i]
       /\ Session(k)'.seqOut = Session(k).seqOut
       /\ Cardinality(Numbered(k)') + Session(k)'.lost
            = Cardinality(Numbered(k)) + Session(k).lost + 1
       /\ \A i, j \in Numbered(k)' :
            i < j => IF k \in raced THEN Sent(k)'[i].number # Sent(k)'[j].number
                     ELSE Sent(k)'[i].number < Sent(k)'[j].number
       /\ \A i \in Numbered(k)' : Sent(k)'[i].number <= Session(k)'.seqOut
       /\ \A x \in Nat : x # m /\ k \in raced /\ NotSent(k, x) => NotSent(k, x)'
  BY <1>1, <1>3, <1>4, <1>7, <1>9, SendPut
<1>11. monitor \in MonitorRecords
  BY <1>1 DEF TableTypes
<1>12. monitor' \in MonitorRecords /\ monitor'.at = "scan"
  BY <1>3, <1>11 DEF MonitorRecords
<1>13. \A l \in Made :
         /\ ~MonitorHoldsNumber(l)'
         /\ HoldsNumber(l)' <=> HoldsNumber(l)
         /\ Closed(l)' <=> Closed(l)
  BY <1>3, <1>12 DEF MonitorHoldsNumber, HoldsNumber, SessionOf, Closed
<1>14. ASSUME NEW l \in Made, l # k PROVE NumbersOf(l)'
  BY <1>3, <1>5, <1>6, <1>10, <1>13, <1>14, KeepsNumbers
<1>15. NumbersOf(k)'
  <2>1. InHand(k)' \in Nat /\ InHand(k) = InHand(k)' + 1
    BY <1>4, <1>6, <1>13 DEF InHand
  <2>2. Cardinality(Numbered(k)') + Session(k)'.lost + InHand(k)' = Session(k)'.seqOut
    <3>1. PICK a, b, h : a = Cardinality(Numbered(k)) /\ b = Session(k).lost /\ h = InHand(k)'
      OBVIOUS
    <3>2. PICK x, y : x = Cardinality(Numbered(k)') /\ y = Session(k)'.lost
      OBVIOUS
    <3>3. a + b + (h + 1) = Session(k).seqOut /\ x + y = a + b + 1
      BY <1>7, <1>10, <2>1, <3>1, <3>2
    <3>4. a \in Nat /\ b \in Nat /\ h \in Nat
      BY <1>8, <2>1, <3>1
    <3>5. x + y + h = Session(k).seqOut
      BY <3>3, <3>4
    <3>6. QED
      BY <1>10, <3>1, <3>2, <3>5
  <2>3. HoldsNumber(k)' => NotSent(k, conn[k[1]].number)'
    <3>1. PICK n : n = conn[k[1]].number
      OBVIOUS
    <3>2. SUFFICES ASSUME HoldsNumber(k)' PROVE NotSent(k, n)'
      BY <1>3, <3>1 DEF NotSent
    <3>3. NotSent(k, n) /\ k \in raced /\ n # m
      BY <1>4, <1>7, <1>13, <3>1, <3>2
    <3>4. n \in Nat
      BY <1>8, <3>3 DEF NotSent
    <3>5. QED
      BY <1>10, <3>3, <3>4
  <2>4. QED
    BY <1>3, <1>4, <1>10, <1>13, <2>2, <2>3 DEF NumbersOf
<1>16. NumbersInOrder' /\ NumberInv'
  BY <1>10, <1>14, <1>15, NumbersAreNext
<1>17. LocalTypes' /\ OrderTypes' /\ PlaceInv' /\ OrderInv'
  BY <1>3, <1>10, OthersMove
<1>18. FlagTypes'
  BY <1>1, <1>3 DEF FlagTypes
<1>19. TableTypes'
  <2>1. raced' \subseteq Made
    BY <1>1, <1>3 DEF TableTypes
  <2>2. QED
    BY <1>1, <1>3, <1>10, <1>12, <2>1, MonitorMoves
<1>20. TableInv'
  BY <1>1, <1>3, <1>12 DEF TableInv
<1>21. QED
  BY <1>10, <1>16, <1>17, <1>18, <1>19, <1>20 DEF IInv, Types

-----------------------------------------------------------------------------
(* In a new session, nothing was sent. *)
LEMMA NothingSentYet ==
  ASSUME SessionTypes, ChannelTypes, NEW c \in Conns, NEW k, k = <<c, Len(session[c]) + 1>>,
         UNCHANGED <<received, outCh>>
  PROVE  Numbered(k)' = {}
<1>1. PICK n, rc, oc : n = Len(session[c]) /\ rc = received[c] /\ oc = outCh[c]
  OBVIOUS
<1>2. n \in Nat /\ k[1] = c /\ k[2] = n + 1
  BY <1>1, MadeFacts
<1>3. rc \in Seq(SentMessages(n)) /\ oc \in Seq(SentMessages(n))
  BY <1>1 DEF ChannelTypes
<1>4. \A i \in DOMAIN (rc \o oc) : (rc \o oc)[i] \in SentMessages(n)
  <2>1. rc \o oc \in Seq(SentMessages(n))
    BY <1>3, ConcatProperties
  <2>2. QED
    BY <2>1, SeqFacts
<1>5. \A m \in SentMessages(n) : m.session # n + 1
  BY <1>2 DEF SentMessages
<1>6. Numbered(k)' = {i \in DOMAIN (rc \o oc) : (rc \o oc)[i].session = n + 1}
  BY <1>1, <1>2 DEF Numbered, Sent
<1>7. QED
  BY <1>4, <1>5, <1>6

(* A message of the session that the connection used last. *)
LEMMA ReadKnown ==
  ASSUME IInv, NEW c \in Conns, NEW m \in Messages, Read(c, m), ConnFrame,
         conn[c].session # 0, session[c][conn[c].session].id = m.id
  PROVE  IInv'
<1>1. accepting \in BOOLEAN /\ LocalTypes /\ PlaceInv
  BY DEF IInv, Types, FlagTypes
<1>2. /\ conn[c].at = "read" /\ UNCHANGED <<session, renamed>>
      /\ UNCHANGED <<accepting, outCh, received, sessions, order, faults, raced>>
      /\ UNCHANGED <<ctxDone, writer, monitor, panicked>>
      /\ conn' = [conn EXCEPT ![c].at = "handle", ![c].session = Len(session[c]),
                              ![c].request = m.request]
  BY DEF Read, ConnFrame
<1>3. conn[c].session = Len(session[c]) /\ conn[c].order = 0
  BY <1>1, <1>2 DEF PlaceInv
<1>4. m.request \in Requests
  BY DEF Messages
<1>5. PICK r : r = [conn[c] EXCEPT !.at = "handle", !.session = Len(session[c]),
                                   !.request = m.request]
  OBVIOUS
<1>6. r \in Locals(DOMAIN order) /\ r.at = "handle" /\ r.session = conn[c].session /\ r.order = 0
  BY <1>1, <1>3, <1>4, <1>5, LocalFacts DEF Locals, ConnPlaces
<1>7. conn' = [conn EXCEPT ![c] = r] /\ conn'[c] = r
  BY <1>1, <1>2, <1>5 DEF LocalTypes
<1>8. ReportOf(c)'
  BY <1>6, <1>7, NoReport
<1>9. QED
  BY <1>1, <1>2, <1>6, <1>7, <1>8, GoStep

(* The first message, or one with another SenderCompID than the last. *)
LEMMA ReadNew ==
  ASSUME IInv, NEW c \in Conns, NEW m \in Messages, Read(c, m), ConnFrame,
         conn[c].session = 0 \/ session[c][conn[c].session].id # m.id
  PROVE  IInv'
<1>1. /\ FlagTypes /\ LocalTypes /\ SessionTypes /\ ChannelTypes /\ OrderTypes /\ TableTypes
      /\ PlaceInv /\ TableInv /\ NumbersInOrder /\ NumberInv /\ FilledInv /\ ReportInv /\ FindInv
  BY DEF IInv, Types, OrderInv
<1>2. /\ conn[c].at = "read"
      /\ session' = [session EXCEPT ![c] = Append(@, NewSession(m.id))]
      /\ conn' = [conn EXCEPT ![c].at = "register", ![c].session = Len(session'[c]),
                              ![c].request = m.request]
      /\ renamed' = IF conn[c].session # 0 THEN renamed \cup {c} ELSE renamed
      /\ UNCHANGED <<accepting, outCh, received, sessions, order, faults, raced>>
      /\ UNCHANGED <<ctxDone, writer, monitor, panicked>>
  BY DEF Read, ConnFrame
<1>3. conn[c].session = Len(session[c]) /\ conn[c].order = 0
  BY <1>1, <1>2 DEF PlaceInv
<1>4. m.request \in Requests /\ m.id \in CompIDs
  BY DEF Messages
<1>5. PICK k, n : k = <<c, Len(session[c]) + 1>> /\ n = Len(session[c]) + 1
  OBVIOUS
<1>6. /\ SessionTypes' /\ Made \subseteq Made' /\ k \notin Made
      /\ Len(session'[c]) = n
      /\ \A d \in Conns : d # c => Len(session'[d]) = Len(session[d])
      /\ \A d \in Conns : Len(session[d]) <= Len(session'[d])
      /\ \A l \in Made : Session(l)' = Session(l)
      /\ Session(k)' = NewSession(m.id)
      /\ \A l \in Made' : l \in Made \/ l = k
  <2>1. PICK s, z : s = session[c] /\ z = Len(session[c])
    OBVIOUS
  <2>2. PICK R, x : R = SessionRecords(DOMAIN order) /\ x = NewSession(m.id)
    OBVIOUS
  <2>3. session \in [Conns -> Seq(R)] /\ s \in Seq(R) /\ z = Len(s) /\ z \in Nat
    BY <1>1, <2>1, <2>2 DEF SessionTypes
  <2>4. x \in R
    <3>1. [cl \in ClOrdIDs |-> 0] \in [ClOrdIDs -> {0} \cup DOMAIN order]
      OBVIOUS
    <3>2. QED
      BY <1>4, <2>2, <3>1 DEF SessionRecords, NewSession
  <2>5. /\ Append(s, x) \in Seq(R) /\ Len(Append(s, x)) = z + 1
        /\ \A i \in 1..z : Append(s, x)[i] = s[i]
        /\ Append(s, x)[z + 1] = x
    BY <2>3, <2>4, AppendProperties
  <2>6. /\ session' \in [Conns -> Seq(R)]
        /\ \A d \in Conns : session'[d] = IF d = c THEN Append(s, x) ELSE session[d]
    BY <1>2, <2>1, <2>2, <2>3, <2>5
  <2>7. SessionTypes'
    BY <1>2, <2>2, <2>6 DEF SessionTypes
  <2>8. \A d \in Conns : Len(session[d]) \in Nat
    BY <1>1, MadeFacts
  <2>9. /\ Len(session'[c]) = z + 1
        /\ \A d \in Conns : d # c => Len(session'[d]) = Len(session[d])
        /\ \A d \in Conns : Len(session[d]) <= Len(session'[d])
    BY <2>1, <2>3, <2>5, <2>6, <2>8
  <2>10. Made \subseteq Made'
    BY <1>1, <2>7, <2>9, MadeGrows
  <2>11. \A l \in Made : l[1] \in Conns /\ l[2] \in 1..Len(session[l[1]]) /\ l = <<l[1], l[2]>>
    BY <1>1, MadeFacts
  <2>12. k[1] = c /\ k[2] = z + 1 /\ k = <<c, z + 1>>
    BY <1>5, <2>1
  <2>13. k \notin Made
    BY <2>1, <2>3, <2>11, <2>12
  <2>14. ASSUME NEW l \in Made PROVE Session(l)' = Session(l)
    <3>1. CASE l[1] = c
      BY <2>1, <2>5, <2>6, <2>11, <3>1 DEF Session
    <3>2. CASE l[1] # c
      BY <2>6, <2>11, <3>2 DEF Session
    <3>3. QED
      BY <3>1, <3>2
  <2>15. Session(k)' = x
    BY <2>5, <2>6, <2>12 DEF Session
  <2>16. ASSUME NEW l \in Made' PROVE l \in Made \/ l = k
    <3>1. l = <<l[1], l[2]>> /\ l[1] \in Conns /\ l[2] \in 1..Len(session'[l[1]])
      BY <2>6, KeysAre DEF Made
    <3>2. \A i \in 1..(z + 1) : i \in 1..z \/ i = z + 1
      BY <2>3
    <3>3. CASE l[1] = c
      <4>1. l[2] \in 1..z \/ l[2] = z + 1
        BY <2>9, <3>1, <3>2, <3>3
      <4>2. CASE l[2] \in 1..z
        <5>1. <<c, l[2]>> \in Made
          BY <1>1, <2>1, <4>2, MadeFacts
        <5>2. QED
          BY <3>1, <3>3, <5>1
      <4>3. CASE l[2] = z + 1
        BY <2>12, <3>1, <3>3, <4>3
      <4>4. QED
        BY <4>1, <4>2, <4>3
    <3>4. CASE l[1] # c
      <4>1. l[2] \in 1..Len(session[l[1]])
        BY <2>9, <3>1, <3>4
      <4>2. <<l[1], l[2]>> \in Made
        BY <1>1, <3>1, <4>1, MadeFacts
      <4>3. QED
        BY <3>1, <4>2
    <3>5. QED
      BY <3>3, <3>4
  <2>17. QED
    BY <1>5, <2>1, <2>2, <2>7, <2>9, <2>10, <2>13, <2>14, <2>15, <2>16
<1>7. n \in Nat /\ n # 0 /\ (conn[c].session = 0 => n = 1) /\ k[1] = c /\ k[2] = n
      /\ k \in Conns \X Nat
  <2>1. Len(session[c]) \in Nat
    BY <1>1, MadeFacts
  <2>2. QED
    BY <1>3, <1>5, <2>1
<1>8. PICK r : r = [conn[c] EXCEPT !.at = "register", !.session = n, !.request = m.request]
  OBVIOUS
<1>9. r \in Locals(DOMAIN order) /\ r.at = "register" /\ r.session = n /\ r.order = 0
  <2>1. conn[c] \in Locals(DOMAIN order)
    BY <1>1, LocalFacts
  <2>2. n \in Nat /\ m.request \in Requests \cup {NoRequest} /\ "register" \in ConnPlaces
    BY <1>4, <1>7 DEF ConnPlaces
  <2>3. QED
    BY <1>3, <1>8, <2>1, <2>2 DEF Locals
<1>10. LocalTypes' /\ conn'[c] = r /\ \A d \in Conns : d # c => conn'[d] = conn[d]
  <2>1. conn' = [conn EXCEPT ![c] = r]
    <3>1. conn' = [conn EXCEPT ![c].at = "register", ![c].session = n, ![c].request = m.request]
      BY <1>2, <1>6
    <3>2. QED
      BY <1>1, <1>8, <3>1 DEF LocalTypes
  <2>2. QED
    BY <1>1, <1>2, <1>9, <2>1, ConnPut
<1>11. ChannelTypes' /\ OrderTypes'
  BY <1>1, <1>2, <1>6, ChannelsStay, OrdersStay
<1>12. FlagTypes' /\ renamed \subseteq renamed'
  BY <1>1, <1>2 DEF FlagTypes
<1>13. TableTypes' /\ TableInv'
  <2>1. raced' \subseteq Made'
    BY <1>1, <1>2, <1>6 DEF TableTypes
  <2>2. \A d \in Conns : conn'[d].at \in {"close", "ended"} => conn[d].at \in {"close", "ended"}
    BY <1>9, <1>10
  <2>3. QED
    BY <1>1, <1>2, <1>6, <1>12, <2>1, <2>2, TableKeeps
<1>14. PlaceInv'
  <2>1. ASSUME NEW d \in Conns
        PROVE  /\ conn'[d].session = IF conn'[d].at = "ended" THEN 0 ELSE Len(session'[d])
               /\ conn'[d].at \in Handling => conn'[d].session # 0
               /\ conn'[d].at \in {"unopened", "read", "register", "handle"} => conn'[d].order = 0
               /\ d \notin renamed' => Len(session'[d]) <= 1
    <3>1. CASE d = c
      <4>1. conn'[d] = r /\ Len(session'[d]) = n
        BY <1>6, <1>10, <3>1
      <4>2. d \notin renamed' => n = 1
        BY <1>2, <1>7, <3>1
      <4>3. QED
        BY <1>7, <1>9, <4>1, <4>2
    <3>2. CASE d # c
      BY <1>1, <1>6, <1>10, <1>12, <3>2 DEF PlaceInv
    <3>3. QED
      BY <3>1, <3>2
  <2>2. QED
    BY <2>1 DEF PlaceInv
<1>15. \A l \in Made : l[1] \in Conns
  BY <1>1, MadeFacts
<1>16. ASSUME NEW l \in Made PROVE NumbersOf(l)' /\ (Closed(l)' <=> Closed(l))
  <2>1. Closed(l)' <=> Closed(l)
    BY <1>2, <1>9, <1>10, <1>15 DEF Closed
  <2>2. /\ HoldsNumber(l)' <=> HoldsNumber(l)
        /\ HoldsNumber(l) => conn'[l[1]].number = conn[l[1]].number
    BY <1>2, <1>9, <1>10, <1>15 DEF HoldsNumber, SessionOf
  <2>3. MonitorHoldsNumber(l)' <=> MonitorHoldsNumber(l)
    BY <1>2 DEF MonitorHoldsNumber
  <2>4. Sent(l)' = Sent(l) /\ Numbered(l)' = Numbered(l)
    BY <1>2, SentStays
  <2>5. NumbersOf(l)
    BY <1>1, NumbersAre
  <2>6. QED
    BY <1>2, <1>6, <2>1, <2>2, <2>3, <2>4, <2>5, KeepsNumbers
<1>17. NumbersOf(k)'
  <2>1. Numbered(k)' = {}
    BY <1>1, <1>2, <1>5, NothingSentYet
  <2>2. Session(k)'.seqOut = 0 /\ Session(k)'.lost = 0
    BY <1>6 DEF NewSession
  <2>3. ~HoldsNumber(k)'
    BY <1>7, <1>9, <1>10 DEF HoldsNumber
  <2>4. ~MonitorHoldsNumber(k)'
    <3>1. monitor.session \in {NoSession} \cup Made
      BY <1>1 DEF TableTypes, MonitorRecords
    <3>2. k # NoSession
      BY <1>7, GatewayAssumption
    <3>3. QED
      BY <1>2, <1>6, <3>1, <3>2 DEF MonitorHoldsNumber
  <2>5. InHand(k)' = 0 /\ Cardinality(Numbered(k)') = 0
    BY <2>1, <2>3, <2>4, FS_EmptySet DEF InHand
  <2>6. Cardinality(Numbered(k)') + Session(k)'.lost + InHand(k)' = Session(k)'.seqOut
    BY <2>2, <2>5
  <2>7. QED
    BY <2>1, <2>3, <2>4, <2>6 DEF NumbersOf
<1>18. NumbersInOrder' /\ NumberInv'
  BY <1>6, <1>16, <1>17, NumbersAreNext
<1>19. FilledInv'
  BY <1>1, <1>2 DEF FilledInv
<1>20. FindInv'
  <2>1. \A l \in Made, cl \in ClOrdIDs : OrderOf(l, cl)' = OrderOf(l, cl)
    BY <1>6 DEF OrderOf
  <2>2. QED
    BY <1>1, <1>2, <1>16, <2>1, FindStays
<1>21. ReportInv'
  <2>1. ASSUME NEW d \in Conns, d # c PROVE ReportOf(d)'
    <3>1. conn'[d] = conn[d] /\ ReportOf(d)
      BY <1>1, <1>10, <2>1 DEF ReportInv
    <3>2. session'[d] = session[d]
      BY <1>1, <1>2, <2>1 DEF SessionTypes
    <3>3. OrderOf(SessionOf(d), Request(d).clOrdID)' = OrderOf(SessionOf(d), Request(d).clOrdID)
      BY <3>1, <3>2 DEF OrderOf, Session, SessionOf, Request
    <3>4. QED
      BY <1>1, <1>2, <3>1, <3>3, ReportStays
  <2>2. ReportOf(c)'
    BY <1>9, <1>10, NoReport
  <2>3. QED
    BY <2>1, <2>2 DEF ReportInv
<1>22. QED
  BY <1>6, <1>10, <1>11, <1>12, <1>13, <1>14, <1>18, <1>19, <1>20, <1>21
     DEF IInv, Types, OrderInv

-----------------------------------------------------------------------------
(* A handler gives an order a name in its session, or takes the name away,  *)
(* and goes on without a number.                                            *)
LEMMA NameStep ==
  ASSUME IInv, NEW c \in Conns, conn[c].at \in {"handle", "cancel"},
         DOMAIN order \subseteq DOMAIN order', order' \in Seq(OrderRecords),
         SessionTypes', Made' = Made,
         \A d \in Conns : Len(session'[d]) = Len(session[d]) /\ (d # c => session'[d] = session[d]),
         \A l \in Made : /\ Session(l)'.seqOut = Session(l).seqOut
                         /\ Session(l)'.lost = Session(l).lost
                         /\ Session(l)'.id = Session(l).id,
         NEW r \in Locals(DOMAIN order'), conn' = [conn EXCEPT ![c] = r],
         r.at \notin {"enqueue", "close", "ended"}, r.session = conn[c].session,
         r.at \in {"unopened", "read", "register", "handle"} => r.order = 0,
         UNCHANGED <<ctxDone, accepting, writer, outCh, received, sessions, monitor, panicked,
                     renamed, raced>>,
         \A p \in DOMAIN order :
           /\ order[p].at = "done" => order'[p].at = "done"
           /\ order[p].filled = Quantity => order'[p].filled = Quantity,
         ReportOf(c)', FilledInv', FindInv'
  PROVE  IInv'
<1>1. /\ FlagTypes /\ LocalTypes /\ SessionTypes /\ ChannelTypes /\ OrderTypes /\ TableTypes
      /\ PlaceInv /\ TableInv /\ NumbersInOrder /\ NumberInv /\ FilledInv /\ ReportInv /\ FindInv
  BY DEF IInv, Types, OrderInv
<1>2. conn[c].session # 0
  BY <1>1 DEF PlaceInv, Handling
<1>3. LocalTypes' /\ conn'[c] = r /\ \A d \in Conns : d # c => conn'[d] = conn[d]
  BY <1>1, ConnPut
<1>4. OrderTypes'
  <2>1. OrderRecords' = OrderRecords
    BY DEF OrderRecords
  <2>2. QED
    BY <2>1 DEF OrderTypes
<1>5. ChannelTypes'
  <2>1. \A d \in Conns : Len(session[d]) <= Len(session'[d])
    BY <1>1, MadeFacts
  <2>2. QED
    BY <1>1, <2>1, ChannelsStay
<1>6. FlagTypes'
  BY <1>1 DEF FlagTypes
<1>7. TableTypes' /\ TableInv'
  <2>1. raced' \subseteq Made'
    BY <1>1 DEF TableTypes
  <2>2. \A d \in Conns : conn'[d].at \in {"close", "ended"} => conn[d].at \in {"close", "ended"}
    BY <1>3
  <2>3. QED
    BY <1>1, <2>1, <2>2, TableKeeps
<1>8. PlaceInv'
  <2>1. ASSUME NEW d \in Conns
        PROVE  /\ conn'[d].session = IF conn'[d].at = "ended" THEN 0 ELSE Len(session'[d])
               /\ conn'[d].at \in Handling => conn'[d].session # 0
               /\ conn'[d].at \in {"unopened", "read", "register", "handle"} => conn'[d].order = 0
               /\ d \notin renamed' => Len(session'[d]) <= 1
    <3>1. CASE d = c
      BY <1>1, <1>2, <1>3, <3>1 DEF PlaceInv
    <3>2. CASE d # c
      BY <1>1, <1>3, <3>2 DEF PlaceInv
    <3>3. QED
      BY <3>1, <3>2
  <2>2. QED
    BY <2>1 DEF PlaceInv
<1>9. ASSUME NEW l \in Made PROVE NumbersOf(l)'
  <2>1. l[1] \in Conns
    BY <1>1, MadeFacts
  <2>2. Closed(l)' <=> Closed(l)
    BY <1>3, <2>1 DEF Closed
  <2>3. /\ HoldsNumber(l)' <=> HoldsNumber(l)
        /\ HoldsNumber(l) => conn'[l[1]].number = conn[l[1]].number
    BY <1>3, <2>1 DEF HoldsNumber, SessionOf
  <2>4. Sent(l)' = Sent(l) /\ Numbered(l)' = Numbered(l)
    BY SentStays
  <2>5. MonitorHoldsNumber(l)' <=> MonitorHoldsNumber(l)
    BY DEF MonitorHoldsNumber
  <2>6. NumbersOf(l)
    BY <1>1, NumbersAre
  <2>7. Session(l)'.seqOut = Session(l).seqOut /\ Session(l)'.lost = Session(l).lost
    OBVIOUS
  <2>8. QED
    BY <2>2, <2>3, <2>4, <2>5, <2>6, <2>7, KeepsNumbers
<1>10. NumbersInOrder' /\ NumberInv'
  BY <1>9, NumbersAreNext
<1>11. ReportInv'
  <2>1. ASSUME NEW d \in Conns, d # c PROVE ReportOf(d)'
    <3>1. conn'[d] = conn[d] /\ ReportOf(d)
      BY <1>1, <1>3, <2>1 DEF ReportInv
    <3>2. session'[d] = session[d]
      BY <2>1
    <3>3. OrderOf(SessionOf(d), Request(d).clOrdID)' = OrderOf(SessionOf(d), Request(d).clOrdID)
      BY <3>1, <3>2 DEF OrderOf, Session, SessionOf, Request
    <3>4. QED
      BY <1>1, <3>1, <3>3, ReportStays
  <2>2. QED
    BY <2>1 DEF ReportInv
<1>12. QED
  BY <1>3, <1>4, <1>5, <1>6, <1>7, <1>8, <1>10, <1>11 DEF IInv, Types, OrderInv

(* An order is submitted: it has the next ID, and its name leads to it.     *)
LEMMA SubmitStep ==
  ASSUME IInv, NEW c \in Conns, NEW filled \in 0..Quantity, NEW limit \in BOOLEAN,
         SubmitOrder(c, filled, limit), HandlerFrame, ConnFrame
  PROVE  IInv'
<1>1. /\ LocalTypes /\ SessionTypes /\ OrderTypes /\ PlaceInv /\ FilledInv /\ FindInv
  BY DEF IInv, Types, OrderInv
<1>2. PICK k, cl, o : k = SessionOf(c) /\ cl = Request(c).clOrdID /\ o = Len(order) + 1
  OBVIOUS
<1>3. PICK x : x = [session |-> k, clOrdID |-> cl, filled |-> filled,
                    status |-> FillStatus(filled),
                    at |-> IF limit /\ filled < Quantity THEN "resting" ELSE "done"]
  OBVIOUS
<1>4. /\ conn[c].at = "handle" /\ Request(c).kind = "NewOrder"
      /\ order' = Append(order, x)
      /\ session' = [session EXCEPT ![c][conn[c].session].orderIDs[cl] = Len(order')]
      /\ conn' = [conn EXCEPT ![c].at = "report", ![c].order = Len(order')]
      /\ UNCHANGED <<outCh, raced>>
  BY <1>2, <1>3 DEF SubmitOrder
<1>5. conn[c].session # 0
  BY <1>1, <1>4 DEF PlaceInv, Handling
<1>6. k \in Made /\ k[1] = c /\ k[2] = conn[c].session
  BY <1>1, <1>2, <1>5, OwnSession
<1>7. cl \in ClOrdIDs
  BY <1>1, <1>2, <1>4, LocalFacts, RequestNames DEF Request, OrderKinds
<1>8. /\ x \in OrderRecords /\ x.session = k /\ x.clOrdID = cl /\ x.at # "filling"
      /\ x.status = "Filled" => x.filled = Quantity
  <2>1. FillStatus(filled) \in OrderStatuses
    BY DEF FillStatus, OrderStatuses
  <2>2. FillStatus(filled) = "Filled" => filled = Quantity
    BY DEF FillStatus
  <2>3. QED
    BY <1>3, <1>6, <1>7, <2>1, <2>2 DEF OrderRecords
<1>9. /\ order \in Seq(OrderRecords) /\ order' \in Seq(OrderRecords)
      /\ Len(order) \in Nat /\ Len(order') = o /\ DOMAIN order = 1..Len(order)
      /\ \A p \in DOMAIN order : order'[p] = order[p]
      /\ order'[o] = x
  <2>1. order \in Seq(OrderRecords) /\ Len(order) \in Nat /\ DOMAIN order = 1..Len(order)
    BY <1>1, OrderFacts DEF OrderTypes
  <2>2. QED
    BY <1>2, <1>4, <1>8, <2>1, AppendProperties
<1>10. /\ DOMAIN order \subseteq DOMAIN order' /\ o \in DOMAIN order' /\ o # 0
       /\ \A p \in DOMAIN order' : p \in DOMAIN order \/ p = o
       /\ \A p \in DOMAIN order : p < o
  <2>1. DOMAIN order' = 1..o
    BY <1>9
  <2>2. QED
    BY <1>2, <1>9, <2>1
<1>11. PICK r : r = [conn[c] EXCEPT !.at = "report", !.order = o]
  OBVIOUS
<1>12. /\ r \in Locals(DOMAIN order') /\ r.at = "report" /\ r.order = o
       /\ r.session = conn[c].session /\ r.request = conn[c].request
  <2>1. conn[c] \in Locals(DOMAIN order)
    BY <1>1, LocalFacts
  <2>2. QED
    BY <1>10, <1>11, <2>1 DEF Locals, ConnPlaces
<1>13. conn' = [conn EXCEPT ![c] = r] /\ conn'[c] = r
  BY <1>1, <1>4, <1>9, <1>11 DEF LocalTypes
<1>14. session' = [session EXCEPT ![c][conn[c].session].orderIDs[cl] = o]
  BY <1>4, <1>9
<1>15. session' = [session EXCEPT ![k[1]][k[2]].orderIDs[cl] = o]
  BY <1>6, <1>14
<1>16. /\ SessionTypes' /\ Made' = Made
       /\ \A d \in Conns : Len(session'[d]) = Len(session[d])
       /\ Session(k)'.seqOut = Session(k).seqOut
       /\ Session(k)'.lost = Session(k).lost
       /\ OrderOf(k, cl)' = o
       /\ \A l \in Made, m \in ClOrdIDs : l # k \/ m # cl => OrderOf(l, m)' = OrderOf(l, m)
       /\ \A l \in Made : l # k => Session(l)' = Session(l)
       /\ \A l \in Made : Session(l)'.id = Session(l).id
  BY <1>1, <1>6, <1>7, <1>10, <1>15, OrderIDPut
<1>17. FilledInv'
  BY <1>1, <1>8, <1>9, <1>10 DEF FilledInv
<1>18. FindInv'
  <2> SUFFICES ASSUME NEW p \in DOMAIN order', order'[p].at # "done", Latest(p)',
                      ~Closed(order[p].session)'
               PROVE  OrderOf(order[p].session, order[p].clOrdID)' = p
    BY DEF FindInv
  <2>1. PICK l, m : l = order'[p].session /\ m = order'[p].clOrdID
    OBVIOUS
  <2>2. CASE p = o
    BY <1>8, <1>9, <1>16, <2>1, <2>2 DEF OrderOf, Session
  <2>3. CASE p \in DOMAIN order
    <3>1. l = order[p].session /\ m = order[p].clOrdID /\ order'[p] = order[p]
      BY <1>9, <2>1, <2>3
    <3>2. l \in Made /\ m \in ClOrdIDs
      BY <1>1, <2>3, <3>1, OrderFacts
    <3>3. Latest(p)
      BY <1>9, <1>10, <2>3 DEF Latest
    <3>4. l # k \/ m # cl
      <4>1. <<order'[o].session, order'[o].clOrdID>> # <<order'[p].session, order'[p].clOrdID>>
        BY <1>10, <2>3 DEF Latest
      <4>2. QED
        BY <1>8, <1>9, <2>1, <4>1
    <3>5. ~Closed(l)
      <4>1. ~Closed(l)'
        BY <2>1 DEF Closed
      <4>2. l[1] \in Conns
        BY <1>1, <3>2, MadeFacts
      <4>3. CASE l[1] = c
        BY <1>4, <4>3 DEF Closed
      <4>4. CASE l[1] # c
        <5>1. conn'[l[1]] = conn[l[1]]
          BY <1>1, <1>13, <4>2, <4>4 DEF LocalTypes
        <5>2. QED
          BY <4>1, <5>1 DEF Closed
      <4>5. QED
        BY <4>3, <4>4
    <3>6. OrderOf(l, m) = p
      BY <1>1, <2>3, <3>1, <3>3, <3>5 DEF FindInv
    <3>7. OrderOf(l, m)' = p
      BY <1>16, <3>2, <3>4, <3>6
    <3>8. QED
      BY <2>1, <3>7 DEF OrderOf, Session
  <2>4. QED
    BY <1>10, <2>2, <2>3
<1>19. ReportOf(c)'
  <2>1. Request(c)'.kind = "NewOrder"
    BY <1>4, <1>12, <1>13 DEF Request
  <2>2. conn'[c].at = "report" /\ conn'[c].order # 0 /\ ~Answering(c)'
    BY <1>10, <1>12, <1>13 DEF Answering
  <2>3. QED
    BY <2>1, <2>2 DEF ReportOf
<1>20. /\ UNCHANGED <<ctxDone, accepting, writer, outCh, received, sessions, monitor, panicked,
                      renamed, raced>>
       /\ r.at \notin {"enqueue", "close", "ended"}
       /\ r.at \notin {"unopened", "read", "register", "handle"}
  BY <1>4, <1>12 DEF HandlerFrame, ConnFrame
<1>21. \A p \in DOMAIN order :
         /\ order[p].at = "done" => order'[p].at = "done"
         /\ order[p].filled = Quantity => order'[p].filled = Quantity
  BY <1>9
<1>22. /\ \A d \in Conns : d # c => session'[d] = session[d]
       /\ \A l \in Made : /\ Session(l)'.seqOut = Session(l).seqOut
                          /\ Session(l)'.lost = Session(l).lost
                          /\ Session(l)'.id = Session(l).id
  BY <1>1, <1>14, <1>16 DEF SessionTypes
<1>23. /\ conn[c].at \in {"handle", "cancel"}
       /\ r.at \in {"unopened", "read", "register", "handle"} => r.order = 0
       /\ conn' = [conn EXCEPT ![c] = r]
       /\ SessionTypes' /\ Made' = Made
       /\ \A d \in Conns : Len(session'[d]) = Len(session[d]) /\ (d # c => session'[d] = session[d])
  BY <1>4, <1>13, <1>16, <1>20, <1>22
<1>24. QED
  BY <1>9, <1>10, <1>12, <1>17, <1>18, <1>19, <1>20, <1>21, <1>22, <1>23, NameStep

(* A place from which a goroutine goes on, not from the end. *)
LEMMA ClosedStays ==
  ASSUME SessionTypes, LocalTypes, NEW c \in Conns, conn[c].at # "ended",
         \A d \in Conns : d # c => conn'[d] = conn[d], NEW l \in Made, ~Closed(l)'
  PROVE  ~Closed(l)
<1>1. l[1] \in Conns
  BY MadeFacts
<1>2. CASE l[1] = c
  BY <1>2 DEF Closed
<1>3. CASE l[1] # c
  BY <1>1, <1>3 DEF Closed
<1>4. QED
  BY <1>2, <1>3

(* A cancel takes effect: the order is out of the book, and its name leads  *)
(* nowhere.                                                                 *)
LEMMA CancelStep ==
  ASSUME IInv, NEW c \in Conns, CancelSucceeds(c), HandlerFrame, ConnFrame
  PROVE  IInv'
<1>1. /\ LocalTypes /\ SessionTypes /\ OrderTypes /\ PlaceInv /\ FilledInv /\ FindInv
      /\ ReportOf(c)
  BY DEF IInv, Types, OrderInv, ReportInv
<1>2. PICK k, cl, o : k = SessionOf(c) /\ cl = Request(c).clOrdID /\ o = conn[c].order
  OBVIOUS
<1>3. /\ conn[c].at = "cancel" /\ order[o].at = "resting"
      /\ order' = [order EXCEPT ![o].at = "done", ![o].status = "Cancelled"]
      /\ session' = [session EXCEPT ![c][conn[c].session].orderIDs[cl] = 0]
      /\ LoopsBack(c)
      /\ UNCHANGED <<outCh, raced>>
  BY <1>2 DEF CancelSucceeds, Forget
<1>4. conn[c].session # 0
  BY <1>1, <1>3 DEF PlaceInv, Handling
<1>5. k \in Made /\ k[1] = c /\ k[2] = conn[c].session
  BY <1>1, <1>2, <1>4, OwnSession
<1>6. /\ o # 0 /\ Request(c).kind \in {"Cancel", "CancelElsewhere"} /\ OrderOf(k, cl) = o
      /\ o \in DOMAIN order
  BY <1>1, <1>2, <1>3, LocalFacts DEF ReportOf
<1>7. cl \in ClOrdIDs
  BY <1>1, <1>2, <1>6, LocalFacts, RequestNames DEF Request, OrderKinds
<1>8. PICK x : x = [order[o] EXCEPT !.at = "done", !.status = "Cancelled"]
  OBVIOUS
<1>9. /\ x \in OrderRecords /\ x.session = order[o].session /\ x.clOrdID = order[o].clOrdID
      /\ x.at = "done" /\ x.status = "Cancelled" /\ x.filled = order[o].filled
  <2>1. order[o] \in OrderRecords
    BY <1>1, <1>6, OrderFacts
  <2>2. QED
    BY <1>8, <2>1 DEF OrderRecords, OrderStatuses
<1>10. /\ order' \in Seq(OrderRecords) /\ DOMAIN order' = DOMAIN order
       /\ order'[o] = x /\ \A p \in DOMAIN order : p # o => order'[p] = order[p]
  <2>1. order \in Seq(OrderRecords) /\ order' = [order EXCEPT ![o] = x]
    BY <1>1, <1>3, <1>6, <1>8 DEF OrderTypes
  <2>2. QED
    BY <1>6, <1>9, <2>1
<1>11. PICK at : at = LoopPlace
  OBVIOUS
<1>12. PICK r : r = Place(at, conn[c].session)
  OBVIOUS
<1>13. /\ r \in Locals(DOMAIN order') /\ at \in {"read", "delete"} /\ r.at = at
       /\ r.session = conn[c].session /\ r.order = 0
  <2>1. at \in {"read", "delete"} /\ at \in ConnPlaces
    BY <1>11 DEF LoopPlace, ConnPlaces
  <2>2. conn[c].session \in Nat
    BY <1>1, LocalFacts
  <2>3. QED
    BY <1>12, <2>1, <2>2, PlaceFacts
<1>14. conn' = [conn EXCEPT ![c] = r] /\ conn'[c] = r /\ \A d \in Conns : d # c => conn'[d] = conn[d]
  BY <1>1, <1>3, <1>11, <1>12 DEF LoopsBack, LocalTypes
<1>15. session' = [session EXCEPT ![k[1]][k[2]].orderIDs[cl] = 0]
  BY <1>3, <1>5
<1>16. DOMAIN order \subseteq DOMAIN order' /\ 0 \in {0} \cup DOMAIN order'
  BY <1>10
<1>17. /\ SessionTypes' /\ Made' = Made
       /\ \A d \in Conns : Len(session'[d]) = Len(session[d])
       /\ Session(k)'.seqOut = Session(k).seqOut
       /\ Session(k)'.lost = Session(k).lost
       /\ \A l \in Made, m \in ClOrdIDs : l # k \/ m # cl => OrderOf(l, m)' = OrderOf(l, m)
       /\ \A l \in Made : l # k => Session(l)' = Session(l)
       /\ \A l \in Made : Session(l)'.id = Session(l).id
  BY <1>1, <1>5, <1>7, <1>15, <1>16, OrderIDPut
<1>18. FilledInv'
  BY <1>1, <1>9, <1>10 DEF FilledInv
<1>19. FindInv'
  <2> SUFFICES ASSUME NEW p \in DOMAIN order', order'[p].at # "done", Latest(p)',
                      ~Closed(order[p].session)'
               PROVE  OrderOf(order[p].session, order[p].clOrdID)' = p
    BY DEF FindInv
  <2>1. p \in DOMAIN order /\ p # o /\ order'[p] = order[p]
    BY <1>9, <1>10
  <2>2. PICK l, m : l = order[p].session /\ m = order[p].clOrdID
    OBVIOUS
  <2>3. l \in Made /\ m \in ClOrdIDs
    BY <1>1, <2>1, <2>2, OrderFacts
  <2>4. Latest(p)
    <3>1. \A q \in DOMAIN order : /\ order'[q].session = order[q].session
                                  /\ order'[q].clOrdID = order[q].clOrdID
      BY <1>9, <1>10
    <3>2. QED
      BY <1>10, <2>1, <3>1 DEF Latest
  <2>5. ~Closed(l)
    <3>1. ~Closed(l)'
      BY <2>1, <2>2 DEF Closed
    <3>2. conn[c].at # "ended"
      BY <1>3
    <3>3. QED
      BY <1>1, <1>14, <2>3, <3>1, <3>2, ClosedStays
  <2>6. OrderOf(l, m) = p
    BY <1>1, <2>1, <2>2, <2>4, <2>5 DEF FindInv
  <2>7. l # k \/ m # cl
    BY <1>6, <2>1, <2>6
  <2>8. OrderOf(l, m)' = p
    BY <1>17, <2>3, <2>6, <2>7
  <2>9. QED
    BY <2>1, <2>2, <2>8 DEF OrderOf, Session
<1>20. ReportOf(c)'
  BY <1>13, <1>14, NoReport
<1>21. /\ UNCHANGED <<ctxDone, accepting, writer, outCh, received, sessions, monitor, panicked,
                      renamed, raced>>
       /\ r.at \notin {"enqueue", "close", "ended"}
  BY <1>3, <1>13 DEF HandlerFrame, ConnFrame
<1>22. \A p \in DOMAIN order :
         /\ order[p].at = "done" => order'[p].at = "done"
         /\ order[p].filled = Quantity => order'[p].filled = Quantity
  BY <1>9, <1>10
<1>23. /\ \A d \in Conns : d # c => session'[d] = session[d]
       /\ \A l \in Made : /\ Session(l)'.seqOut = Session(l).seqOut
                          /\ Session(l)'.lost = Session(l).lost
                          /\ Session(l)'.id = Session(l).id
  BY <1>1, <1>3, <1>17 DEF SessionTypes
<1>24. /\ conn[c].at \in {"handle", "cancel"}
       /\ r.at \in {"unopened", "read", "register", "handle"} => r.order = 0
       /\ conn' = [conn EXCEPT ![c] = r]
       /\ SessionTypes' /\ Made' = Made
       /\ \A d \in Conns : Len(session'[d]) = Len(session[d]) /\ (d # c => session'[d] = session[d])
  BY <1>3, <1>13, <1>14, <1>17, <1>23
<1>25. QED
  BY <1>10, <1>13, <1>16, <1>18, <1>19, <1>20, <1>21, <1>22, <1>23, <1>24, NameStep

-----------------------------------------------------------------------------
(* The exchange fills an order that is in the book, or sets its status.     *)
LEMMA FillStep ==
  ASSUME IInv, ExchangeFrame, NEW o \in DOMAIN order, NEW x \in OrderRecords,
         order' = [order EXCEPT ![o] = x], order[o].at # "done",
         x.session = order[o].session, x.clOrdID = order[o].clOrdID,
         order[o].filled = Quantity => x.filled = Quantity,
         x.status = "Filled" => x.filled = Quantity,
         x.at = "filling" => x.status # "Filled"
  PROVE  IInv'
<1>1. /\ FlagTypes /\ LocalTypes /\ SessionTypes /\ ChannelTypes /\ OrderTypes /\ TableTypes
      /\ PlaceInv /\ TableInv /\ NumbersInOrder /\ NumberInv /\ FilledInv /\ ReportInv /\ FindInv
  BY DEF IInv, Types, OrderInv
<1>2. UNCHANGED <<ctxDone, accepting, conn, writer, outCh, received, session, sessions,
                  monitor, panicked, renamed, raced>>
  BY DEF ExchangeFrame
<1>3. /\ order' \in Seq(OrderRecords) /\ DOMAIN order' = DOMAIN order
      /\ order'[o] = x /\ \A p \in DOMAIN order : p # o => order'[p] = order[p]
  <2>1. order \in Seq(OrderRecords)
    BY <1>1 DEF OrderTypes
  <2>2. QED
    BY <2>1
<1>4. DOMAIN order \subseteq DOMAIN order'
  BY <1>3
<1>5. SessionTypes' /\ Made' = Made /\ \A l \in Made : Session(l)' = Session(l)
  BY <1>1, <1>2, <1>4, SessionsStay
<1>6. LocalTypes'
  BY <1>1, <1>2, <1>4, LocalsStay
<1>7. OrderTypes'
  <2>1. OrderRecords' = OrderRecords
    BY <1>5 DEF OrderRecords
  <2>2. QED
    BY <1>3, <2>1 DEF OrderTypes
<1>8. FlagTypes' /\ ChannelTypes' /\ PlaceInv'
  BY <1>1, <1>2 DEF FlagTypes, ChannelTypes, PlaceInv
<1>9. TableTypes' /\ TableInv'
  <2>1. raced' \subseteq Made' /\ Made \subseteq Made' /\ renamed \subseteq renamed'
    BY <1>1, <1>2, <1>5 DEF TableTypes
  <2>2. \A d \in Conns : conn'[d].at \in {"close", "ended"} => conn[d].at \in {"close", "ended"}
    BY <1>2
  <2>3. \A l \in Made : Session(l)'.id = Session(l).id
    BY <1>5
  <2>4. QED
    BY <1>1, <1>2, <2>1, <2>2, <2>3, TableKeeps
<1>10. ASSUME NEW l \in Made PROVE NumbersOf(l)'
  <2>1. /\ Closed(l)' <=> Closed(l)
        /\ HoldsNumber(l)' <=> HoldsNumber(l)
        /\ MonitorHoldsNumber(l)' <=> MonitorHoldsNumber(l)
    BY <1>2 DEF Closed, HoldsNumber, SessionOf, MonitorHoldsNumber
  <2>2. Sent(l)' = Sent(l) /\ Numbered(l)' = Numbered(l)
    BY <1>2, SentStays
  <2>3. NumbersOf(l)
    BY <1>1, NumbersAre
  <2>4. QED
    BY <1>2, <1>5, <2>1, <2>2, <2>3, KeepsNumbers
<1>11. NumbersInOrder' /\ NumberInv'
  BY <1>5, <1>10, NumbersAreNext
<1>12. FilledInv'
  BY <1>1, <1>3 DEF FilledInv
<1>13. \A l \in Made, m \in ClOrdIDs : OrderOf(l, m)' = OrderOf(l, m)
  BY <1>5 DEF OrderOf
<1>14. FindInv'
  <2> SUFFICES ASSUME NEW p \in DOMAIN order', order'[p].at # "done", Latest(p)',
                      ~Closed(order[p].session)'
               PROVE  OrderOf(order[p].session, order[p].clOrdID)' = p
    BY DEF FindInv
  <2>1. \A q \in DOMAIN order : /\ order'[q].session = order[q].session
                                /\ order'[q].clOrdID = order[q].clOrdID
    BY <1>3
  <2>2. p \in DOMAIN order /\ order[p].at # "done"
    BY <1>3
  <2>3. PICK l, m : l = order[p].session /\ m = order[p].clOrdID
    OBVIOUS
  <2>4. l \in Made /\ m \in ClOrdIDs
    BY <1>1, <2>2, <2>3, OrderFacts
  <2>5. Latest(p)
    BY <1>3, <2>1, <2>2 DEF Latest
  <2>6. ~Closed(l)
    BY <1>2, <2>1, <2>2, <2>3 DEF Closed
  <2>7. OrderOf(l, m) = p
    BY <1>1, <2>2, <2>3, <2>5, <2>6 DEF FindInv
  <2>8. OrderOf(l, m)' = p
    BY <1>13, <2>4, <2>7
  <2>9. QED
    BY <2>1, <2>2, <2>3, <2>8 DEF OrderOf, Session
<1>15. ReportInv'
  <2>1. ASSUME NEW d \in Conns PROVE ReportOf(d)'
    <3>1. conn'[d] = conn[d] /\ ReportOf(d)
      BY <1>1, <1>2 DEF ReportInv
    <3>2. OrderOf(SessionOf(d), Request(d).clOrdID)' = OrderOf(SessionOf(d), Request(d).clOrdID)
      BY <1>2 DEF OrderOf, Session, SessionOf, Request
    <3>3. \A p \in DOMAIN order :
            /\ order[p].at = "done" => order'[p].at = "done"
            /\ order[p].filled = Quantity => order'[p].filled = Quantity
      BY <1>3
    <3>4. QED
      BY <1>1, <3>1, <3>2, <3>3, ReportStays
  <2>2. QED
    BY <2>1 DEF ReportInv
<1>16. QED
  BY <1>5, <1>6, <1>7, <1>8, <1>9, <1>11, <1>12, <1>14, <1>15 DEF IInv, Types, OrderInv

(* A step of the exchange is one of the two. *)
LEMMA ExchangeStep == IInv /\ Exchange => IInv'
<1> SUFFICES ASSUME IInv, Exchange PROVE IInv'
  OBVIOUS
<1>1. OrderTypes /\ FilledInv
  BY DEF IInv, Types, OrderInv
<1>2. PICK o \in DOMAIN order : Settle(o) \/ \E n \in 1..Quantity : Claim(o, n)
  BY DEF Exchange
<1>3. ExchangeFrame
  BY DEF Exchange
<1>4. order[o] \in OrderRecords /\ order[o].filled \in 0..Quantity
  BY <1>1, OrderFacts
<1>5. Quantity \in Nat
  BY GatewayAssumption
<1>6. CASE Settle(o)
  <2>1. PICK x : x = [order[o] EXCEPT !.status = FillStatus(order[o].filled),
                        !.at = IF order[o].filled = Quantity THEN "done" ELSE "resting"]
    OBVIOUS
  <2>2. order' = [order EXCEPT ![o] = x] /\ order[o].at = "filling"
    BY <1>1, <1>6, <2>1 DEF Settle, OrderTypes
  <2>3. FillStatus(order[o].filled) \in OrderStatuses
    BY DEF FillStatus, OrderStatuses
  <2>4. /\ x \in OrderRecords /\ x.session = order[o].session /\ x.clOrdID = order[o].clOrdID
        /\ x.filled = order[o].filled /\ x.status = FillStatus(order[o].filled)
        /\ x.at # "filling"
    BY <1>4, <2>1, <2>3 DEF OrderRecords
  <2>5. x.status = "Filled" => x.filled = Quantity
    BY <2>4 DEF FillStatus
  <2>6. QED
    BY <1>3, <2>2, <2>4, <2>5, FillStep
<1>7. ASSUME NEW n \in 1..Quantity, Claim(o, n) PROVE IInv'
  <2>1. PICK q : q = order[o].filled + n
    OBVIOUS
  <2>2. order[o].at = "resting" /\ q \in 0..Quantity /\ order[o].filled # Quantity
    BY <1>4, <1>5, <1>7, <2>1 DEF Claim
  <2>3. PICK x : x = [order[o] EXCEPT !.at = "filling", !.filled = q]
    OBVIOUS
  <2>4. order' = [order EXCEPT ![o] = x]
    BY <1>1, <1>7, <2>1, <2>3 DEF Claim, OrderTypes
  <2>5. /\ x \in OrderRecords /\ x.session = order[o].session /\ x.clOrdID = order[o].clOrdID
        /\ x.filled = q /\ x.status = order[o].status
    BY <1>4, <2>2, <2>3 DEF OrderRecords
  <2>6. x.status # "Filled"
    BY <1>1, <2>2, <2>5 DEF FilledInv
  <2>7. QED
    BY <1>3, <2>2, <2>4, <2>5, <2>6, FillStep
<1>8. QED
  BY <1>2, <1>6, <1>7

-----------------------------------------------------------------------------
(* The invariant holds at the start. *)
LEMMA InitIInv == Init => IInv
<1> SUFFICES ASSUME Init PROVE IInv
  OBVIOUS
<1>1. /\ ctxDone = FALSE /\ accepting = TRUE /\ panicked = FALSE
      /\ conn = [c \in Conns |-> Place("unopened", 0)]
      /\ writer = [c \in Conns |-> TRUE]
      /\ outCh = [c \in Conns |-> <<>>] /\ received = [c \in Conns |-> <<>>]
      /\ session = [c \in Conns |-> <<>>]
      /\ sessions = {} /\ order = <<>> /\ renamed = {} /\ raced = {}
      /\ monitor = [at |-> "select", due |-> {}, session |-> NoSession, number |-> 0]
  BY DEF Init
<1>2. ASSUME NEW c \in Conns
      PROVE  /\ conn[c] \in Locals(DOMAIN order) /\ conn[c].at = "unopened"
             /\ conn[c].session = 0 /\ conn[c].order = 0
             /\ session[c] = <<>> /\ Len(session[c]) = 0
  <2>1. "unopened" \in ConnPlaces /\ 0 \in Nat
    BY DEF ConnPlaces
  <2>2. /\ Place("unopened", 0) \in Locals(DOMAIN order) /\ Place("unopened", 0).at = "unopened"
        /\ Place("unopened", 0).session = 0 /\ Place("unopened", 0).order = 0
    BY <2>1, PlaceFacts
  <2>3. conn[c] = Place("unopened", 0) /\ session[c] = <<>>
    BY <1>1
  <2>4. QED
    BY <2>2, <2>3
<1>3. Made = {} /\ DOMAIN order = {}
  <2>1. \A c \in Conns : DOMAIN session[c] = {}
    BY <1>2
  <2>2. QED
    BY <1>1, <2>1 DEF Made
<1>4. FlagTypes /\ OrderTypes
  <2>1. FlagTypes
    BY <1>1 DEF FlagTypes
  <2>2. <<>> \in Seq(OrderRecords)
    OBVIOUS
  <2>3. QED
    BY <1>1, <2>1, <2>2 DEF OrderTypes
<1>5. LocalTypes
  <2>1. conn = [c \in Conns |-> conn[c]]
    BY <1>1
  <2>2. QED
    BY <1>2, <2>1 DEF LocalTypes
<1>6. SessionTypes
  BY <1>1 DEF SessionTypes
<1>7. ChannelTypes
  <2>1. \A c \in Conns : outCh[c] = <<>> /\ received[c] = <<>> /\ Len(outCh[c]) = 0
    BY <1>1
  <2>2. \A S : <<>> \in Seq(S)
    OBVIOUS
  <2>3. 0 <= OutCap
    BY GatewayAssumption
  <2>4. /\ received \in [Conns -> Seq([session : Nat, number : Nat \ {0}])]
        /\ outCh \in [Conns -> Seq([session : Nat, number : Nat \ {0}])]
    BY <1>1
  <2>5. ASSUME NEW c \in Conns
        PROVE  /\ received[c] \in Seq(SentMessages(Len(session[c])))
               /\ outCh[c] \in Seq(SentMessages(Len(session[c])))
               /\ Len(outCh[c]) <= OutCap
    BY <2>1, <2>2, <2>3
  <2>6. QED
    BY <2>4, <2>5 DEF ChannelTypes
<1>8. TableTypes
  BY <1>1 DEF TableTypes, MonitorRecords
<1>9. PlaceInv
  BY <1>2 DEF PlaceInv, Handling
<1>10. TableInv
  BY <1>1 DEF TableInv
<1>11. NumbersInOrder /\ NumberInv
  BY <1>3 DEF NumbersInOrder, NumberInv
<1>12. OrderInv
  <2>1. FilledInv /\ FindInv
    BY <1>3 DEF FilledInv, FindInv
  <2>2. ReportInv
    BY <1>2 DEF ReportInv, ReportOf, Answering
  <2>3. QED
    BY <2>1, <2>2 DEF OrderInv
<1>13. QED
  BY <1>4, <1>5, <1>6, <1>7, <1>8, <1>9, <1>10, <1>11, <1>12 DEF IInv, Types

(* Each step of HandleMessage keeps the invariant. *)
LEMMA HandleMessageStep ==
  ASSUME IInv, NEW c \in Conns, HandleMessage(c), ConnFrame
  PROVE  IInv'
<1>1. HandlerFrame
  BY DEF HandleMessage
<1>2. CASE HandleSession(c)
  BY <1>1, <1>2, HandleSessionStep
<1>3. CASE Ignore(c)
  BY <1>1, <1>3, IgnoreStep
<1>4. CASE Reject(c)
  BY <1>1, <1>4, RejectStep
<1>5. ASSUME NEW filled \in 0..Quantity, NEW limit \in BOOLEAN, SubmitOrder(c, filled, limit)
      PROVE  IInv'
  BY <1>1, <1>5, SubmitStep
<1>6. CASE ReadReport(c)
  <2>1. conn[c].at = "report" \/ conn[c].at = "filled"
    BY <1>6 DEF ReadReport
  <2>2. QED
    BY <1>1, <1>6, <2>1, ReadStatusStep, ReadFilledStep
<1>7. CASE Number(c)
  BY <1>1, <1>7, NumberStep
<1>8. CASE FindOrder(c)
  BY <1>1, <1>8, FindOrderStep
<1>9. CASE CancelSucceeds(c)
  BY <1>1, <1>9, CancelStep
<1>10. CASE CancelRefused(c)
  BY <1>1, <1>10, CancelRefusedStep
<1>11. CASE Enqueue(c)
  BY <1>1, <1>11, EnqueueStep
<1>12. QED
  BY <1>2, <1>3, <1>4, <1>5, <1>6, <1>7, <1>8, <1>9, <1>10, <1>11 DEF HandleMessage

(* Each step of a connection's goroutine, or of its client, keeps it. *)
LEMMA ConnectionStep ==
  ASSUME IInv, NEW c \in Conns, HandleConnection(c)
  PROVE  IInv'
<1>1. ConnFrame
  BY DEF HandleConnection, Serve, Client
<1>2. CASE Register(c)
  BY <1>1, <1>2, RegisterStep
<1>3. CASE Timeout(c)
  BY <1>1, <1>3, TimeoutStep
<1>4. CASE Skip(c)
  BY <1>1, <1>4, SkipStep
<1>5. CASE Delete(c)
  BY <1>1, <1>5, DeleteStep
<1>6. CASE Close(c)
  BY <1>1, <1>6, CloseStep
<1>7. CASE HandleMessage(c)
  BY <1>1, <1>7, HandleMessageStep
<1>8. CASE ReadFails(c)
  BY <1>1, <1>8, ReadFailsStep
<1>9. ASSUME NEW m \in Messages, Read(c, m) PROVE IInv'
  <2>1. CASE conn[c].session # 0 /\ session[c][conn[c].session].id = m.id
    BY <1>1, <1>9, <2>1, ReadKnown
  <2>2. CASE conn[c].session = 0 \/ session[c][conn[c].session].id # m.id
    BY <1>1, <1>9, <2>2, ReadNew
  <2>3. QED
    BY <2>1, <2>2
<1>10. QED
  BY <1>2, <1>3, <1>4, <1>5, <1>6, <1>7, <1>8, <1>9 DEF HandleConnection, Serve, Client

(* Each step of the heartbeat monitor keeps it. *)
LEMMA MonitorStep ==
  ASSUME IInv, ~panicked, HeartbeatMonitor
  PROVE  IInv'
<1>1. MonitorFrame
  BY DEF HeartbeatMonitor
<1>2. CASE Tick \/ ScanEnds \/ MonitorExit
  BY <1>1, <1>2, MonitorWalks
<1>3. CASE MonitorSend
  <2>1. CASE Closed(monitor.session)
    BY <1>1, <1>3, <2>1, MonitorSendsOnClosed
  <2>2. CASE ~Closed(monitor.session)
    BY <1>1, <1>3, <2>2, MonitorSends
  <2>3. QED
    BY <2>1, <2>2
<1>4. ASSUME NEW k \in monitor.due, Overdue(k) PROVE IInv'
  BY <1>1, <1>4, OverdueStep
<1>5. QED
  BY <1>2, <1>3, <1>4 DEF HeartbeatMonitor

(* It stays when nothing moves. *)
LEMMA Stutter == IInv /\ UNCHANGED vars => IInv'
<1> SUFFICES ASSUME IInv, UNCHANGED vars PROVE IInv'
  OBVIOUS
<1>1. UNCHANGED <<ctxDone, accepting, conn, writer, outCh, received, session, sessions, monitor,
                  order, panicked, renamed, raced>>
  BY DEF vars
<1>2. Made' = Made
  BY <1>1 DEF Made
<1>3. Types' /\ PlaceInv' /\ TableInv'
  <2>1. Types /\ PlaceInv /\ TableInv
    BY DEF IInv
  <2>2. FlagTypes' /\ LocalTypes' /\ SessionTypes' /\ ChannelTypes' /\ PlaceInv' /\ TableInv'
    BY <1>1, <2>1 DEF Types, FlagTypes, LocalTypes, SessionTypes, ChannelTypes, PlaceInv, TableInv
  <2>3. TableTypes'
    BY <1>1, <1>2, <2>1 DEF Types, TableTypes, MonitorRecords, Session
  <2>4. OrderTypes'
    <3>1. OrderRecords' = OrderRecords
      BY <1>2 DEF OrderRecords
    <3>2. QED
      BY <1>1, <2>1, <3>1 DEF Types, OrderTypes
  <2>5. QED
    BY <2>2, <2>3, <2>4 DEF Types
<1>4. NumbersInOrder' /\ NumberInv'
  <2>1. ASSUME NEW k \in Made PROVE NumbersOf(k)'
    <3>1. NumbersOf(k)
      BY NumbersAre DEF IInv
    <3>2. Sent(k)' = Sent(k) /\ Numbered(k)' = Numbered(k)
      BY <1>1, SentStays
    <3>3. /\ Closed(k)' <=> Closed(k)
          /\ Session(k)' = Session(k)
          /\ HoldsNumber(k)' <=> HoldsNumber(k)
          /\ MonitorHoldsNumber(k)' <=> MonitorHoldsNumber(k)
      BY <1>1 DEF Closed, Session, HoldsNumber, SessionOf, MonitorHoldsNumber
    <3>4. QED
      BY <1>1, <3>1, <3>2, <3>3, KeepsNumbers
  <2>2. QED
    BY <1>2, <2>1, NumbersAreNext
<1>5. OrderInv'
  BY <1>1 DEF IInv, OrderInv, FilledInv, ReportInv, ReportOf, FindInv, Answering, Request, Latest,
              Closed, OrderOf, Session, SessionOf
<1>6. QED
  BY <1>3, <1>4, <1>5 DEF IInv

(* The inductive invariant of the gateway: types, places, the table, the    *)
(* numbers, and what was said of orders.                                    *)
THEOREM Inductive == Spec => []IInv
<1>1. Init => IInv
  BY InitIInv
<1>2. IInv /\ [Next]_vars => IInv'
  <2> SUFFICES ASSUME IInv, [Next]_vars PROVE IInv'
    OBVIOUS
  <2>1. CASE Next
    <3>1. ~panicked
      BY <2>1 DEF Next
    <3>2. CASE Stop
      BY <3>2, StopStep
    <3>3. ASSUME NEW c \in Conns, Accept(c), ConnFrame PROVE IInv'
      BY <3>3, AcceptStep
    <3>4. CASE AcceptExit
      BY <3>4, AcceptExitStep
    <3>5. CASE HeartbeatMonitor
      BY <3>1, <3>5, MonitorStep
    <3>6. CASE Exchange
      BY <3>6, ExchangeStep
    <3>7. ASSUME NEW c \in Conns, HandleConnection(c) PROVE IInv'
      BY <3>7, ConnectionStep
    <3>8. ASSUME NEW c \in Conns, Write(c) PROVE IInv'
      BY <3>8, WriteStep
    <3>9. QED
      BY <2>1, <3>2, <3>3, <3>4, <3>5, <3>6, <3>7, <3>8 DEF Next, AcceptLoop
  <2>2. CASE UNCHANGED vars
    BY <2>2, Stutter
  <2>3. QED
    BY <2>1, <2>2
<1>3. QED
  BY <1>1, <1>2, PTL DEF Spec

-----------------------------------------------------------------------------
(* Types; the table has one session for each SenderCompID, and nobody       *)
(* changes it while the monitor walks it (sessionMu).                       *)
THEOREM TypeCorrect == Spec => []TypeOK
<1>1. IInv => TypeOK
  BY TypesAreTypeOK DEF IInv
<1>2. QED
  BY <1>1, Inductive, PTL

(* The heartbeat monitor sends on a closed out channel only through a       *)
(* session that its connection left in the table when the client changed    *)
(* its SenderCompID.                                                        *)
THEOREM SendsOnClosedOnlyRenamed == Spec => []NoSendOnClosed
<1>1. IInv => NoSendOnClosed
  BY DEF IInv, TableInv, NoSendOnClosed
<1>2. QED
  BY <1>1, Inductive, PTL

(* Every number of seqOut is sent once, dropped or in hand, and they rise   *)
(* unless the connection and the monitor held one at the same time.         *)
THEOREM NumbersAccountedFor == Spec => []NumbersInOrder
<1>1. IInv => NumbersInOrder
  BY DEF IInv
<1>2. QED
  BY <1>1, Inductive, PTL

(* What clients are told of their orders is true: sendResult, handleCancel, *)
(* and the map of the session's orders.                                     *)
THEOREM TruthfulAnswers == Spec => []AnswersAreTrue
<1>1. IInv => AnswersAreTrue
  BY DEF IInv, OrderInv, ReportInv, ReportOf, FindInv, AnswersAreTrue
<1>2. QED
  BY <1>1, Inductive, PTL

-----------------------------------------------------------------------------
(* How long Stop takes *)

(* The steps that handleConnection has before it when the context is done,  *)
(* at each place: it reads one more message at most.  The one that puts a   *)
(* message into the out channel gives its writer a step.                    *)
PlaceLeft(at) ==
  CASE at = "read"     -> 10
    [] at = "register" -> 9
    [] at = "handle"   -> 8
    [] at = "report"   -> 7
    [] at = "filled"   -> 6
    [] at = "cancel"   -> 6
    [] at = "number"   -> 5
    [] at = "enqueue"  -> 4
    [] at = "delete"   -> 2
    [] at = "close"    -> 1
    [] at \in {"unopened", "ended"} -> 0

(* Those of a connection's goroutine and of its writer. *)
ConnLeft == [c \in Conns |-> PlaceLeft(conn[c].at) + Len(outCh[c])]

(* acceptLoop may accept one connection more. *)
AcceptLeft == IF accepting THEN 3 ELSE 0

(* The monitor's steps until it is back at its select, and out of it.       *)
MonitorLeft ==
  CASE monitor.at = "exited"  -> 0
    [] monitor.at = "select"  -> 1
    [] monitor.at = "scan"    -> 3 * Cardinality(monitor.due) + 2
    [] monitor.at = "enqueue" -> 3 * Cardinality(monitor.due) + 4

Filling == {o \in DOMAIN order : order[o].at = "filling"}

StopLeft ==
  SumFunctionOnSet(ConnLeft, Conns) + AcceptLeft + MonitorLeft + Cardinality(Filling)

(* After Stop every step takes one off, but for a tick that the monitor's   *)
(* select prefers to the context, which lets it walk the table once more,   *)
(* and for a fill that begins at the exchange; or it ends the program.      *)
StopNearer ==
  \/ StopLeft' < StopLeft
  \/ Tick /\ StopLeft' <= StopLeft + 3 * Cardinality(CompIDs) + 1
  \/ Exchange /\ StopLeft' = StopLeft + 1
  \/ panicked'

(* No step after Stop puts off its end by more than that.                  *)
StopBounded == [][ctxDone => StopNearer]_vars

(* A guard of everything that the gateway does by itself fails. *)
Waiting(c) ==
  \/ conn[c].at \in {"unopened", "ended"}
  \/ conn[c].at = "register" /\ ~TableFree
  \/ conn[c].at = "delete" /\ ~TableFree /\ conn[c].session # 0
  \/ conn[c].at = "handle" /\ Request(c).kind \notin SessionKinds \cup OrderKinds
  \/ conn[c].at = "cancel" /\ ~Refused(c) /\ order[conn[c].order].at # "resting"

NothingToDo ==
  /\ accepting => ~ctxDone
  /\ monitor.at = "exited" \/ (monitor.at = "select" /\ ~ctxDone)
  /\ \A c \in Conns : Waiting(c)
  /\ \A o \in DOMAIN order : order[o].at # "filling"

(* Then Stop has what it waits for. *)
StopsWhenIdle == ctxDone /\ NothingToDo => Stopped

(* What is handled is a message. *)
RequestInv ==
  \A c \in Conns : conn[c].at \in {"register", "handle"} => Request(c) \in Requests

(* A sequence with one element more. *)
LEMMA AppendIs ==
  ASSUME NEW S, NEW s \in Seq(S), NEW x
  PROVE  /\ Len(s) \in Nat /\ Len(Append(s, x)) = Len(s) + 1
         /\ DOMAIN s = 1..Len(s) /\ DOMAIN Append(s, x) = 1..(Len(s) + 1)
         /\ \A i \in 1..Len(s) : Append(s, x)[i] = s[i]
         /\ Append(s, x)[Len(s) + 1] = x
<1>1. s \in Seq(S \cup {x})
  BY SeqMonotonic
<1>2. /\ Append(s, x) \in Seq(S \cup {x}) /\ Len(Append(s, x)) = Len(s) + 1
      /\ \A i \in 1..Len(s) : Append(s, x)[i] = s[i]
      /\ Append(s, x)[Len(s) + 1] = x
  BY <1>1, AppendProperties
<1>3. QED
  BY <1>1, <1>2, SeqFacts

(* What the numbers of the places are. *)
LEMMA PlaceLeftIs ==
  /\ PlaceLeft("read") = 10 /\ PlaceLeft("register") = 9 /\ PlaceLeft("handle") = 8
  /\ PlaceLeft("report") = 7 /\ PlaceLeft("filled") = 6 /\ PlaceLeft("cancel") = 6
  /\ PlaceLeft("number") = 5 /\ PlaceLeft("enqueue") = 4 /\ PlaceLeft("delete") = 2
  /\ PlaceLeft("close") = 1 /\ PlaceLeft("unopened") = 0 /\ PlaceLeft("ended") = 0
  /\ \A at \in ConnPlaces : PlaceLeft(at) \in Nat
<1>1. /\ PlaceLeft("read") = 10 /\ PlaceLeft("register") = 9 /\ PlaceLeft("handle") = 8
      /\ PlaceLeft("report") = 7 /\ PlaceLeft("filled") = 6 /\ PlaceLeft("cancel") = 6
      /\ PlaceLeft("number") = 5 /\ PlaceLeft("enqueue") = 4 /\ PlaceLeft("delete") = 2
      /\ PlaceLeft("close") = 1 /\ PlaceLeft("unopened") = 0 /\ PlaceLeft("ended") = 0
  BY DEF PlaceLeft
<1>2. QED
  BY <1>1 DEF ConnPlaces

(* The table has one session for each SenderCompID at most. *)
LEMMA TableSize ==
  ASSUME IInv
  PROVE  /\ IsFiniteSet(sessions) /\ Cardinality(sessions) \in Nat
         /\ Cardinality(sessions) <= Cardinality(CompIDs) /\ Cardinality(CompIDs) \in Nat
         /\ monitor.due \in SUBSET sessions
         /\ IsFiniteSet(monitor.due) /\ Cardinality(monitor.due) \in Nat
<1>1. /\ SessionTypes /\ sessions \subseteq Made /\ monitor \in MonitorRecords
      /\ \A k, l \in sessions : Session(k).id = Session(l).id => k = l
  BY DEF IInv, Types, TableTypes
<1>2. IsFiniteSet(CompIDs) /\ Cardinality(CompIDs) \in Nat
  BY GatewayAssumption, FS_CardinalityType
<1> DEFINE f == [k \in sessions |-> Session(k).id]
<1>3. \A k \in sessions : Session(k).id \in CompIDs
  BY <1>1, MadeFacts DEF SessionRecords
<1>4. f \in [sessions -> CompIDs] /\ \A k, l \in sessions : f[k] = f[l] => k = l
  BY <1>1, <1>3
<1>5. f \in Injection(sessions, CompIDs)
  BY <1>4, Fun_IsInj
<1> HIDE DEF f
<1>6. IsFiniteSet(sessions) /\ Cardinality(sessions) <= Cardinality(CompIDs)
  BY <1>2, <1>5, FS_Injection
<1>7. monitor.due \in SUBSET sessions
  BY <1>1 DEF MonitorRecords
<1>8. QED
  BY <1>2, <1>6, <1>7, FS_Subset, FS_CardinalityType

(* The parts of the measure are natural. *)
LEMMA LeftTypes ==
  ASSUME IInv
  PROVE  /\ \A d \in Conns : ConnLeft[d] \in Nat
         /\ SumFunctionOnSet(ConnLeft, Conns) \in Nat /\ IsFiniteSet(Conns)
         /\ AcceptLeft \in Nat /\ MonitorLeft \in Nat
         /\ IsFiniteSet(Filling) /\ Cardinality(Filling) \in Nat
         /\ StopLeft \in Nat
<1>1. LocalTypes /\ ChannelTypes /\ OrderTypes /\ monitor \in MonitorRecords
  BY DEF IInv, Types, TableTypes
<1>2. ASSUME NEW c \in Conns PROVE ConnLeft[c] \in Nat
  <2>1. PlaceLeft(conn[c].at) \in Nat
    BY <1>1, LocalFacts, PlaceLeftIs
  <2>2. outCh[c] \in Seq([session : Nat, number : Nat \ {0}])
    BY <1>1 DEF ChannelTypes
  <2>3. Len(outCh[c]) \in Nat
    BY <2>2
  <2>4. QED
    BY <2>1, <2>3 DEF ConnLeft
<1>3. IsFiniteSet(Conns)
  BY GatewayAssumption
<1>4. SumFunctionOnSet(ConnLeft, Conns) \in Nat
  BY <1>2, <1>3, SumOfPart
<1>5. AcceptLeft \in Nat
  BY DEF AcceptLeft
<1>6. MonitorLeft \in Nat
  <2>1. monitor.at \in {"select", "scan", "enqueue", "exited"}
    BY <1>1 DEF MonitorRecords
  <2>2. PICK n \in Nat : n = Cardinality(monitor.due)
    BY TableSize
  <2>3. 3 * n + 2 \in Nat /\ 3 * n + 4 \in Nat
    BY <2>2
  <2>4. QED
    BY <2>1, <2>2, <2>3 DEF MonitorLeft
<1>7. IsFiniteSet(Filling) /\ Cardinality(Filling) \in Nat
  <2>1. Len(order) \in Nat /\ DOMAIN order = 1..Len(order)
    BY <1>1, OrderFacts
  <2>2. IsFiniteSet(DOMAIN order)
    BY <2>1, FS_Interval
  <2>3. Filling \in SUBSET DOMAIN order
    BY DEF Filling
  <2>4. QED
    BY <2>2, <2>3, FS_Subset, FS_CardinalityType
<1>8. StopLeft \in Nat
  BY <1>4, <1>5, <1>6, <1>7 DEF StopLeft
<1>9. QED
  BY <1>2, <1>3, <1>4, <1>5, <1>6, <1>7, <1>8

(* So are they after a step. *)
LEMMA LeftTypesNext == IInv' => (\A d \in Conns : ConnLeft[d] \in Nat)'
<1>1. IInv => \A d \in Conns : ConnLeft[d] \in Nat
  BY LeftTypes
<1>2. QED
  BY <1>1, PTL

(* A step that concerns one connection changes the sum by what it changes   *)
(* there.                                                                   *)
LEMMA OneConnLeft ==
  ASSUME IInv, IInv', NEW c \in Conns,
         \A d \in Conns \ {c} : conn'[d].at = conn[d].at /\ outCh'[d] = outCh[d]
  PROVE  SumFunctionOnSet(ConnLeft, Conns)'
           = SumFunctionOnSet(ConnLeft, Conns) - ConnLeft[c] + ConnLeft'[c]
<1>1. \A d \in Conns \ {c} : ConnLeft[d] = ConnLeft'[d]
  BY DEF ConnLeft
<1>2. (\A d \in Conns : ConnLeft[d] \in Nat)'
  BY LeftTypesNext
<1>3. \A d \in Conns : ConnLeft[d] \in Int /\ ConnLeft'[d] \in Int
  BY <1>2, LeftTypes
<1>4. IsFiniteSet(Conns)
  BY GatewayAssumption
<1>5. SumFunctionOnSet(ConnLeft', Conns)
        = SumFunctionOnSet(ConnLeft, Conns) - ConnLeft[c] + ConnLeft'[c]
  BY <1>1, <1>3, <1>4, SumChange
<1>6. QED
  BY <1>5

(* A step of one connection takes off what it takes off there.              *)
LEMMA ConnNearer ==
  ASSUME IInv, IInv', NEW c \in Conns,
         \A d \in Conns \ {c} : conn'[d].at = conn[d].at /\ outCh'[d] = outCh[d],
         NEW m \in Nat, ConnLeft'[c] = m, m < ConnLeft[c],
         UNCHANGED <<accepting, monitor>>, Filling' = Filling
  PROVE  StopLeft' < StopLeft
<1>1. PICK s \in Nat : s = SumFunctionOnSet(ConnLeft, Conns)
  BY LeftTypes
<1>2. PICK n \in Nat : n = ConnLeft[c]
  BY LeftTypes
<1>3. PICK a \in Nat : a = AcceptLeft + MonitorLeft + Cardinality(Filling)
  BY LeftTypes
<1>4. SumFunctionOnSet(ConnLeft, Conns)' = s - n + m
  BY <1>1, <1>2, OneConnLeft
<1>5. AcceptLeft' = AcceptLeft /\ MonitorLeft' = MonitorLeft
  BY DEF AcceptLeft, MonitorLeft
<1>6. /\ StopLeft = s + AcceptLeft + MonitorLeft + Cardinality(Filling)
      /\ StopLeft' = (s - n + m) + AcceptLeft + MonitorLeft + Cardinality(Filling)
  BY <1>1, <1>4, <1>5 DEF StopLeft
<1>7. AcceptLeft \in Nat /\ MonitorLeft \in Nat /\ Cardinality(Filling) \in Nat
  BY LeftTypes
<1>8. m < n
  BY <1>2
<1>9. StopLeft = s + a /\ StopLeft' = (s - n + m) + a
  BY <1>3, <1>6, <1>7
<1>10. QED
  BY <1>8, <1>9

(* Where a goroutine goes that takes a number, goes on, or back to the head *)
(* of the loop when the context is done.                                    *)
LEMMA PlacesAfter ==
  ASSUME IInv, NEW c \in Conns
  PROVE  /\ \A at \in ConnPlaces : Goes(c, at) => conn'[c].at = at
         /\ ctxDone /\ LoopsBack(c) => conn'[c].at = "delete"
         /\ \A b \in BOOLEAN : TakeNumber(c, b) => conn'[c].at = "enqueue"
         /\ (\E at \in ConnPlaces : Goes(c, at)) \/ LoopsBack(c) \/ (\E b \in BOOLEAN : TakeNumber(c, b))
              => \A d \in Conns \ {c} : conn'[d] = conn[d]
<1>1. conn \in [Conns -> Locals(DOMAIN order)]
  BY DEF IInv, Types, LocalTypes
<1>2. ASSUME NEW at \in ConnPlaces, Goes(c, at)
      PROVE  conn'[c].at = at /\ \A d \in Conns \ {c} : conn'[d] = conn[d]
  BY <1>1, <1>2 DEF Goes, Locals
<1>3. ASSUME LoopsBack(c)
      PROVE  conn'[c].at = LoopPlace /\ \A d \in Conns \ {c} : conn'[d] = conn[d]
  BY <1>1, <1>3 DEF LoopsBack, Place
<1>4. ASSUME NEW b \in BOOLEAN, TakeNumber(c, b)
      PROVE  conn'[c].at = "enqueue" /\ \A d \in Conns \ {c} : conn'[d] = conn[d]
  <2>1. PICK n : conn' = [conn EXCEPT ![c].at = "enqueue", ![c].number = n]
    BY <1>4 DEF TakeNumber
  <2>2. QED
    BY <1>1, <2>1 DEF Locals
<1>5. QED
  BY <1>2, <1>3, <1>4 DEF LoopPlace

(* The places that a goroutine has passed are worth more than where it is;  *)
(* it reads no other message.                                               *)
LEMMA ServesOn ==
  ASSUME IInv, ctxDone, NEW c \in Conns,
         \/ Register(c) \/ Timeout(c) \/ Skip(c) \/ Delete(c) \/ ReadFails(c)
         \/ \E m \in Messages : Read(c, m)
         \/ HandleSession(c) \/ Ignore(c) \/ Reject(c)
         \/ \E filled \in 0..Quantity, limit \in BOOLEAN : SubmitOrder(c, filled, limit)
         \/ ReadReport(c) \/ Number(c) \/ FindOrder(c) \/ CancelSucceeds(c) \/ CancelRefused(c)
  PROVE  /\ PlaceLeft(conn'[c].at) < PlaceLeft(conn[c].at)
         /\ \A d \in Conns \ {c} : conn'[d] = conn[d]
<1>1. conn \in [Conns -> Locals(DOMAIN order)]
  BY DEF IInv, Types, LocalTypes
<1> DEFINE Alone == \A d \in Conns \ {c} : conn'[d] = conn[d]
<1>2. CASE Register(c)
  <2>1. conn[c].at = "register" /\ conn'[c].at = "handle" /\ Alone
    BY <1>2, PlacesAfter DEF Register, ConnPlaces
  <2>2. QED
    BY <2>1, PlaceLeftIs
<1>3. CASE Timeout(c)
  <2>1. conn[c].at = "read" /\ (TakeNumber(c, TRUE) \/ LoopsBack(c))
    BY <1>3 DEF Timeout
  <2>2. conn'[c].at \in {"enqueue", "delete"} /\ Alone
    BY <2>1, PlacesAfter
  <2>3. QED
    BY <2>1, <2>2, PlaceLeftIs
<1>4. CASE Skip(c) \/ ReadFails(c)
  <2>1. conn[c].at = "read" /\ (LoopsBack(c) \/ Goes(c, "delete"))
    BY <1>4 DEF Skip, ReadFails
  <2>2. conn'[c].at = "delete" /\ Alone
    BY <2>1, PlacesAfter DEF ConnPlaces
  <2>3. QED
    BY <2>1, <2>2, PlaceLeftIs
<1>5. CASE Delete(c)
  <2>1. conn[c].at = "delete" /\ conn'[c].at = "close" /\ Alone
    BY <1>5, PlacesAfter DEF Delete, ConnPlaces
  <2>2. QED
    BY <2>1, PlaceLeftIs
<1>6. ASSUME NEW m \in Messages, Read(c, m)
      PROVE  PlaceLeft(conn'[c].at) < PlaceLeft(conn[c].at) /\ Alone
  <2>1. PICK known, n, r :
          conn' = [conn EXCEPT ![c].at = IF known THEN "handle" ELSE "register",
                               ![c].session = n, ![c].request = r]
    BY <1>6 DEF Read
  <2>2. conn[c].at = "read"
    BY <1>6 DEF Read
  <2>3. conn'[c].at \in {"handle", "register"} /\ Alone
    BY <1>1, <2>1 DEF Locals
  <2>4. QED
    BY <2>2, <2>3, PlaceLeftIs
<1>7. CASE HandleSession(c) \/ Reject(c) \/ Number(c)
  <2>1. /\ conn[c].at \in {"handle", "number"}
        /\ TakeNumber(c, TRUE) \/ TakeNumber(c, FALSE) \/ TakeNumber(c, LoggedIn(c))
    BY <1>7 DEF HandleSession, Reject, Number
  <2>2. conn'[c].at = "enqueue" /\ Alone
    <3>1. PICK n : conn' = [conn EXCEPT ![c].at = "enqueue", ![c].number = n]
      BY <2>1 DEF TakeNumber
    <3>2. QED
      BY <1>1, <3>1 DEF Locals
  <2>3. QED
    BY <2>1, <2>2, PlaceLeftIs
<1>8. CASE Ignore(c) \/ CancelSucceeds(c)
  <2>1. conn[c].at \in {"handle", "cancel"} /\ LoopsBack(c)
    BY <1>8 DEF Ignore, CancelSucceeds
  <2>2. conn'[c].at = "delete" /\ Alone
    BY <2>1, PlacesAfter
  <2>3. QED
    BY <2>1, <2>2, PlaceLeftIs
<1>9. ASSUME NEW filled \in 0..Quantity, NEW limit \in BOOLEAN, SubmitOrder(c, filled, limit)
      PROVE  PlaceLeft(conn'[c].at) < PlaceLeft(conn[c].at) /\ Alone
  <2>1. PICK n : conn' = [conn EXCEPT ![c].at = "report", ![c].order = n]
    BY <1>9 DEF SubmitOrder
  <2>2. conn[c].at = "handle"
    BY <1>9 DEF SubmitOrder
  <2>3. conn'[c].at = "report" /\ Alone
    BY <1>1, <2>1 DEF Locals
  <2>4. QED
    BY <2>2, <2>3, PlaceLeftIs
<1>10. CASE ReadReport(c)
  <2>1. CASE conn[c].at = "report"
    <3>1. PICK v : conn' = [conn EXCEPT ![c].at = "filled", ![c].status = v]
      BY <1>10, <2>1 DEF ReadReport
    <3>2. conn'[c].at = "filled" /\ Alone
      BY <1>1, <3>1 DEF Locals
    <3>3. QED
      BY <2>1, <3>2, PlaceLeftIs
  <2>2. CASE conn[c].at = "filled"
    <3>1. PICK v : conn' = [conn EXCEPT ![c].at = "number", ![c].filled = v]
      BY <1>10, <2>2 DEF ReadReport
    <3>2. conn'[c].at = "number" /\ Alone
      BY <1>1, <3>1 DEF Locals
    <3>3. QED
      BY <2>2, <3>2, PlaceLeftIs
  <2>3. QED
    BY <1>10, <2>1, <2>2 DEF ReadReport
<1>11. CASE FindOrder(c)
  <2>1. PICK n : conn' = [conn EXCEPT ![c].at = "cancel", ![c].order = n]
    BY <1>11 DEF FindOrder
  <2>2. conn[c].at = "handle"
    BY <1>11 DEF FindOrder
  <2>3. conn'[c].at = "cancel" /\ Alone
    BY <1>1, <2>1 DEF Locals
  <2>4. QED
    BY <2>2, <2>3, PlaceLeftIs
<1>12. CASE CancelRefused(c)
  <2>1. conn[c].at = "cancel" /\ conn'[c].at = "number" /\ Alone
    BY <1>12, PlacesAfter DEF CancelRefused, ConnPlaces
  <2>2. QED
    BY <2>1, PlaceLeftIs
<1>13. QED
  BY <1>2, <1>3, <1>4, <1>5, <1>6, <1>7, <1>8, <1>9, <1>10, <1>11, <1>12

(* A submission and a cancel leave the orders alone that are being filled.  *)
LEMMA FillingStays ==
  ASSUME IInv, NEW c \in Conns,
         \/ UNCHANGED order
         \/ \E filled \in 0..Quantity, limit \in BOOLEAN : SubmitOrder(c, filled, limit)
         \/ CancelSucceeds(c)
  PROVE  Filling' = Filling
<1>1. OrderTypes
  BY DEF IInv, Types
<1>2. CASE UNCHANGED order
  BY <1>2 DEF Filling
<1>3. ASSUME NEW filled \in 0..Quantity, NEW limit \in BOOLEAN, SubmitOrder(c, filled, limit)
      PROVE  Filling' = Filling
  <2>1. PICK x : order' = Append(order, x) /\ x.at \in {"resting", "done"}
    BY <1>3 DEF SubmitOrder
  <2>2. /\ DOMAIN order = 1..Len(order) /\ DOMAIN order' = 1..(Len(order) + 1) /\ Len(order) \in Nat
        /\ order'[Len(order) + 1] = x /\ \A o \in 1..Len(order) : order'[o] = order[o]
    BY <1>1, <2>1, AppendIs DEF OrderTypes
  <2>3. x.at # "filling"
    BY <2>1
  <2>4. ASSUME NEW o \in DOMAIN order', order'[o].at = "filling"
        PROVE  o \in DOMAIN order /\ order[o].at = "filling"
    <3>1. o # Len(order) + 1
      BY <2>2, <2>3, <2>4
    <3>2. o \in 1..Len(order)
      BY <2>2, <3>1
    <3>3. QED
      BY <2>2, <2>4, <3>2
  <2>5. ASSUME NEW o \in DOMAIN order, order[o].at = "filling"
        PROVE  o \in DOMAIN order' /\ order'[o].at = "filling"
    BY <2>2, <2>5
  <2>6. QED
    BY <2>4, <2>5 DEF Filling
<1>4. ASSUME CancelSucceeds(c) PROVE Filling' = Filling
  <2>1. PICK o : o = conn[c].order
    OBVIOUS
  <2>2. /\ order' = [order EXCEPT ![o].at = "done", ![o].status = "Cancelled"]
        /\ order[o].at = "resting"
    BY <1>4, <2>1 DEF CancelSucceeds
  <2>3. DOMAIN order' = DOMAIN order /\ \A p \in DOMAIN order : p # o => order'[p] = order[p]
    BY <2>2
  <2>4. o \in DOMAIN order => order'[o].at = "done"
    BY <1>1, <2>2, OrderFacts DEF OrderRecords
  <2>5. QED
    BY <2>2, <2>3, <2>4 DEF Filling
<1>5. QED
  BY <1>2, <1>3, <1>4

(* A step of handleConnection, or of its client. *)
LEMMA ServeNearer ==
  ASSUME IInv, ctxDone, NEW c \in Conns, HandleConnection(c)
  PROVE  StopLeft' < StopLeft
<1>1. IInv'
  BY ConnectionStep
<1>2. UNCHANGED <<accepting, monitor>>
  BY DEF HandleConnection, Serve, Client, ConnFrame, HandleMessage, HandlerFrame, Register,
         Timeout, Skip, Delete, Close, ReadFails, Read
<1>3. conn \in [Conns -> Locals(DOMAIN order)] /\ ChannelTypes /\ SessionTypes /\ PlaceInv
  BY DEF IInv, Types, LocalTypes
<1>4. PICK n \in Nat : n = Len(outCh[c])
  <2>1. outCh[c] \in Seq([session : Nat, number : Nat \ {0}])
    BY <1>3 DEF ChannelTypes
  <2>2. QED
    BY <2>1
<1>5. PICK a \in Nat : a = PlaceLeft(conn[c].at)
  BY LocalFacts, PlaceLeftIs DEF IInv, Types
<1>6. ConnLeft[c] = a + n
  BY <1>4, <1>5 DEF ConnLeft
<1>7. ASSUME \/ Register(c) \/ Timeout(c) \/ Skip(c) \/ Delete(c) \/ ReadFails(c)
             \/ \E m \in Messages : Read(c, m)
             \/ HandleSession(c) \/ Ignore(c) \/ Reject(c)
             \/ \E filled \in 0..Quantity, limit \in BOOLEAN : SubmitOrder(c, filled, limit)
             \/ ReadReport(c) \/ Number(c) \/ FindOrder(c) \/ CancelSucceeds(c)
             \/ CancelRefused(c)
      PROVE  StopLeft' < StopLeft
  <2>1. /\ PlaceLeft(conn'[c].at) < PlaceLeft(conn[c].at)
        /\ \A d \in Conns \ {c} : conn'[d] = conn[d]
    BY <1>7, ServesOn
  <2>2. UNCHANGED outCh
    BY <1>7 DEF Register, Timeout, Skip, Delete, ReadFails, Read, HandleSession, Ignore, Reject,
                SubmitOrder, ReadReport, Number, FindOrder, CancelSucceeds, CancelRefused
  <2>3. Filling' = Filling
    <3>1. \/ UNCHANGED order
          \/ \E filled \in 0..Quantity, limit \in BOOLEAN : SubmitOrder(c, filled, limit)
          \/ CancelSucceeds(c)
      BY <1>7 DEF Register, Timeout, Skip, Delete, ReadFails, Read, HandleSession, Ignore, Reject,
                  ReadReport, Number, FindOrder, CancelRefused
    <3>2. QED
      BY <3>1, FillingStays
  <2>4. PICK b \in Nat : b = PlaceLeft(conn'[c].at)
    <3>1. LocalTypes'
      BY <1>1 DEF IInv, Types
    <3>2. conn'[c].at \in ConnPlaces
      BY <3>1 DEF LocalTypes, Locals
    <3>3. QED
      BY <3>2, PlaceLeftIs
  <2>5. ConnLeft'[c] = b + n
    BY <1>4, <2>2, <2>4 DEF ConnLeft
  <2>6. b < a
    BY <1>5, <2>1, <2>4
  <2>7. b + n \in Nat /\ b + n < a + n
    BY <2>6
  <2>8. QED
    BY <1>1, <1>2, <1>6, <2>1, <2>2, <2>3, <2>5, <2>7, ConnNearer
<1>8. CASE Enqueue(c)
  <2>1. conn[c].at = "enqueue" /\ Send(SessionOf(c), conn[c].number) /\ LoopsBack(c) /\ UNCHANGED order
    BY <1>8 DEF Enqueue
  <2>2. conn'[c].at = "delete" /\ \A d \in Conns \ {c} : conn'[d] = conn[d]
    BY <2>1, PlacesAfter
  <2>3. SessionOf(c)[1] = c
    BY DEF SessionOf
  <2>4. \/ UNCHANGED outCh
        \/ \E x : outCh' = [outCh EXCEPT ![c] = Append(outCh[c], x)]
    BY <2>1, <2>3 DEF Send
  <2>5. /\ \A d \in Conns \ {c} : outCh'[d] = outCh[d]
        /\ Len(outCh'[c]) \in {n, n + 1}
    <3>1. outCh[c] \in Seq([session : Nat, number : Nat \ {0}]) /\ c \in DOMAIN outCh
      BY <1>3 DEF ChannelTypes
    <3>2. \A x : Len(Append(outCh[c], x)) = n + 1
      BY <1>4, <3>1, AppendIs
    <3>3. ASSUME NEW x, outCh' = [outCh EXCEPT ![c] = Append(outCh[c], x)]
          PROVE  outCh'[c] = Append(outCh[c], x) /\ \A d \in Conns \ {c} : outCh'[d] = outCh[d]
      BY <1>3, <3>1, <3>3 DEF ChannelTypes
    <3>4. QED
      BY <1>4, <2>4, <3>2, <3>3
  <2>6. PICK m \in Nat : m = Len(outCh'[c]) /\ m <= n + 1
    BY <2>5
  <2>7. a = 4 /\ ConnLeft'[c] = 2 + m
    BY <1>5, <2>1, <2>2, <2>6, PlaceLeftIs DEF ConnLeft
  <2>8. 2 + m \in Nat /\ 2 + m < a + n
    BY <2>6, <2>7
  <2>9. Filling' = Filling
    BY <2>1, FillingStays
  <2>10. QED
    BY <1>1, <1>2, <1>6, <2>2, <2>5, <2>7, <2>8, <2>9, ConnNearer
<1>9. CASE Close(c)
  <2>1. conn[c].at = "close" /\ conn' = [conn EXCEPT ![c] = Place("ended", 0)]
        /\ outCh' = [outCh EXCEPT ![c] = <<>>] /\ UNCHANGED order
    BY <1>9 DEF Close
  <2>2. conn'[c].at = "ended" /\ \A d \in Conns \ {c} : conn'[d] = conn[d]
    BY <1>3, <2>1 DEF Place
  <2>3. outCh'[c] = <<>> /\ \A d \in Conns \ {c} : outCh'[d] = outCh[d]
    BY <1>3, <2>1 DEF ChannelTypes
  <2>4. a = 1 /\ ConnLeft'[c] = 0
    BY <1>5, <2>1, <2>2, <2>3, PlaceLeftIs DEF ConnLeft
  <2>5. 0 < a + n
    BY <2>4
  <2>6. Filling' = Filling
    BY <2>1, FillingStays
  <2>7. QED
    BY <1>1, <1>2, <1>6, <2>2, <2>3, <2>4, <2>5, <2>6, ConnNearer
<1>10. QED
  BY <1>7, <1>8, <1>9 DEF HandleConnection, Serve, Client, HandleMessage

(* A message is written. *)
LEMMA WriteNearer ==
  ASSUME IInv, NEW c \in Conns, Write(c)
  PROVE  StopLeft' < StopLeft
<1>1. IInv' /\ ChannelTypes
  BY WriteStep DEF IInv, Types
<1>2. /\ UNCHANGED <<accepting, monitor, conn, order>>
      /\ outCh[c] # <<>> /\ outCh' = [outCh EXCEPT ![c] = Tail(outCh[c])]
  BY DEF Write, WriterFrame
<1>3. outCh[c] \in Seq([session : Nat, number : Nat \ {0}]) /\ c \in DOMAIN outCh
  BY <1>1 DEF ChannelTypes
<1>4. PICK n \in Nat : n = Len(outCh[c]) /\ n >= 1
  <2>1. Len(outCh[c]) \in Nat /\ Len(outCh[c]) # 0
    BY <1>2, <1>3, EmptySeq
  <2>2. QED
    BY <2>1
<1>5. Len(outCh'[c]) = n - 1 /\ \A d \in Conns \ {c} : outCh'[d] = outCh[d]
  BY <1>2, <1>3, <1>4
<1>6. PICK a \in Nat : a = PlaceLeft(conn[c].at)
  BY LocalFacts, PlaceLeftIs DEF IInv, Types
<1>7. ConnLeft[c] = a + n /\ ConnLeft'[c] = a + (n - 1)
  BY <1>2, <1>4, <1>5, <1>6 DEF ConnLeft
<1>8. a + (n - 1) \in Nat /\ a + (n - 1) < a + n
  BY <1>4
<1>9. Filling' = Filling
  BY <1>2 DEF Filling
<1>10. QED
  BY <1>1, <1>2, <1>5, <1>7, <1>8, <1>9, ConnNearer

(* A connection that comes in while Stop is at work is the last.            *)
LEMMA AcceptNearer ==
  ASSUME IInv, ctxDone, AcceptLoop
  PROVE  StopLeft' < StopLeft
<1>1. PICK s \in Nat : s = SumFunctionOnSet(ConnLeft, Conns)
  BY LeftTypes
<1>2. PICK q \in Nat : q = MonitorLeft + Cardinality(Filling)
  BY LeftTypes
<1>3. MonitorLeft \in Nat /\ Cardinality(Filling) \in Nat
  BY LeftTypes
<1>4. UNCHANGED <<monitor, order, outCh>> /\ accepting /\ ~accepting'
  BY DEF AcceptLoop, Accept, AcceptExit, ConnFrame
<1>5. MonitorLeft' = MonitorLeft /\ Filling' = Filling /\ AcceptLeft = 3 /\ AcceptLeft' = 0
  BY <1>4 DEF MonitorLeft, Filling, AcceptLeft
<1>6. StopLeft = s + 3 + q
  BY <1>1, <1>2, <1>3, <1>5 DEF StopLeft
<1>7. ASSUME NEW k \in Nat, k <= 2, SumFunctionOnSet(ConnLeft, Conns)' = s + k
      PROVE  StopLeft' < StopLeft
  <2>1. StopLeft' = (s + k) + 0 + q
    BY <1>2, <1>3, <1>5, <1>7 DEF StopLeft
  <2>2. QED
    BY <1>6, <1>7, <2>1
<1>8. CASE AcceptExit
  <2>1. UNCHANGED conn
    BY <1>8 DEF AcceptExit
  <2>2. ConnLeft' = ConnLeft
    BY <1>4, <2>1 DEF ConnLeft
  <2>3. SumFunctionOnSet(ConnLeft, Conns)' = s + 0
    BY <1>1, <2>2
  <2>4. QED
    BY <1>7, <2>3
<1>9. ASSUME NEW c \in Conns, Accept(c), ConnFrame PROVE StopLeft' < StopLeft
  <2>1. IInv' /\ conn[c].at = "unopened" /\ LoopsBack(c)
    BY <1>9, AcceptStep DEF Accept
  <2>2. conn'[c].at = "delete" /\ \A d \in Conns \ {c} : conn'[d] = conn[d]
    BY <2>1, PlacesAfter
  <2>3. PICK n \in Nat : n = Len(outCh[c])
    <3>1. outCh[c] \in Seq([session : Nat, number : Nat \ {0}])
      BY DEF IInv, Types, ChannelTypes
    <3>2. QED
      BY <3>1
  <2>4. ConnLeft[c] = 0 + n /\ ConnLeft'[c] = 2 + n
    BY <1>4, <2>1, <2>2, <2>3, PlaceLeftIs DEF ConnLeft
  <2>5. SumFunctionOnSet(ConnLeft, Conns)' = s - ConnLeft[c] + ConnLeft'[c]
    BY <1>1, <1>4, <2>1, <2>2, OneConnLeft
  <2>6. SumFunctionOnSet(ConnLeft, Conns)' = s + 2
    BY <2>4, <2>5
  <2>7. QED
    BY <1>7, <2>6
<1>10. QED
  BY <1>8, <1>9 DEF AcceptLoop

(* The monitor: each walk of the table ends, without waiting for a client.  *)
LEMMA MonitorNearer ==
  ASSUME IInv, ~panicked, HeartbeatMonitor
  PROVE  \/ StopLeft' < StopLeft
         \/ Tick /\ StopLeft' <= StopLeft + 3 * Cardinality(CompIDs) + 1
         \/ panicked'
<1>1. /\ monitor \in MonitorRecords /\ ChannelTypes /\ TableInv /\ SessionTypes
      /\ sessions \subseteq Made /\ IInv'
  BY MonitorStep DEF IInv, Types, TableTypes
<1>2. /\ UNCHANGED <<accepting, conn, order>>
      /\ AcceptLeft' = AcceptLeft /\ Filling' = Filling
  BY DEF HeartbeatMonitor, MonitorFrame, AcceptLeft, Filling
<1>3. PICK s \in Nat : s = SumFunctionOnSet(ConnLeft, Conns)
  BY LeftTypes
<1>4. PICK q \in Nat : q = AcceptLeft + Cardinality(Filling)
  BY LeftTypes
<1>5. AcceptLeft \in Nat /\ Cardinality(Filling) \in Nat
  BY LeftTypes
<1>6. ASSUME NEW k \in Nat, NEW m \in Nat, NEW j \in Nat, MonitorLeft = m, MonitorLeft' = j,
             SumFunctionOnSet(ConnLeft, Conns)' = s + k
      PROVE  StopLeft = s + m + q /\ StopLeft' = (s + k) + j + q
  <2>1. StopLeft = s + q + m
    BY <1>3, <1>4, <1>5, <1>6 DEF StopLeft
  <2>2. StopLeft' = (s + k) + q + j
    BY <1>2, <1>4, <1>5, <1>6 DEF StopLeft
  <2>3. QED
    BY <2>1, <2>2
<1>7. UNCHANGED outCh => SumFunctionOnSet(ConnLeft, Conns)' = s + 0
  <2>1. UNCHANGED outCh => ConnLeft' = ConnLeft
    BY <1>2 DEF ConnLeft
  <2>2. QED
    BY <1>3, <2>1
<1>8. PICK n \in Nat : n = Cardinality(monitor.due)
  BY TableSize
<1>9. CASE Tick
  <2>1. /\ monitor.at = "select" /\ UNCHANGED outCh
        /\ monitor'.at = "scan" /\ monitor'.due = sessions
    BY <1>1, <1>9 DEF Tick, MonitorRecords
  <2>2. PICK l \in Nat : l = Cardinality(sessions) /\ l <= Cardinality(CompIDs)
    BY TableSize
  <2>3. MonitorLeft = 1 /\ MonitorLeft' = 3 * l + 2
    BY <2>1, <2>2 DEF MonitorLeft
  <2>4. 3 * l + 2 \in Nat
    BY <2>2
  <2>5. StopLeft = s + 1 + q /\ StopLeft' = (s + 0) + (3 * l + 2) + q
    BY <1>6, <1>7, <2>1, <2>3, <2>4
  <2>6. PICK k \in Nat : k = Cardinality(CompIDs)
    BY TableSize
  <2>7. l <= k
    BY <2>2, <2>6
  <2>8. StopLeft' <= StopLeft + 3 * k + 1
    BY <2>5, <2>7
  <2>9. QED
    BY <1>9, <2>6, <2>8
<1>10. CASE ScanEnds \/ MonitorExit
  <2>1. /\ \/ monitor.at = "scan" /\ monitor'.at = "select"
           \/ monitor.at = "select" /\ monitor'.at = "exited"
        /\ UNCHANGED outCh
    BY <1>1, <1>10 DEF ScanEnds, MonitorExit, MonitorRecords
  <2>2. \/ MonitorLeft = 3 * n + 2 /\ MonitorLeft' = 1
        \/ MonitorLeft = 1 /\ MonitorLeft' = 0
    BY <1>8, <2>1 DEF MonitorLeft
  <2>3. 3 * n + 2 \in Nat
    BY <1>8
  <2>4. \/ StopLeft = s + (3 * n + 2) + q /\ StopLeft' = (s + 0) + 1 + q
        \/ StopLeft = s + 1 + q /\ StopLeft' = (s + 0) + 0 + q
    BY <1>6, <1>7, <2>1, <2>2, <2>3
  <2>5. StopLeft' < StopLeft
    BY <1>8, <2>4
  <2>6. QED
    BY <2>5
<1>11. ASSUME NEW k \in monitor.due, Overdue(k) PROVE StopLeft' < StopLeft
  <2>1. /\ monitor.at = "scan" /\ UNCHANGED outCh
        /\ monitor'.at = "enqueue" /\ monitor'.due = monitor.due \ {k}
    BY <1>11 DEF Overdue
  <2>2. n >= 1 /\ Cardinality(monitor.due \ {k}) = n - 1
    <3>1. IsFiniteSet(monitor.due) /\ k \in monitor.due
      BY TableSize
    <3>2. Cardinality(monitor.due) # 0
      BY <3>1, FS_EmptySet
    <3>3. Cardinality(monitor.due \ {k}) = Cardinality(monitor.due) - 1
      BY <3>1, FS_RemoveElement
    <3>4. QED
      BY <1>8, <3>2, <3>3
  <2>3. MonitorLeft = 3 * n + 2 /\ MonitorLeft' = 3 * (n - 1) + 4
    BY <1>8, <2>1, <2>2 DEF MonitorLeft
  <2>4. 3 * n + 2 \in Nat /\ 3 * (n - 1) + 4 \in Nat
    BY <1>8, <2>2
  <2>5. StopLeft = s + (3 * n + 2) + q /\ StopLeft' = (s + 0) + (3 * (n - 1) + 4) + q
    BY <1>6, <1>7, <2>1, <2>3, <2>4
  <2>6. QED
    BY <2>5
<1>12. ASSUME MonitorSend, ~Closed(monitor.session) PROVE StopLeft' < StopLeft
  <2>1. PICK k : k = monitor.session
    OBVIOUS
  <2>2. /\ monitor.at = "enqueue" /\ Send(k, monitor.number)
        /\ monitor'.at = "scan" /\ monitor'.due = monitor.due
    BY <1>1, <1>12, <2>1 DEF MonitorSend, MonitorRecords
  <2>3. k[1] \in Conns
    BY <1>1, <2>1, <2>2, MadeFacts DEF TableInv
  <2>4. PICK c \in Conns : c = k[1]
    BY <2>3
  <2>5. \/ UNCHANGED outCh
        \/ \E x : outCh' = [outCh EXCEPT ![c] = Append(outCh[c], x)]
    BY <2>2, <2>4 DEF Send
  <2>6. outCh[c] \in Seq([session : Nat, number : Nat \ {0}]) /\ c \in DOMAIN outCh
    BY <1>1 DEF ChannelTypes
  <2>7. PICK l \in Nat : l = Len(outCh[c])
    BY <2>6
  <2>8. /\ \A d \in Conns \ {c} : outCh'[d] = outCh[d]
        /\ Len(outCh'[c]) \in {l, l + 1}
    <3>1. \A x : Len(Append(outCh[c], x)) = l + 1
      BY <2>6, <2>7, AppendIs
    <3>2. ASSUME NEW x, outCh' = [outCh EXCEPT ![c] = Append(outCh[c], x)]
          PROVE  outCh'[c] = Append(outCh[c], x) /\ \A d \in Conns \ {c} : outCh'[d] = outCh[d]
      BY <1>1, <2>6, <3>2 DEF ChannelTypes
    <3>3. QED
      BY <2>5, <2>7, <3>1, <3>2
  <2>9. PICK e \in {0, 1} : Len(outCh'[c]) = l + e
    <3>1. l + 0 = l
      BY <2>7
    <3>2. QED
      BY <2>8, <3>1
  <2>10. PICK a \in Nat : a = PlaceLeft(conn[c].at)
    BY LocalFacts, PlaceLeftIs DEF IInv, Types
  <2>11. ConnLeft[c] = a + l /\ ConnLeft'[c] = a + (l + e)
    BY <1>2, <2>7, <2>9, <2>10 DEF ConnLeft
  <2>12. SumFunctionOnSet(ConnLeft, Conns)' = s - (a + l) + (a + (l + e))
    BY <1>1, <1>2, <1>3, <2>8, <2>11, OneConnLeft
  <2>13. SumFunctionOnSet(ConnLeft, Conns)' = s + e
    BY <2>7, <2>10, <2>12
  <2>14. MonitorLeft = 3 * n + 4 /\ MonitorLeft' = 3 * n + 2
    BY <1>8, <2>2 DEF MonitorLeft
  <2>15. 3 * n + 4 \in Nat /\ 3 * n + 2 \in Nat /\ e \in Nat
    BY <1>8
  <2>16. StopLeft = s + (3 * n + 4) + q /\ StopLeft' = (s + e) + (3 * n + 2) + q
    BY <1>6, <2>13, <2>14, <2>15
  <2>17. e <= 1
    OBVIOUS
  <2>18. QED
    BY <1>8, <2>15, <2>16, <2>17
<1>13. ASSUME MonitorSend, Closed(monitor.session) PROVE panicked'
  BY <1>13 DEF MonitorSend
<1>14. QED
  BY <1>9, <1>10, <1>11, <1>12, <1>13 DEF HeartbeatMonitor

(* A fill begins, or is finished. *)
LEMMA ExchangeNearer ==
  ASSUME IInv, Exchange
  PROVE  StopLeft' < StopLeft \/ StopLeft' = StopLeft + 1
<1>1. OrderTypes /\ IsFiniteSet(Filling) /\ Cardinality(Filling) \in Nat
  BY LeftTypes DEF IInv, Types
<1>2. UNCHANGED <<accepting, conn, outCh, monitor>>
  BY DEF Exchange, ExchangeFrame
<1>3. ConnLeft' = ConnLeft /\ AcceptLeft' = AcceptLeft /\ MonitorLeft' = MonitorLeft
  BY <1>2 DEF ConnLeft, AcceptLeft, MonitorLeft
<1>4. PICK s \in Nat : s = SumFunctionOnSet(ConnLeft, Conns) + AcceptLeft + MonitorLeft
  BY LeftTypes
<1>5. StopLeft = s + Cardinality(Filling) /\ StopLeft' = s + Cardinality(Filling')
  BY <1>3, <1>4 DEF StopLeft
<1>6. PICK o \in DOMAIN order : Settle(o) \/ \E n \in 1..Quantity : Claim(o, n)
  BY DEF Exchange
<1>7. CASE Settle(o)
  <2>1. /\ order[o].at = "filling" /\ order'[o].at # "filling"
        /\ DOMAIN order' = DOMAIN order /\ \A p \in DOMAIN order : p # o => order'[p] = order[p]
    <3>1. PICK v, w : /\ w \in {"done", "resting"}
                      /\ order' = [order EXCEPT ![o].status = v, ![o].at = w]
      BY <1>7 DEF Settle
    <3>2. order[o] \in OrderRecords
      BY <1>1, OrderFacts
    <3>3. /\ order'[o].at = w /\ DOMAIN order' = DOMAIN order
          /\ \A p \in DOMAIN order : p # o => order'[p] = order[p]
      BY <3>1, <3>2 DEF OrderRecords
    <3>4. QED
      BY <1>7, <3>1, <3>3 DEF Settle
  <2>2. Filling' = Filling \ {o} /\ o \in Filling
    BY <2>1 DEF Filling
  <2>3. Cardinality(Filling') = Cardinality(Filling) - 1
    BY <1>1, <2>2, FS_RemoveElement
  <2>4. StopLeft' < StopLeft
    BY <1>1, <1>4, <1>5, <2>3
  <2>5. QED
    BY <2>4
<1>8. ASSUME NEW n \in 1..Quantity, Claim(o, n) PROVE StopLeft' = StopLeft + 1
  <2>1. /\ order[o].at = "resting" /\ order'[o].at = "filling"
        /\ DOMAIN order' = DOMAIN order /\ \A p \in DOMAIN order : p # o => order'[p] = order[p]
    <3>1. order[o] \in OrderRecords
      BY <1>1, OrderFacts
    <3>2. QED
      BY <1>8, <3>1 DEF Claim, OrderRecords
  <2>2. Filling' = Filling \cup {o} /\ o \notin Filling
    BY <2>1 DEF Filling
  <2>3. Cardinality(Filling') = Cardinality(Filling) + 1
    BY <1>1, <2>2, FS_AddElement
  <2>4. QED
    BY <1>1, <1>4, <1>5, <2>3
<1>9. QED
  BY <1>6, <1>7, <1>8

(* Once the context is done, only a tick and a fill at the exchange put off *)
(* the end of Stop (gateway.go), each by a fixed number of steps: not the   *)
(* clients, however much they send or little they read, and not one that    *)
(* connects while Stop is at work.                                          *)
THEOREM StopIsBounded == Spec => [](StopLeft \in Nat) /\ StopBounded
<1>1. IInv => StopLeft \in Nat
  BY LeftTypes
<1>2. ASSUME IInv, Next, ctxDone PROVE StopNearer
  <2>1. ~panicked
    BY <1>2 DEF Next
  <2>2. ASSUME Stop PROVE FALSE
    BY <1>2, <2>2 DEF Stop
  <2>3. CASE AcceptLoop
    BY <1>2, <2>3, AcceptNearer DEF StopNearer
  <2>4. CASE HeartbeatMonitor
    BY <1>2, <2>1, <2>4, MonitorNearer DEF StopNearer
  <2>5. CASE Exchange
    BY <1>2, <2>5, ExchangeNearer DEF StopNearer
  <2>6. ASSUME NEW c \in Conns, HandleConnection(c) PROVE StopNearer
    BY <1>2, <2>6, ServeNearer DEF StopNearer
  <2>7. ASSUME NEW c \in Conns, Write(c) PROVE StopNearer
    BY <1>2, <2>7, WriteNearer DEF StopNearer
  <2>8. QED
    BY <1>2, <2>2, <2>3, <2>4, <2>5, <2>6, <2>7 DEF Next
<1>3. IInv /\ [Next]_vars => [ctxDone => StopNearer]_vars
  BY <1>2
<1>4. QED
  BY <1>1, <1>3, Inductive, PTL DEF Spec, StopBounded

(* A step of a goroutine, or of its client, is its own; what it handles     *)
(* next it has read, or was handling.                                       *)
LEMMA HandlesWhatIsRead ==
  ASSUME IInv, NEW c \in Conns, HandleConnection(c) \/ (Accept(c) /\ ConnFrame)
  PROVE  /\ \A d \in Conns \ {c} : conn'[d] = conn[d]
         /\ conn'[c].at \in {"register", "handle"}
              => \/ conn'[c].request \in Requests
                 \/ conn[c].at = "register" /\ conn'[c].request = conn[c].request
<1>1. conn \in [Conns -> Locals(DOMAIN order)]
  BY DEF IInv, Types, LocalTypes
<1> DEFINE Alone == \A d \in Conns \ {c} : conn'[d] = conn[d]
           Told == \/ conn'[c].at \notin {"register", "handle"}
                   \/ conn'[c].request \in Requests
                   \/ conn[c].at = "register" /\ conn'[c].request = conn[c].request
<1>2. ASSUME NEW m \in Messages, Read(c, m) PROVE Alone /\ Told
  <2>1. PICK at, n : conn' = [conn EXCEPT ![c].at = at, ![c].session = n, ![c].request = m.request]
    BY <1>2 DEF Read
  <2>2. conn'[c].request = m.request /\ Alone
    BY <1>1, <2>1 DEF Locals
  <2>3. QED
    BY <2>2 DEF Messages
<1>3. CASE Register(c)
  <2>1. conn[c].at = "register" /\ conn'[c].request = conn[c].request /\ Alone
    BY <1>1, <1>3 DEF Register, Goes, Locals
  <2>2. QED
    BY <2>1
<1>4. ASSUME LoopsBack(c) PROVE Alone /\ Told
  <2>1. conn'[c].at \in {"read", "delete"} /\ Alone
    BY <1>1, <1>4 DEF LoopsBack, Place, LoopPlace
  <2>2. QED
    BY <2>1
<1>5. ASSUME NEW b, TakeNumber(c, b) PROVE Alone /\ Told
  <2>1. PICK n : conn' = [conn EXCEPT ![c].at = "enqueue", ![c].number = n]
    BY <1>5 DEF TakeNumber
  <2>2. conn'[c].at = "enqueue" /\ Alone
    BY <1>1, <2>1 DEF Locals
  <2>3. QED
    BY <2>2
<1>6. ASSUME NEW at \in {"delete", "close", "number"}, Goes(c, at) PROVE Alone /\ Told
  <2>1. conn'[c].at = at /\ Alone
    BY <1>1, <1>6 DEF Goes, Locals
  <2>2. QED
    BY <2>1
<1>7. CASE \/ Accept(c) \/ Skip(c) \/ Ignore(c) \/ CancelSucceeds(c) \/ Enqueue(c)
  <2>1. LoopsBack(c)
    BY <1>7 DEF Accept, Skip, Ignore, CancelSucceeds, Enqueue
  <2>2. QED
    BY <1>4, <2>1
<1>8. CASE Timeout(c)
  <2>1. TakeNumber(c, TRUE) \/ LoopsBack(c)
    BY <1>8 DEF Timeout
  <2>2. QED
    BY <1>4, <1>5, <2>1
<1>9. CASE HandleSession(c) \/ Reject(c) \/ Number(c)
  <2>1. TakeNumber(c, TRUE) \/ TakeNumber(c, FALSE) \/ TakeNumber(c, LoggedIn(c))
    BY <1>9 DEF HandleSession, Reject, Number
  <2>2. QED
    BY <1>5, <2>1
<1>10. CASE ReadFails(c) \/ Delete(c) \/ CancelRefused(c)
  <2>1. Goes(c, "delete") \/ Goes(c, "close") \/ Goes(c, "number")
    BY <1>10 DEF ReadFails, Delete, CancelRefused
  <2>2. QED
    BY <1>6, <2>1
<1>11. CASE Close(c)
  <2>1. conn'[c].at = "ended" /\ Alone
    BY <1>1, <1>11 DEF Close, Place
  <2>2. QED
    BY <2>1
<1>12. ASSUME NEW filled \in 0..Quantity, NEW limit \in BOOLEAN, SubmitOrder(c, filled, limit)
       PROVE  Alone /\ Told
  <2>1. PICK n : conn' = [conn EXCEPT ![c].at = "report", ![c].order = n]
    BY <1>12 DEF SubmitOrder
  <2>2. conn'[c].at = "report" /\ Alone
    BY <1>1, <2>1 DEF Locals
  <2>3. QED
    BY <2>2
<1>13. CASE ReadReport(c)
  <2>1. \/ \E v : conn' = [conn EXCEPT ![c].at = "filled", ![c].status = v]
        \/ \E v : conn' = [conn EXCEPT ![c].at = "number", ![c].filled = v]
    BY <1>13 DEF ReadReport
  <2>2. conn'[c].at \in {"filled", "number"} /\ Alone
    BY <1>1, <2>1 DEF Locals
  <2>3. QED
    BY <2>2
<1>14. CASE FindOrder(c)
  <2>1. PICK n : conn' = [conn EXCEPT ![c].at = "cancel", ![c].order = n]
    BY <1>14 DEF FindOrder
  <2>2. conn'[c].at = "cancel" /\ Alone
    BY <1>1, <2>1 DEF Locals
  <2>3. QED
    BY <2>2
<1>15. Alone /\ Told
  <2>1. CASE HandleMessage(c)
    BY <1>7, <1>9, <1>10, <1>12, <1>13, <1>14, <2>1 DEF HandleMessage
  <2>2. CASE ~HandleMessage(c)
    BY <1>2, <1>3, <1>7, <1>8, <1>10, <1>11, <2>2 DEF HandleConnection, Serve, Client
  <2>3. QED
    BY <2>1, <2>2
<1>16. QED
  BY <1>15

(* What a goroutine handles stays a message of its client.                  *)
LEMMA RequestStep ==
  ASSUME IInv, RequestInv, [Next]_vars
  PROVE  RequestInv'
<1> SUFFICES ASSUME NEW c \in Conns, conn'[c].at \in {"register", "handle"}
             PROVE  conn'[c].request \in Requests
  BY DEF RequestInv, Request
<1>1. conn[c].at \in {"register", "handle"} => conn[c].request \in Requests
  BY DEF RequestInv, Request
<1>2. CASE conn'[c] = conn[c]
  BY <1>1, <1>2
<1>3. ASSUME NEW d \in Conns, HandleConnection(d) \/ (Accept(d) /\ ConnFrame)
      PROVE  conn'[c].request \in Requests
  <2>1. CASE d = c
    BY <1>1, <1>3, <2>1, HandlesWhatIsRead
  <2>2. CASE d # c
    <3>1. conn'[c] = conn[c]
      BY <1>3, <2>2, HandlesWhatIsRead
    <3>2. QED
      BY <1>2, <3>1
  <2>3. QED
    BY <2>1, <2>2
<1>4. CASE UNCHANGED conn
  BY <1>2, <1>4
<1>5. QED
  BY <1>3, <1>4 DEF Next, vars, Stop, AcceptLoop, AcceptExit, HeartbeatMonitor, MonitorFrame,
                    Exchange, ExchangeFrame, Write, WriterFrame

(* When Stop was called and no goroutine of the gateway, nor the exchange,  *)
(* has a step left to do, Stop has what it waits for: nobody waits for      *)
(* another that has ended (gateway.go: wg.Wait).                            *)
THEOREM IdleMeansStopped == Spec => []StopsWhenIdle
<1>1. Init => RequestInv
  BY DEF Init, RequestInv, Place
<1>2. IInv /\ RequestInv => StopsWhenIdle
  <2> SUFFICES ASSUME IInv, RequestInv, ctxDone, NothingToDo PROVE Stopped
    BY DEF StopsWhenIdle
  <2>1. ~accepting /\ monitor.at = "exited"
    BY DEF NothingToDo
  <2>2. TableFree
    BY <2>1 DEF TableFree
  <2>3. ASSUME NEW c \in Conns PROVE conn[c].at \in {"unopened", "ended"}
    <3>1. Waiting(c)
      BY DEF NothingToDo
    <3>2. conn[c].at = "handle" => Request(c).kind \in SessionKinds \cup OrderKinds
      BY DEF RequestInv, Requests
    <3>3. ASSUME conn[c].at = "cancel" PROVE Refused(c) \/ order[conn[c].order].at = "resting"
      <4>1. conn[c].order # 0
        BY <3>3 DEF IInv, OrderInv, ReportInv, ReportOf
      <4>2. conn[c].order \in DOMAIN order
        BY <4>1, LocalFacts DEF IInv, Types
      <4>3. order[conn[c].order].at \in {"resting", "filling", "done"}
        BY <4>2, OrderFacts DEF IInv, Types, OrderRecords
      <4>4. order[conn[c].order].at # "filling"
        BY <4>2 DEF NothingToDo
      <4>5. QED
        BY <4>3, <4>4 DEF Refused
    <3>4. QED
      BY <2>2, <3>1, <3>2, <3>3 DEF Waiting
  <2>4. QED
    BY <2>1, <2>3 DEF Stopped
<1>3. IInv /\ RequestInv /\ [Next]_vars => RequestInv'
  BY RequestStep
<1>4. QED
  BY <1>1, <1>2, <1>3, Inductive, PTL DEF Spec
=============================================================================
