------------------------------ MODULE Shutdown ------------------------------
(***************************************************************************)
(* How main stops the program (main.go), composed with the publisher: the  *)
(* publisher's context is cancelled first, then main waits for the         *)
(* goroutines of the algorithmic engine and of the gateway, which may be   *)
(* inside an order book, waiting for room in the trade channel.            *)
(***************************************************************************)
EXTENDS Publisher

CONSTANTS
  AlgoSenders,       (* goroutines of executeChild                         *)
  GatewaySenders     (* goroutines of handleConnection                     *)

ASSUME ShutdownAssumption ==
  /\ IsFiniteSet(AlgoSenders) /\ IsFiniteSet(GatewaySenders)
  /\ AlgoSenders \cap GatewaySenders = {}

Senders == AlgoSenders \cup GatewaySenders

VARIABLES
  sender,            (* what each goroutine is about                       *)
  main               (* what main waits for, or does next                  *)

vars == <<publisherVars, sender, main>>

Init ==
  /\ PublisherInit
  /\ sender = [s \in Senders |-> "idle"]
  /\ main = "running"

-----------------------------------------------------------------------------
(* The goroutines that submit orders *)

Becomes(s, what) == sender' = [sender EXCEPT ![s] = what] /\ UNCHANGED main

(* An order is submitted that trades, within the bound of the trades.       *)
Submit(s) ==
  /\ sender[s] = "idle"
  /\ sent + Cardinality({r \in Senders : sender[r] = "sending"}) < MaxTrades
  /\ Becomes(s, "sending")
  /\ UNCHANGED publisherVars

(* Its trade is sent; a channel that was closed meanwhile would be a panic. *)
SendTrade(s) ==
  /\ sender[s] = "sending"
  /\ ~closed
  /\ Send
  /\ Becomes(s, "idle")

(* ae.cancel was called: no goroutine of executeChild is started again, and *)
(* those that are idle end.  A connection ends when it sees its context.    *)
End(s) ==
  /\ sender[s] = "idle"
  /\ IF s \in AlgoSenders THEN main \notin {"running", "http"} ELSE ctxDone
  /\ Becomes(s, "ended")
  /\ UNCHANGED publisherVars

-----------------------------------------------------------------------------
(* main, from the signal on *)

Ended(senders) == \A s \in senders : sender[s] = "ended"

(* Mutant of Signal: the context is not cancelled. *)
SignalWithoutCancel ==
  /\ main = "running"
  /\ main' = "http"
  /\ UNCHANGED <<publisherVars, sender>>

Signal ==
  /\ main = "running"
  /\ CancelContext
  /\ main' = "http"
  /\ UNCHANGED sender

(* algoAPI.Stop returns after five seconds at the latest; then              *)
(* algoEngine.Stop calls ae.cancel.                                         *)
StopHTTP ==
  /\ main = "http"
  /\ main' = "algo"
  /\ UNCHANGED <<publisherVars, sender>>

(* ae.wg.Wait *)
StopAlgo ==
  /\ main = "algo"
  /\ Ended(AlgoSenders)
  /\ main' = "gateway"
  /\ UNCHANGED <<publisherVars, sender>>

(* Mutant of StopGateway: main does not wait for the connections.           *)
StopGatewayAtOnce ==
  /\ main = "gateway"
  /\ main' = "close"
  /\ UNCHANGED <<publisherVars, sender>>

(* Mutant of StopGateway: it waits for a connection that does not end.      *)
StopGatewayNever ==
  /\ main = "gateway"
  /\ Ended(GatewaySenders)
  /\ UNCHANGED vars

(* g.wg.Wait, and then me.Stop, which only drops the books.                 *)
StopGateway ==
  /\ main = "gateway"
  /\ Ended(GatewaySenders)
  /\ main' = "close"
  /\ UNCHANGED <<publisherVars, sender>>

CloseTradeCh ==
  /\ main = "close"
  /\ CloseChannel
  /\ main' = "stopped"
  /\ UNCHANGED sender

Main == Signal \/ StopHTTP \/ StopAlgo \/ StopGateway \/ CloseTradeCh

Publish == PublishLoop /\ UNCHANGED <<sender, main>>

Next ==
  \/ Main
  \/ Publish
  \/ \E s \in Senders : Submit(s) \/ SendTrade(s) \/ End(s)

Spec == Init /\ [][Next]_vars

(* Every goroutine that can run does, and a send is served when there is    *)
(* room again and again; nobody has to send the signal.                     *)
Fairness ==
  /\ PublisherFairness
  /\ WF_vars(Main /\ main # "running")
  /\ \A s \in Senders : SF_vars(SendTrade(s)) /\ WF_vars(End(s) /\ main # "running")

FairSpec == Spec /\ Fairness

-----------------------------------------------------------------------------
(* Types; main's place agrees with what it did to the context and to the    *)
(* channel.                                                                 *)
TypeOK ==
  /\ PublisherTypeOK
  /\ sender \in [Senders -> {"idle", "sending", "ended"}]
  /\ main \in {"running", "http", "algo", "gateway", "close", "stopped"}
  /\ ctxDone <=> main # "running"
  /\ closed <=> main = "stopped"

(* Nobody sends on the closed trade channel: when main closes it, every     *)
(* goroutine that may be inside an order book has ended.                    *)
NoSendOnClosed == closed => Ended(Senders)

(* The shutdown hangs in one way only: the trade channel is full for good.  *)
HangsOnlyWhenFull ==
  \/ main # "running" ~> main = "stopped"
  \/ <>[](Len(tradeCh) = ChSize)

(* What the last line of main says: "HFT Engine stopped". *)
ShutdownEnds == main # "running" ~> main = "stopped"
=============================================================================
