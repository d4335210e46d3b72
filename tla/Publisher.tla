------------------------------ MODULE Publisher ------------------------------
(***************************************************************************)
(* The trade publisher (transport/publisher.go): one goroutine that takes  *)
(* trades off the channel the order books send on, gathers them in batches *)
(* and writes each batch to a Redis stream in one pipeline, which it tries *)
(* again, as a whole, when it fails.  Trades are numbered in the order in  *)
(* which they enter the channel.                                           *)
(*                                                                         *)
(* Redis may execute any part of a pipeline that fails, and every XADD may *)
(* remove the oldest entries of the stream.  What it removes stays in the  *)
(* variable stream, up to trimmed: later entries keep their places.        *)
(***************************************************************************)
EXTENDS Integers, Sequences, FiniteSets, SequencesExt

CONSTANTS
  MaxTrades,     (* bound of the trades                                    *)
  ChSize,        (* the size of the trade channel: 65536 in main.go        *)
  BatchSize,     (* 100                                                    *)
  Retries,       (* 3                                                      *)
  MaxLen,        (* of the stream: 100000, observed approximately          *)
  MaxFaults      (* bound of the faults of Redis and of the network        *)

ASSUME PublisherAssumption ==
  /\ MaxTrades \in Nat
  /\ ChSize \in Nat \ {0}
  /\ BatchSize \in Nat \ {0}
  /\ Retries \in Nat
  /\ MaxLen \in Nat \ {0}
  /\ MaxFaults \in Nat

VARIABLES
  sent,          (* the number of trades that entered the channel          *)
  tradeCh,       (* the trades in the channel                              *)
  closed,        (* the channel is closed                                  *)
  ctxDone,       (* the context of Start is cancelled                      *)
  at,            (* where publishLoop is                                   *)
  leaving,       (* it returns after this flush                            *)
  batch,
  retried,       (* how often the pipeline failed in this flush            *)
  stream,        (* the entries added to the Redis stream, ever            *)
  trimmed,       (* how many of them, the oldest, are removed again        *)
  refused,       (* history: a command failed, and a later one of its pipeline did not *)
  lost,          (* history: the trades of batches that were given up      *)
  faults         (* how many faults there were                             *)

publisherVars == <<sent, tradeCh, closed, ctxDone, at, leaving, batch, retried, stream,
                   trimmed, refused, lost, faults>>

PublisherInit ==
  /\ sent = 0
  /\ tradeCh = <<>>
  /\ closed = FALSE
  /\ ctxDone = FALSE
  /\ at = "select"
  /\ leaving = FALSE
  /\ batch = <<>>
  /\ retried = 0
  /\ stream = <<>>
  /\ trimmed = 0
  /\ refused = FALSE
  /\ lost = {}
  /\ faults = 0

-----------------------------------------------------------------------------
(* What the rest of the program does with the channel and the context. *)

EnvironmentFrame == UNCHANGED <<at, leaving, batch, retried, stream, trimmed, refused, lost,
                                faults>>

Send ==
  /\ sent < MaxTrades
  /\ Len(tradeCh) < ChSize
  /\ sent' = sent + 1
  /\ tradeCh' = Append(tradeCh, sent')
  /\ UNCHANGED <<closed, ctxDone>>
  /\ EnvironmentFrame

CancelContext ==
  /\ ~ctxDone
  /\ ctxDone' = TRUE
  /\ UNCHANGED <<sent, tradeCh, closed>>
  /\ EnvironmentFrame

(* main closes the channel last, long after it cancelled the context. *)
CloseChannel ==
  /\ ctxDone
  /\ ~closed
  /\ closed' = TRUE
  /\ UNCHANGED <<sent, tradeCh, ctxDone>>
  /\ EnvironmentFrame

-----------------------------------------------------------------------------
(* publishLoop *)

LoopFrame == UNCHANGED <<sent, closed, ctxDone>>

Flush(last) ==
  /\ at' = "flush"
  /\ leaving' = last
  /\ retried' = 0

(* Mutant of BatchFull: a full batch waits for one more trade.              *)
BatchOverfull == Len(batch) > BatchSize

BatchFull == Len(batch) >= BatchSize

Receive ==
  /\ at = "select"
  /\ tradeCh # <<>>
  /\ tradeCh' = Tail(tradeCh)
  /\ batch' = Append(batch, Head(tradeCh))
  /\ IF BatchFull' THEN Flush(FALSE) ELSE UNCHANGED <<at, leaving, retried>>
  /\ UNCHANGED <<stream, trimmed, refused, lost, faults>>

(* The context is done, or the channel is closed and empty.                 *)
Leave ==
  /\ at = "select"
  /\ ctxDone \/ (closed /\ tradeCh = <<>>)
  /\ IF batch # <<>> THEN Flush(TRUE) ELSE at' = "stopped" /\ UNCHANGED <<leaving, retried>>
  /\ UNCHANGED <<tradeCh, batch, stream, trimmed, refused, lost, faults>>

-----------------------------------------------------------------------------
(* flushBatch and retryFlush *)

FlushEnds ==
  /\ at' = IF leaving THEN "stopped" ELSE "select"
  /\ batch' = <<>>

(* Mutant of GiveUp: the trades are sent to the channel again.              *)
GiveUpToChannel ==
  /\ FlushEnds
  /\ tradeCh' = tradeCh \o batch
  /\ UNCHANGED lost

(* All retries are exhausted: the trades are logged, and lost.              *)
GiveUp ==
  /\ FlushEnds
  /\ lost' = lost \cup ToSet(batch)
  /\ UNCHANGED tradeCh

(* Mutant of Failed: the error of the pipeline is not looked at.            *)
FailedUnseen ==
  /\ retried' = retried + 1
  /\ FlushEnds
  /\ UNCHANGED <<tradeCh, lost>>

(* Exec returned an error: retryFlush, until it has tried often enough.     *)
Failed ==
  /\ retried' = retried + 1
  /\ IF retried < Retries
       THEN at' = "flush" /\ UNCHANGED <<tradeCh, batch, lost>>
       ELSE GiveUp

(* Exec takes a connection, which it does not get once the context is done. *)
Connect ==
  /\ at = "flush"
  /\ IF ctxDone
       THEN Failed
       ELSE at' = "exec" /\ UNCHANGED <<tradeCh, batch, retried, lost>>
  /\ UNCHANGED <<leaving, stream, trimmed, refused, faults>>

(* XADD with MaxLen and Approx: Redis removes oldest entries or leaves them, *)
(* but it always leaves as many as MaxLen.                                  *)
Add(entries) ==
  /\ stream' = stream \o entries
  /\ trimmed' \in {trimmed} \cup (trimmed..(Len(stream') - MaxLen))
  /\ entries = <<>> => UNCHANGED trimmed

PipelineSucceeds ==
  /\ at = "exec"
  /\ Add(batch)
  /\ FlushEnds
  /\ UNCHANGED <<tradeCh, leaving, retried, refused, lost, faults>>

(* Some elements of s, in their order. *)
Increasing(f) == \A i, j \in DOMAIN f : i < j => f[i] < f[j]
Parts(s) ==
  UNION {{[i \in 1..n |-> s[f[i]]] : f \in {g \in [1..n -> DOMAIN s] : Increasing(g)}} :
           n \in 0..Len(s)}

(* Some of the commands were executed: those before the connection broke,   *)
(* or all but those that Redis refused.                                     *)
WritePart ==
  /\ at = "exec"
  /\ faults < MaxFaults
  /\ faults' = faults + 1
  /\ \E part \in Parts(batch) :
       /\ Add(part)
       /\ refused' = (refused \/ ~IsPrefix(part, batch))

PipelineFails ==
  /\ WritePart
  /\ Failed
  /\ UNCHANGED leaving

(* The Redis client sends the pipeline again before it reports an error.    *)
ClientRetries ==
  /\ WritePart
  /\ UNCHANGED <<tradeCh, at, leaving, batch, retried, lost>>

PublishLoop ==
  /\ Receive \/ Leave \/ Connect \/ PipelineSucceeds \/ PipelineFails \/ ClientRetries
  /\ LoopFrame

(* The goroutine runs, and select does not pass over a cancelled context    *)
(* for ever.  Redis may fail up to MaxFaults times.                         *)
PublisherFairness ==
  /\ WF_publisherVars(PublishLoop)
  /\ SF_publisherVars(Leave /\ LoopFrame)

-----------------------------------------------------------------------------
Trades == 1..MaxTrades

(* Types; a flush has a batch, a full one unless it is the last.            *)
PublisherTypeOK ==
  /\ sent \in 0..MaxTrades
  /\ tradeCh \in Seq(Trades) /\ Len(tradeCh) <= ChSize
  /\ closed \in BOOLEAN /\ ctxDone \in BOOLEAN /\ leaving \in BOOLEAN
  /\ at \in {"select", "flush", "exec", "stopped"}
  /\ batch \in Seq(Trades) /\ Len(batch) <= BatchSize
  /\ at \in {"flush", "exec"} /\ ~leaving => Len(batch) = BatchSize
  /\ at = "select" => Len(batch) < BatchSize
  /\ retried \in 0..(Retries + 1)
  /\ stream \in Seq(Trades)
  /\ trimmed \in 0..Len(stream)
  /\ refused \in BOOLEAN
  /\ lost \subseteq Trades
  /\ faults \in 0..MaxFaults

(* What a consumer finds in the stream. *)
Remaining == SubSeq(stream, trimmed + 1, Len(stream))

(* No trade that was read off the channel vanishes without a word, and none *)
(* is repeated without a reason: it is in the batch, until the publisher    *)
(* stops; or it was logged as given up; or it was added to the stream, and  *)
(* is gone from there only when MaxLen newer entries are in its place.  It  *)
(* is added once, and once more per fault at most.  (Of the trades that are *)
(* unread when the publisher stops the code says nothing, nor does this.)   *)
EachAccountedFor ==
  /\ \A t \in 1..(sent - Len(tradeCh)) :
       \/ t \in ToSet(batch) /\ at # "stopped"
       \/ t \in lost \cup ToSet(Remaining)
       \/ t \in ToSet(stream) /\ Len(Remaining) >= MaxLen
  /\ \A t \in ToSet(stream) : Cardinality({i \in DOMAIN stream : stream[i] = t}) <= 1 + faults

(* A consumer that keeps up, so that nothing is removed before it read it,  *)
(* and that skips what it has seen before reads the trades in the order in  *)
(* which they were made, however many connections broke half-way.  When     *)
(* commands were refused one by one, a trade may come after later ones, but *)
(* never after one that was made a batch later.                             *)
FirstSeenInOrder ==
  \A i, j \in DOMAIN stream :
    i < j /\ stream[j] < stream[i]
      => /\ stream[i] - stream[j] < BatchSize
         /\ refused \/ \E h \in 1..(i - 1) : stream[h] = stream[j]

(* A batch's worth of trades is added to the stream or given up, unless the *)
(* program shuts down meanwhile; trades short of a batch may wait for ever. *)
FullBatchLeaves ==
  \A t \in Trades :
    t + ((-t) % BatchSize) <= sent ~> t \in ToSet(stream) \cup lost \/ ctxDone

=============================================================================
