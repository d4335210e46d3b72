------------------------------ MODULE FixStream ------------------------------
(***************************************************************************)
(* How the gateway finds messages in the bytes of a connection             *)
(* (gateway/fix/gateway.go, the inner loop of handleConnection; message.go,*)
(* ReadFIXMessage and ParseFIXMessage).  Every read ends with a field, or  *)
(* times out within one; what was read of it is kept.  ReadFIXMessage looks *)
(* for "10=" and "8=" as bytes, wherever they are in a field.              *)
(*                                                                         *)
(* A field is what those looks can tell of it: "8" (8=FIX.4.4), "plain",   *)
(* "38" (a tag that ends in 8, or a value with 8=), "110" (a tag or value  *)
(* with 10= in it), "10" (the checksum, which is not checked), and "junk"  *)
(* (no tag).                                                               *)
(***************************************************************************)
EXTENDS Integers, Sequences, SequencesExt

CONSTANTS
  MaxFields,     (* bound of the fields between two checksums              *)
  MaxChecksums   (* bound of the checksums                                 *)

ASSUME FixStreamAssumption == MaxFields \in Nat /\ MaxChecksums \in Nat

VARIABLES
  sent,          (* the fields sent since the last checksum                *)
  checksums,     (* how many checksums were sent                           *)
  half,          (* a read timed out within the field that is sent next    *)
  buf,           (* the fields in the buffer                               *)
  whole,         (* history: what was sent up to the last checksum         *)
  decoded        (* what was decoded at the last checksum: no message, or  *)
                 (* the fields of one                                      *)

streamVars == <<sent, checksums, half, buf, whole, decoded>>

Body == {"8", "plain", "38", "110", "junk"}
HasBegin(f) == f \in {"8", "38"}
HasChecksum(f) == f \in {"10", "110"}

StreamInit ==
  /\ sent = <<>>
  /\ checksums = 0
  /\ half = FALSE
  /\ buf = <<>>
  /\ whole = <<>>
  /\ decoded = <<>>

(* Mutant of Line: what was read before the time-out is dropped.            *)
LineRest(f) == IF half THEN "junk" ELSE f

(* buf.Write(line), after a time-out as well.                               *)
Line(f) == f

Timeout ==
  /\ ~half
  /\ Len(sent) < MaxFields
  /\ half' = TRUE
  /\ UNCHANGED <<sent, checksums, buf, whole, decoded>>

(* ParseFIXMessage: the first field begins at its "8=", and a field without *)
(* a tag is skipped.  Fields is a map from tags; a field's place stands for *)
(* its tag.                                                                 *)
Parse(raw) ==
  LET begun == [raw EXCEPT ![1] = "8"]
  IN  [i \in {j \in DOMAIN raw : begun[j] # "junk"} |-> begun[i]]

(* A complete message up to the last "10=", from the first "8=" on.  The    *)
(* last field is complete, so that a "10=" is always followed by its end.   *)
LastChecksum(b) == SelectLastInSeq(b, HasChecksum)
Begin(b) == SelectInSeq(b, HasBegin)
Message(b) == IF Begin(b) = 0 THEN <<>> ELSE Parse(SubSeq(b, Begin(b), LastChecksum(b)))

(* buf.Next(consumed), or buf.Reset() when the beginning is missing.        *)
Rest(b) == IF Begin(b) = 0 THEN <<>> ELSE SubSeq(b, LastChecksum(b) + 1, Len(b))

Receive(f) ==
  LET b == Append(buf, Line(f))
  IN  /\ half' = FALSE
      /\ IF LastChecksum(b) = 0
           THEN buf' = b /\ UNCHANGED decoded
           ELSE buf' = Rest(b) /\ decoded' = Message(b)

ReadField(f) ==
  /\ f \in Body /\ Len(sent) < MaxFields
  /\ sent' = Append(sent, f)
  /\ Receive(f)
  /\ UNCHANGED <<checksums, whole>>

ReadChecksum ==
  /\ checksums < MaxChecksums
  /\ checksums' = checksums + 1
  /\ sent' = <<>>
  /\ whole' = Append(sent, "10")
  /\ Receive("10")

StreamNext == Timeout \/ ReadChecksum \/ \E f \in Body : ReadField(f)

StreamSpec == StreamInit /\ [][StreamNext]_streamVars

-----------------------------------------------------------------------------
WellFormed(m) == Head(m) = "8" /\ \A i \in DOMAIN m : m[i] \notin {"110", "junk"}

(* A message that begins with its BeginString and has no "10=" before its   *)
(* checksum is decoded, with all of its fields and nothing else, wherever   *)
(* the reads time out and whatever was sent before the checksum before it:  *)
(* a bad message hurts no other (ReadFIXMessage, buf.Reset).                *)
DecodesWhatWasSent ==
  whole # <<>> /\ sent = <<>> /\ ~half /\ WellFormed(whole) => decoded = whole /\ buf = <<>>
=============================================================================
