------------------------------ MODULE Hostcalls ------------------------------
(***************************************************************************)
(* What the hostcalls that return data answer to the guest (crates/runtime:*)
(* hostcalls.rs), and the rings its output and the audit events are kept   *)
(* in (output.rs, audit.rs).  Lengths stand for contents; a result below 0 *)
(* is an error code.                                                       *)
(***************************************************************************)
EXTENDS Integers, Sequences

CONSTANT MaxCapture   \* EXEC_CAPTURE_MAX_BUF

-----------------------------------------------------------------------------
(* model_complete *)

\* map_broker_error
BrokerCode ==
    [StreamingUnsupported |-> -1, BudgetExceeded |-> -2, Timeout |-> -3, ProviderFault |-> -4,
     InvalidRequest |-> -5, OutputTooLarge |-> -6, Cancelled |-> -7]

\* The text is written before the room for the meta data is looked at: a call
\* that fails then leaves it in the buffer.  Meta data takes 4 bytes for its length.
ModelComplete(call) ==
    LET Result(code, text, meta) == [code |-> code, text |-> text, meta |-> meta]
    IN CASE ~call.decodes -> Result(BrokerCode.InvalidRequest, 0, 0)
         [] call.decodes /\ call.error # "none" -> Result(BrokerCode[call.error], 0, 0)
         [] call.decodes /\ call.error = "none" /\ call.text > call.outCap ->
                Result(BrokerCode.OutputTooLarge, 0, 0)
         [] OTHER ->
                IF call.metaCap = 0 THEN Result(call.text, call.text, 0)
                ELSE IF call.metaCap < 4 \/ call.meta > call.metaCap - 4
                THEN Result(BrokerCode.OutputTooLarge, call.text, 0)
                ELSE Result(call.text, call.text, call.meta)

-----------------------------------------------------------------------------
(* exec_spawn, exec_spawn_capture *)

EINVAL == -1
ESPAWN == -2
ESIGNAL == -3
ENOSPACE == -4

\* A command that has no end is killed if there is a timeout; without one the call
\* does not return.  Its output is read
\* to the end whatever the buffer holds.
Ends(child, timeout) == IF child.ends = "never" /\ timeout THEN "signal" ELSE child.ends

Status(child, timeout) ==
    CASE ~child.spawns \/ ~child.waits -> ESPAWN
      [] child.spawns /\ child.waits /\ Ends(child, timeout) = "signal" -> ESIGNAL
      [] OTHER -> child.code

ExecSpawn(len, child, timeout) == IF len <= 0 THEN EINVAL ELSE Status(child, timeout)

\* Mutant: what does not fit is cut off.
TooLongCut(cap, output) == FALSE

\* drain_stream_preview keeps as much as fits after the 4 bytes of the length.
TooLong(cap, output) == cap > 0 /\ output.read /\ output.len > cap - 4

BadCapture(cap) == (cap > 0 /\ cap < 4) \/ cap > MaxCapture

\* A stream that could not be read is reported as empty; the streams are looked
\* at before the status, stdout before stderr.
ExecSpawnCapture(len, outCap, errCap, child, timeout) ==
    LET Held(cap, output) == IF cap = 0 \/ ~output.read THEN 0 ELSE IF TooLong(cap, output) THEN 0
                             ELSE IF output.len < cap - 4 THEN output.len ELSE cap - 4
        Result(code) == [code |-> code, out |-> Held(outCap, child.out), err |-> Held(errCap, child.err)]
    IN CASE len <= 0 \/ outCap < 0 \/ errCap < 0 -> [code |-> EINVAL, out |-> 0, err |-> 0]
         [] len > 0 /\ outCap >= 0 /\ errCap >= 0 /\ (BadCapture(outCap) \/ BadCapture(errCap)) ->
                [code |-> ENOSPACE, out |-> 0, err |-> 0]
         [] OTHER ->
                IF Status(child, timeout) = ESPAWN THEN [code |-> ESPAWN, out |-> 0, err |-> 0]
                ELSE IF TooLong(outCap, child.out) \/ TooLong(errCap, child.err) THEN Result(ENOSPACE)
                ELSE Result(Status(child, timeout))

-----------------------------------------------------------------------------
(* OutputRing, AuditSink *)

\* The length is compared with =: a ring of capacity 0 is never full again.
Push(ring, item, capacity) ==
    Append(IF Len(ring) = capacity /\ ring # <<>> THEN Tail(ring) ELSE ring, item)

PushAll(items, capacity) ==
    LET ring[n \in 0..Len(items)] ==
            IF n = 0 THEN <<>> ELSE Push(ring[n - 1], items[n], capacity)
    IN ring[Len(items)]

-----------------------------------------------------------------------------
(* Properties *)

\* A guest that is told of no error has the whole answer: the model's text and meta
\* data; or the status the command itself ended with, and all of the output it
\* asked for unless that could not be read.
ModelAnswerWhole(call) ==
    LET r == ModelComplete(call)
    IN r.code >= 0 => /\ call.error = "none" /\ r.code = call.text /\ r.text = call.text
                      /\ call.metaCap > 0 => r.meta = call.meta

CaptureWhole(len, outCap, errCap, child, timeout) ==
    LET r == ExecSpawnCapture(len, outCap, errCap, child, timeout)
    IN r.code >= 0 =>
         /\ child.ends = "code" /\ r.code = child.code
         /\ outCap > 0 /\ child.out.read => r.out = child.out.len
         /\ errCap > 0 /\ child.err.read => r.err = child.err.len

\* A ring holds the newest items, as many as it has room for.
RingHoldsNewest(items, capacity) ==
    LET n == IF Len(items) < capacity THEN Len(items) ELSE capacity
    IN PushAll(items, capacity) = SubSeq(items, Len(items) - n + 1, Len(items))
=============================================================================
