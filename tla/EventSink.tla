----------------------------- MODULE EventSink ------------------------------
(***************************************************************************)
(* What cross_format::EventSink promises to a caller that stops at the     *)
(* first error, as every relay of the crate does (each call ends in ?):    *)
(* "Implementations must return an error for invalid event order"          *)
(* (cross_format/mod.rs) - and for nothing else, except a number JSON      *)
(* cannot hold or an I/O error of the writer.                              *)
(*                                                                         *)
(* The state is the abstract one: the kinds of the open containers, and    *)
(* one flag, keyed, for "a key waits for its value".  There is nothing to  *)
(* say of separators, of frames below the top, or of bytes.                *)
(***************************************************************************)
EXTENDS Naturals, Sequences, SequencesExt

CONSTANT WriterFails    (* whether the writer may report an I/O error *)

VARIABLES
    stack,      (* kinds of the open containers, innermost last            *)
    keyed,      (* an object key was accepted and its value was not        *)
    root,       (* the root value was started                              *)
    call,       (* the last call and what it returned                      *)
    status      (* open: may be called; stopped: a call failed; done:      *)
                (* finish returned Ok                                      *)

vars == <<stack, keyed, root, call, status>>

\* The calls of the trait.  word stands for null and boolean, text for a
\* string or a finite number, nonfinite for number(NaN) and the infinities.
Events == {"word", "text", "nonfinite", "begin_array", "end_array",
           "begin_object", "object_key", "end_object"}

Kind(event) == IF event \in {"begin_array", "end_array"} THEN "array" ELSE "object"

In(kind) == stack # <<>> /\ Last(stack) = kind

ValueExpected == \/ stack = <<>> /\ ~root
                 \/ In("array")
                 \/ In("object") /\ keyed

Legal(event) ==
    \/ event \in {"word", "text", "begin_array", "begin_object"} /\ ValueExpected
    \/ event = "object_key" /\ In("object") /\ ~keyed
    \/ event \in {"end_array", "end_object"} /\ In(Kind(event)) /\ ~keyed

Init == /\ stack = <<>>
        /\ keyed = FALSE
        /\ root = FALSE
        /\ call = [event |-> "none", answer |-> "ok"]
        /\ status = "open"

\* A legal event is accepted and moves the grammar.
Accept(event) ==
    /\ status = "open"
    /\ Legal(event)
    /\ stack' = CASE event \in {"begin_array", "begin_object"} -> Append(stack, Kind(event))
                  [] event \in {"end_array", "end_object"} -> Front(stack)
                  [] OTHER -> stack
    /\ keyed' = (event = "object_key")
    /\ root' = TRUE
    /\ call' = [event |-> event, answer |-> "ok"]
    /\ UNCHANGED status

Stop == status' = "stopped" /\ stack' = <<>> /\ keyed' = FALSE /\ root' = FALSE

\* An illegal event, and no other, is refused.
Refuse(event) ==
    /\ status = "open"
    /\ ~Legal(event)
    /\ call' = [event |-> event, answer |-> "refused"]
    /\ Stop

\* The writer fails under a legal event.
Break(event) ==
    /\ WriterFails
    /\ status = "open"
    /\ Legal(event)
    /\ call' = [event |-> event, answer |-> "io"]
    /\ Stop

\* finish() consumes the sink: Ok exactly on one complete root value.
Complete == root /\ stack = <<>>

Finish ==
    /\ status = "open"
    /\ Complete
    /\ status' = "done"
    /\ call' = [event |-> "finish", answer |-> "ok"]
    /\ UNCHANGED <<stack, keyed, root>>

FinishFails ==
    /\ status = "open"
    /\ Complete => WriterFails
    /\ call' = [event |-> "finish", answer |-> IF Complete THEN "io" ELSE "refused"]
    /\ Stop

Next == \/ \E event \in Events : Accept(event) \/ Refuse(event) \/ Break(event)
        \/ Finish \/ FinishFails

Spec == Init /\ [][Next]_vars
=============================================================================
