--------------------------- MODULE StreamContract ---------------------------
(***************************************************************************)
(* What a relayed stream promises (the header of src/services/core/src/    *)
(* streaming/streaming-engine.ts): the tokens of the source reach the      *)
(* client one at a time, in its order and none left out; a stream that     *)
(* completes has delivered every token the source had and persists         *)
(* nothing; one the user cancels persists what was delivered, and one      *)
(* whose client drops loses none of what was delivered and at most keeps   *)
(* the one token the drop interrupted.                                     *)
(***************************************************************************)
EXTENDS Naturals, Sequences

CONSTANTS Chunks, None

VARIABLES
    source,      \* the tokens the source has yielded so far
    ended,       \* whether it has said that there are no more
    delivered,   \* the tokens the client has
    kept,        \* the prefix persisted, or None
    outcome      \* "streaming", "completed", "cancelled", "disconnected" or "failed"

contractVars == <<source, ended, delivered, kept, outcome>>

Init == source = <<>> /\ ended = FALSE /\ delivered = <<>> /\ kept = None /\ outcome = "streaming"

\* The source goes on, or is done.
Yield ==
    /\ outcome = "streaming" /\ ~ ended
    /\ \E t \in Chunks : source' = Append(source, t)
    /\ UNCHANGED <<ended, delivered, kept, outcome>>

End ==
    /\ outcome = "streaming" /\ ~ ended
    /\ ended' = TRUE
    /\ UNCHANGED <<source, delivered, kept, outcome>>

\* The next token of the source that the client does not have.
Undelivered == Len(delivered) < Len(source)
NextToken == source[Len(delivered) + 1]

Deliver ==
    /\ outcome = "streaming" /\ Undelivered
    /\ delivered' = Append(delivered, NextToken)
    /\ UNCHANGED <<source, ended, kept, outcome>>

Complete ==
    /\ outcome = "streaming" /\ kept = None
    /\ ended /\ delivered = source
    /\ outcome' = "completed"
    /\ UNCHANGED <<source, ended, delivered, kept>>

\* The prefix is written, then the result is returned.
Keep ==
    /\ outcome = "streaming" /\ kept = None
    /\ \/ kept' = delivered
       \/ Undelivered /\ kept' = Append(delivered, NextToken)
    /\ UNCHANGED <<source, ended, delivered, outcome>>

Interrupt ==
    /\ outcome = "streaming" /\ kept # None
    /\ \/ outcome' = "disconnected"
       \/ outcome' = "cancelled" /\ kept = delivered
    /\ UNCHANGED <<source, ended, delivered, kept>>

\* The source, or the store of partial responses, fails.
Fail ==
    /\ outcome = "streaming" /\ kept = None
    /\ outcome' = "failed"
    /\ UNCHANGED <<source, ended, delivered, kept>>

Next == Yield \/ End \/ Deliver \/ Complete \/ Keep \/ Interrupt \/ Fail

Spec == Init /\ [][Next]_contractVars
=============================================================================
