-------------------------- MODULE StreamingEngine --------------------------
(***************************************************************************)
(* One stream of the Streaming_Engine (src/services/core/src/streaming/    *)
(* streaming-engine.ts): the relay loop between a provider's chunks and    *)
(* the client's sink.  The user's abort, the client's drop and the         *)
(* source's errors come at any await.  The engine keeps no state between   *)
(* streams, so one stream stands for any number of them.  A chunk is known *)
(* by its number.                                                          *)
(***************************************************************************)
EXTENDS Naturals, Sequences, FiniteSets, NullValue

CONSTANTS
    MaxChunks,     \* bound: chunks of the source
    StreamMayFail        \* what may fail: subset of {"source", "sink", "persist"}

StreamAssumption ==
    /\ MaxChunks \in Nat
    /\ StreamMayFail \subseteq {"source", "sink", "persist"}
    /\ None \notin Seq(1..MaxChunks)

Chunks == 1..MaxChunks

VARIABLES
    relayAt,
    pulled,      \* chunks pulled from the source
    yielded,     \* history: those of them that carried a token
    usageAt,     \* the chunk that reported the usage in force (0: none yet)
    text,        \* the accumulated text
    tokenIndex,
    iterator,    \* "none", "open", "exhausted" or "closed"
    aborted,     \* the abort signal
    reason,      \* of a partial settlement
    persisted,   \* the text given to the persister, or None
    outcome,     \* what stream() returned, or "streaming"
    delivered,   \* the tokens the client received
    completion   \* whether the client received the completion event

streamVars == <<relayAt, pulled, yielded, usageAt, text, tokenIndex, iterator, aborted, reason, persisted,
          outcome, delivered, completion>>

StreamInit ==
    /\ relayAt = "start" /\ pulled = 0 /\ yielded = <<>> /\ usageAt = 0 /\ text = <<>> /\ tokenIndex = 0
    /\ iterator = "none" /\ aborted \in BOOLEAN /\ reason = "none"
    /\ persisted = None /\ outcome = "streaming" /\ delivered = <<>> /\ completion = FALSE

\* settlePartial: what remains is to persist the text.
SettlePartial(why) == relayAt' = "persisting" /\ reason' = why

\* closeIterator, when there is something left to close.
CloseIterator == iterator' = "closed"

\* Mutant of Start: an aborted stream opens the source first.
StartOpen ==
    /\ relayAt = "start"
    /\ IF aborted THEN SettlePartial("cancelled") ELSE relayAt' = "pulling" /\ UNCHANGED reason
    /\ iterator' = "open"
    /\ UNCHANGED <<pulled, yielded, usageAt, text, tokenIndex, aborted, persisted, outcome, delivered, completion>>

Start ==
    /\ relayAt = "start"
    /\ IF aborted THEN SettlePartial("cancelled") /\ UNCHANGED iterator
       ELSE relayAt' = "pulling" /\ iterator' = "open" /\ UNCHANGED reason
    /\ UNCHANGED <<pulled, yielded, usageAt, text, tokenIndex, aborted, persisted, outcome, delivered, completion>>

\* The chunk comes, with or without usage; what becomes of its token, if it has one.
PullChunk == pulled' = pulled + 1 /\ usageAt' \in {usageAt, pulled'}
NoToken == text' = text /\ relayAt' = "head"
AddToken == text' = Append(text, pulled') /\ relayAt' = "emitting"

\* Mutant of Pull: no second look at the signal after the pull.
PullUnchecked ==
    /\ relayAt = "pulling" /\ pulled < MaxChunks
    /\ PullChunk
    /\ \/ yielded' = yielded /\ NoToken
       \/ yielded' = Append(yielded, pulled') /\ AddToken
    /\ UNCHANGED <<tokenIndex, iterator, aborted, reason, persisted, outcome, delivered, completion>>

\* Mutant of Pull: a chunk that reports usage is taken for the terminal one, without a token.
PullUsageOnly ==
    /\ relayAt = "pulling" /\ pulled < MaxChunks
    /\ PullChunk
    /\ yielded' \in {yielded, Append(yielded, pulled')}
    /\ IF aborted
       THEN CloseIterator /\ SettlePartial("cancelled") /\ UNCHANGED text
       ELSE /\ IF yielded' = yielded \/ usageAt' = pulled' THEN NoToken ELSE AddToken
            /\ UNCHANGED <<iterator, reason>>
    /\ UNCHANGED <<tokenIndex, aborted, persisted, outcome, delivered, completion>>

\* The source yields a chunk, with or without a token.
\* An abort that landed during the pull drops the token.
Pull ==
    /\ relayAt = "pulling" /\ pulled < MaxChunks
    /\ PullChunk
    /\ yielded' \in {yielded, Append(yielded, pulled')}
    /\ IF aborted
       THEN CloseIterator /\ SettlePartial("cancelled") /\ UNCHANGED text
       ELSE /\ IF yielded' = yielded THEN NoToken ELSE AddToken
            /\ UNCHANGED <<iterator, reason>>
    /\ UNCHANGED <<tokenIndex, aborted, persisted, outcome, delivered, completion>>

\* The source is done: on to the completion event.
Exhaust ==
    /\ relayAt = "pulling"
    /\ iterator' = "exhausted" /\ relayAt' = "completing"
    /\ UNCHANGED <<pulled, yielded, usageAt, text, tokenIndex, aborted, reason, persisted, outcome, delivered, completion>>

\* The source throws: closed, and the error goes to the caller.
SourceFails ==
    /\ relayAt = "pulling" /\ "source" \in StreamMayFail
    /\ CloseIterator /\ outcome' = "failed" /\ relayAt' = "done"
    /\ UNCHANGED <<pulled, yielded, usageAt, text, tokenIndex, aborted, reason, persisted, delivered, completion>>

\* The sink takes the token, or throws, before or after it reached the client.
Emit ==
    /\ relayAt = "emitting"
    /\ delivered' = Append(delivered, text[Len(text)])
    /\ tokenIndex' = tokenIndex + 1 /\ relayAt' = "head"
    /\ UNCHANGED <<pulled, yielded, usageAt, text, iterator, aborted, reason, persisted, outcome, completion>>

\* Mutant of EmitFails: the source is left open.
EmitFailsOpen ==
    /\ relayAt = "emitting" /\ "sink" \in StreamMayFail
    /\ delivered' \in {delivered, Append(delivered, text[Len(text)])}
    /\ SettlePartial("disconnected")
    /\ UNCHANGED <<pulled, yielded, usageAt, text, tokenIndex, iterator, aborted, persisted, outcome, completion>>

EmitFails ==
    /\ relayAt = "emitting" /\ "sink" \in StreamMayFail
    /\ delivered' \in {delivered, Append(delivered, text[Len(text)])}
    /\ CloseIterator /\ SettlePartial("disconnected")
    /\ UNCHANGED <<pulled, yielded, usageAt, text, tokenIndex, aborted, persisted, outcome, completion>>

\* The head of the loop.
LoopHead ==
    /\ relayAt = "head"
    /\ IF aborted THEN CloseIterator /\ SettlePartial("cancelled")
       ELSE relayAt' = "pulling" /\ UNCHANGED <<iterator, reason>>
    /\ UNCHANGED <<pulled, yielded, usageAt, text, tokenIndex, aborted, persisted, outcome, delivered, completion>>

\* The completion event is taken, or the client dropped just then.
EmitCompletion ==
    /\ relayAt = "completing"
    /\ \/ completion' = TRUE /\ outcome' = "completed" /\ relayAt' = "done" /\ UNCHANGED reason
       \/ /\ "sink" \in StreamMayFail
          /\ completion' \in BOOLEAN
          /\ SettlePartial("disconnected") /\ UNCHANGED outcome
    /\ UNCHANGED <<pulled, yielded, usageAt, text, tokenIndex, iterator, aborted, persisted, delivered>>

\* settlePartial: the persister takes the text, or throws.
Persist ==
    /\ relayAt = "persisting"
    /\ \/ persisted' = text /\ relayAt' = "returning" /\ UNCHANGED outcome
       \/ /\ "persist" \in StreamMayFail
          /\ outcome' = "failed" /\ relayAt' = "done" /\ UNCHANGED persisted
    /\ UNCHANGED <<pulled, yielded, usageAt, text, tokenIndex, iterator, aborted, reason, delivered, completion>>

ReturnPartial ==
    /\ relayAt = "returning"
    /\ outcome' = reason /\ relayAt' = "done"
    /\ UNCHANGED <<pulled, yielded, usageAt, text, tokenIndex, iterator, aborted, reason, persisted, delivered, completion>>

\* The user cancels.
Abort ==
    /\ ~aborted /\ relayAt # "done" /\ aborted' = TRUE
    /\ UNCHANGED <<relayAt, pulled, yielded, usageAt, text, tokenIndex, iterator, reason, persisted, outcome, delivered, completion>>

Engine ==
    \/ Start \/ Pull \/ Exhaust \/ SourceFails \/ Emit \/ EmitFails \/ LoopHead
    \/ EmitCompletion \/ Persist \/ ReturnPartial

StreamNext == Engine \/ Abort

StreamSpec == StreamInit /\ [][StreamNext]_streamVars

\* The source, the sink and the persister answer.
StreamFairSpec == StreamSpec /\ WF_streamVars(Engine)

-----------------------------------------------------------------------------
(* Properties.                                                             *)

\* The engine implements the contract, reading persisted for kept; the source is what
\* it has yielded, and has ended once its iterator is exhausted.
ContractSpec == INSTANCE StreamContract
    WITH source <- yielded, ended <- (iterator = "exhausted"), kept <- persisted

\* Completed streams delivered every token their source had, in its order, whatever
\* else its chunks carry; cancelled ones kept what was delivered, disconnected ones
\* lost nothing the client has.
KeepsContract == ContractSpec!Spec

\* However a stream ends, the source it opened is exhausted or closed: a provider
\* stream is never left running.
SourceReleased == outcome # "streaming" => iterator # "open"

\* Once the user has cancelled, no further token is handed to the sink.
NothingSentAfterAbort == [][(relayAt # "emitting" /\ relayAt' = "emitting") => ~aborted]_streamVars

=============================================================================
