----------------------------- MODULE ChatService -----------------------------
(***************************************************************************)
(* The message tree and the title of one conversation under the            *)
(* Chat_Service (src/services/core/src/chat/chat-service.ts): send,        *)
(* editMessage, branch, regenerate, compare and generateTitle run as       *)
(* sequences of awaited calls which interleave, with each other and with a *)
(* user who renames the conversation, and each of which may reject.  A     *)
(* message is its role, its parent and, for an answer, the messages the    *)
(* model was sent; the store lists messages in the order of creation, so   *)
(* that a message is its place in that order and a listing is a prefix.    *)
(***************************************************************************)
EXTENDS Integers, Sequences, FiniteSets, ServiceRequests

CONSTANTS
    Models,                     \* the models a compare asks
    MaxMessages, MaxRenames     \* bounds

ChatAssumption ==
    /\ None \notin Requests \cup Models
    /\ MaxMessages \in Nat /\ MaxRenames \in Nat /\ MaxInFlight \in Nat

VARIABLES
    messages,     \* [role, parent, by, context], in order of creation; parent 0 is null
    title,        \* "none", or who set it: "user" or "auto"
    renames,
    at, op,       \* of each request: the call it awaits, and the operation
    target,       \* the message an edit, a branch or a regeneration is about
    read,         \* how many messages it listed
    parent,       \* the message its answer answers
    context,      \* the messages the model is sent
    models,       \* the models it still has to ask
    untitled,     \* whether the conversation had no title when it was read
    late          \* history: the requests that passed the re-check before the user gave the title

chatLocals == <<op, target, read, parent, context, models, untitled>>
chatVars == <<messages, title, renames, at, chatLocals, late>>

ChatInit ==
    /\ messages = <<>> /\ title = "none" /\ renames = 0
    /\ at = [r \in Requests |-> "idle"] /\ op = [r \in Requests |-> None] /\ target = [r \in Requests |-> 0]
    /\ read = [r \in Requests |-> 0] /\ parent = [r \in Requests |-> 0]
    /\ context = [r \in Requests |-> {}] /\ models = [r \in Requests |-> {}]
    /\ untitled = [r \in Requests |-> FALSE] /\ late = {}

ChatsInFlight == {r \in Requests : at[r] \notin {"idle", "done"}}
ChatAwaits(r, call) == at' = [at EXCEPT ![r] = call]
\* The request ends, and its local variables with it.
ChatEnds(r) ==
    /\ ChatAwaits(r, "done")
    /\ op' = [op EXCEPT ![r] = None] /\ target' = [target EXCEPT ![r] = 0]
    /\ read' = [read EXCEPT ![r] = 0] /\ parent' = [parent EXCEPT ![r] = 0]
    /\ context' = [context EXCEPT ![r] = {}] /\ models' = [models EXCEPT ![r] = {}]
    /\ untitled' = [untitled EXCEPT ![r] = FALSE]
Upto(n) == 1..n

\* ancestorPath: a message with its ancestors, as far as the listing of the first n
\* messages has them; what a walk along parentId reaches is the least such set.
WithParents(n, S) == \A i \in S : messages[i].parent \in Upto(n) => messages[i].parent \in S
AncestorPath(n, leaf) ==
    LET closed == {S \in SUBSET Upto(n) : leaf \in S /\ WithParents(n, S)}
    IN  IF leaf \in Upto(n) THEN {i \in Upto(n) : \A S \in closed : i \in S} ELSE {}

\* messages.create.
Create(role, p, by, ctx) ==
    /\ Len(messages) < MaxMessages
    /\ messages' = Append(messages, [role |-> role, parent |-> p, by |-> by, context |-> ctx])
Created == Len(messages) + 1

-----------------------------------------------------------------------------
\* The conversation is found, and the message the request is about: its role,
\* its parent and its content never change.  A title is only generated for a
\* conversation that has none.
BeginExchange(r) ==
    /\ at[r] = "idle" /\ Cardinality(ChatsInFlight) < MaxInFlight
    /\ \E o \in {"send", "compare", "title"} \X {0} \cup
                {"edit", "branch", "regenerate"} \X DOMAIN messages :
         /\ op' = [op EXCEPT ![r] = o[1]] /\ target' = [target EXCEPT ![r] = o[2]]
         /\ models' = [models EXCEPT ![r] = IF o[1] = "compare" THEN Models ELSE {None}]
         /\ o[1] = "title" => title = "none"
         /\ ChatAwaits(r, IF o[1] = "branch" THEN "question" ELSE "list")
    /\ untitled' = [untitled EXCEPT ![r] = title = "none"]
    /\ UNCHANGED <<messages, title, renames, read, parent, context, late>>

\* messages.listByConversation.  regenerate asks the model right away, for
\* another answer to the same message, along the path to it.
List(r) ==
    /\ at[r] = "list"
    /\ read' = [read EXCEPT ![r] = Len(messages)]
    /\ CASE op[r] = "title" -> ChatAwaits(r, "generate") /\ UNCHANGED <<parent, context>>
         [] op[r] = "regenerate" ->
              /\ parent' = [parent EXCEPT ![r] = messages[target[r]].parent]
              /\ context' = [context EXCEPT ![r] = AncestorPath(Len(messages), messages[target[r]].parent)]
              /\ ChatAwaits(r, "route")
         [] OTHER -> ChatAwaits(r, "question") /\ UNCHANGED <<parent, context>>
    /\ UNCHANGED <<messages, title, renames, op, target, models, untitled, late>>

\* Mutant of EditContext: the path of the message that is edited, not of its parent's.
EditContextOfOriginal(r) == AncestorPath(read[r], target[r])

\* editMessage: the path to the branch point, which the original shares.
EditContext(r) == AncestorPath(read[r], messages[target[r]].parent)

\* The model is asked, with what the message just created stands under.
Asks(r, ctx) ==
    /\ parent' = [parent EXCEPT ![r] = Created] /\ context' = [context EXCEPT ![r] = ctx \cup {Created}]
    /\ ChatAwaits(r, "route")
    /\ UNCHANGED <<op, target, read, models, untitled>>

\* The user's message: after the last one listed for send and compare, beside
\* the original for an edit, under it for a branch.  A branch, and an edit of an
\* answer, asks no model.
Question(r) ==
    /\ at[r] = "question"
    /\ CASE op[r] \in {"send", "compare"} ->
              Create("user", read[r], "user", {}) /\ Asks(r, Upto(read[r]))
         [] op[r] = "edit" ->
              /\ Create(messages[target[r]].role, messages[target[r]].parent, "user", {})
              /\ IF messages[target[r]].role = "user" THEN Asks(r, EditContext(r)) ELSE ChatEnds(r)
         [] op[r] = "branch" ->
              Create(messages[target[r]].role, target[r], "user", {}) /\ ChatEnds(r)
    /\ UNCHANGED <<title, renames, late>>

\* router.route answers.
Route(r) ==
    /\ at[r] = "route" /\ ChatAwaits(r, "answer")
    /\ UNCHANGED <<messages, title, renames, chatLocals, late>>

\* The assistant's message; compare goes on with the next model, and send with
\* a title when it made the first exchange of an untitled conversation.
Answer(r) ==
    /\ at[r] = "answer" /\ Create("assistant", parent[r], op[r], context[r])
    /\ IF Cardinality(models[r]) > 1
       THEN /\ \E m \in models[r] : models' = [models EXCEPT ![r] = @ \ {m}]
            /\ ChatAwaits(r, "route") /\ UNCHANGED <<op, target, read, parent, context, untitled>>
       ELSE IF op[r] = "send" /\ untitled[r] /\ \A i \in Upto(read[r]) : messages[i].role # "assistant"
       THEN ChatAwaits(r, "generate") /\ UNCHANGED chatLocals
       ELSE ChatEnds(r)
    /\ UNCHANGED <<title, renames, late>>

-----------------------------------------------------------------------------
\* applyAutoTitle: a title is proposed, the conversation read again, the title written.
Generate(r) ==
    /\ at[r] = "generate" /\ ChatAwaits(r, "recheck")
    /\ UNCHANGED <<messages, title, renames, chatLocals, late>>

\* Mutant of Recheck: the conversation is taken as it was read at the start.
RecheckNothing(r) ==
    /\ at[r] = "recheck" /\ ChatAwaits(r, "write")
    /\ UNCHANGED <<messages, title, renames, chatLocals, late>>

Recheck(r) ==
    /\ at[r] = "recheck"
    /\ IF title = "none" THEN ChatAwaits(r, "write") /\ UNCHANGED chatLocals ELSE ChatEnds(r)
    /\ UNCHANGED <<messages, title, renames, late>>

WriteTitle(r) ==
    /\ at[r] = "write" /\ title' = "auto" /\ ChatEnds(r)
    /\ UNCHANGED <<messages, renames, late>>

\* Conversation_Manager.rename.
Rename ==
    /\ renames < MaxRenames /\ renames' = renames + 1
    /\ title' = "user" /\ late' = late \cup {r \in Requests : at[r] = "write"}
    /\ UNCHANGED <<messages, at, chatLocals>>

\* A call rejects: the request ends with what it has written.
Fail(r) ==
    /\ r \in ChatsInFlight /\ ChatEnds(r)
    /\ UNCHANGED <<messages, title, renames, late>>

ChatNext ==
    \/ Rename
    \/ \E r \in Requests :
         \/ BeginExchange(r) \/ List(r) \/ Question(r) \/ Route(r) \/ Answer(r)
         \/ Generate(r) \/ Recheck(r) \/ WriteTitle(r) \/ Fail(r)

ChatSpec == ChatInit /\ [][ChatNext]_chatVars
-----------------------------------------------------------------------------
\* Whatever runs at the same time, an answer was made by a model that saw the
\* whole thread the answer stands in.  One that was asked for by an edit or a
\* regeneration saw nothing else; one that was asked for by a send or a compare
\* saw its question and the conversation as it stood at some moment before, the
\* other branches included, which is more than ancestorPath's comment asks for.
AnswersSawTheirThread ==
    \A i \in DOMAIN messages :
        LET m == messages[i]
            thread == AncestorPath(Len(messages), m.parent)
        IN  /\ m.by \in {"send", "compare"} =>
                 /\ thread \subseteq m.context
                 /\ \E n \in 0..(m.parent - 1) : m.context = Upto(n) \cup {m.parent}
            /\ m.by \in {"edit", "regenerate"} => thread = m.context

\* applyAutoTitle only ever replaces a title of the user's that was given after
\* its re-check.
TitleKeptUnlessRaced ==
    [][\A r \in Requests : at[r] = "write" /\ title = "user" /\ title' = "auto" /\ at'[r] = "done"
            => r \in late]_chatVars
=============================================================================
