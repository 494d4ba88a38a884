------------------------- MODULE KnowledgeIngestion -------------------------
(***************************************************************************)
(* The Knowledge_Ingestion_Service (src/services/core/src/knowledge/       *)
(* knowledge-ingestion-service.ts) on one source: ingest and reindex fetch *)
(* the source's documents and, for each that is new or has changed (or for *)
(* each, when forced), save its row, embed its chunks and replace its      *)
(* chunks and its vectors, in separate awaited writes to the knowledge     *)
(* store and the vector store.  A rejection while a document is indexed is *)
(* caught and the run goes on with the next; a run may also die.  Runs of  *)
(* the same source may overlap, since nothing locks it.  A content stands  *)
(* for its hash, a chunk for its ordinal and the content it was cut from.  *)
(***************************************************************************)
EXTENDS Integers, Sequences, FiniteSets, ServiceRequests

CONSTANTS
    ExternalIds, Contents,
    Runs,           \* the runs of the source
    ChunksOf,       \* content -> how many chunks chunkText cuts it into
    MaxRows, MaxEdits, MaxRuns      \* bounds

IngestionAssumption ==
    /\ None \notin Contents \cup ExternalIds /\ ChunksOf \in [Contents -> Nat]
    /\ MaxRows \in Nat \ {0} /\ MaxEdits \in Nat /\ MaxRuns \in Nat /\ MaxInFlight \in Nat

Rows == 1..MaxRows

VARIABLES
    source,      \* what is at the source: external id -> content, or None
    edits, begun, \* how often it changed, and how many runs there were
    documents,   \* the document rows, in the order they were created: [externalId, hash]
    chunks,      \* row -> the chunk records of it
    vectors,     \* row -> the vectors owned by it
    syncStatus,
    pc, force, fetched, todo, doc, row, prior, failures,    \* of each run
    attempt,     \* history: row -> how the last indexing of it ended
    indexed,     \* history: row -> the content last indexed to the end
    overlapped   \* history: two runs were under way at once

store == <<documents, chunks, vectors>>
progress == <<fetched, todo, doc, row, prior, failures>>
history == <<attempt, indexed, overlapped>>
ingestVars == <<source, edits, begun, store, syncStatus, pc, force, progress, history>>

ChunksFor(c) == {<<i, c>> : i \in 1..ChunksOf[c]}
Ordinals(cs) == {c[1] : c \in cs}

IngestInit ==
    /\ source \in [ExternalIds -> Contents] /\ edits = 0 /\ begun = 0
    /\ documents = <<>> /\ chunks = [i \in Rows |-> {}] /\ vectors = [i \in Rows |-> {}]
    /\ syncStatus = "idle"
    /\ pc = [r \in Runs |-> "idle"] /\ force = [r \in Runs |-> FALSE]
    /\ fetched = [r \in Runs |-> [x \in ExternalIds |-> None]] /\ todo = [r \in Runs |-> {}]
    /\ doc = [r \in Runs |-> None] /\ row = [r \in Runs |-> 0] /\ prior = [r \in Runs |-> {}]
    /\ failures = [r \in Runs |-> FALSE]
    /\ attempt = [i \in Rows |-> "none"] /\ indexed = [i \in Rows |-> None] /\ overlapped = FALSE

RunsInFlight == {r \in Runs : pc[r] # "idle"}
Goto(r, label) == pc' = [pc EXCEPT ![r] = label]
Content(r) == fetched[r][doc[r]]

\* The run is over: what it held is gone.
End(r) ==
    /\ Goto(r, "idle")
    /\ force' = [force EXCEPT ![r] = FALSE]
    /\ fetched' = [fetched EXCEPT ![r] = [x \in ExternalIds |-> None]] /\ todo' = [todo EXCEPT ![r] = {}]
    /\ doc' = [doc EXCEPT ![r] = None] /\ row' = [row EXCEPT ![r] = 0] /\ prior' = [prior EXCEPT ![r] = {}]
    /\ failures' = [failures EXCEPT ![r] = FALSE]

\* The document is done with.
NextDocument(r) ==
    /\ Goto(r, "document")
    /\ doc' = [doc EXCEPT ![r] = None] /\ row' = [row EXCEPT ![r] = 0] /\ prior' = [prior EXCEPT ![r] = {}]

\* The source changes under the service: a document is added, edited or deleted.
Edit ==
    /\ edits < MaxEdits /\ edits' = edits + 1
    /\ \E x \in ExternalIds, c \in Contents \cup {None} : source' = [source EXCEPT ![x] = c]
    /\ UNCHANGED <<begun, store, syncStatus, pc, force, progress, history>>

\* ingest, onChangeNotification and reindex: getSource, then the source is marked syncing.
BeginRun(r) ==
    /\ pc[r] = "idle" /\ Cardinality(RunsInFlight) < MaxInFlight
    /\ \E f \in BOOLEAN : force' = [force EXCEPT ![r] = f]
    /\ begun < MaxRuns /\ begun' = begun + 1
    /\ syncStatus' = "syncing" /\ overlapped' = (overlapped \/ RunsInFlight # {})
    /\ Goto(r, "fetch")
    /\ UNCHANGED <<source, edits, store, progress, attempt, indexed>>

Fetch(r) ==
    /\ pc[r] = "fetch"
    /\ fetched' = [fetched EXCEPT ![r] = source]
    /\ todo' = [todo EXCEPT ![r] = {x \in ExternalIds : source[x] # None}]
    /\ Goto(r, "document")
    /\ UNCHANGED <<source, edits, begun, store, syncStatus, force, doc, row, prior, failures, history>>

\* A connector that is unavailable ends the run; any other rejection of the
\* fetch goes to the caller and leaves the source marked syncing.
FetchFails(r) ==
    /\ pc[r] = "fetch" /\ End(r)
    /\ syncStatus' \in {"error", syncStatus}
    /\ UNCHANGED <<source, edits, begun, store, history>>

-----------------------------------------------------------------------------
\* getDocumentByExternalId: the row of that external id.
RowOf(x) == LET found == {i \in DOMAIN documents : documents[i].externalId = x}
            IN  IF found = {} THEN 0 ELSE CHOOSE i \in found : TRUE

\* ingestDocument: a document whose stored hash is the hash of its content is skipped.
Document(r) ==
    /\ pc[r] = "document"
    /\ \E x \in todo[r] :
         /\ todo' = [todo EXCEPT ![r] = @ \ {x}]
         /\ IF ~ force[r] /\ RowOf(x) # 0 /\ documents[RowOf(x)].hash = fetched[r][x]
            THEN UNCHANGED <<pc, doc, row>>
            ELSE /\ doc' = [doc EXCEPT ![r] = x] /\ row' = [row EXCEPT ![r] = RowOf(x)]
                 /\ Goto(r, "save")
    /\ UNCHANGED <<source, edits, begun, store, syncStatus, force, fetched, prior, failures, history>>

\* getDocumentByExternalId rejects: the document is recorded as failed.
LookupFails(r) ==
    /\ pc[r] = "document"
    /\ \E x \in todo[r] : todo' = [todo EXCEPT ![r] = @ \ {x}]
    /\ failures' = [failures EXCEPT ![r] = TRUE]
    /\ UNCHANGED <<source, edits, begun, store, syncStatus, pc, force, fetched, doc, row, prior, history>>

\* saveDocument: the row that was found, or the one the store has by then for the
\* external id it keys documents by, or a new one, with the new hash; embed is only
\* called when there are chunks.
Save(r) ==
    /\ pc[r] = "save"
    /\ LET old == IF row[r] = 0 THEN RowOf(doc[r]) ELSE row[r]
           i == IF old = 0 THEN Len(documents) + 1 ELSE old
       IN  /\ i \in Rows
           /\ documents' = IF old = 0 THEN Append(documents, [externalId |-> doc[r], hash |-> Content(r)])
                           ELSE [documents EXCEPT ![i].hash = Content(r)]
           /\ row' = [row EXCEPT ![r] = i] /\ attempt' = [attempt EXCEPT ![i] = "running"]
    /\ Goto(r, IF ChunksFor(Content(r)) = {} THEN "list" ELSE "embed")
    /\ UNCHANGED <<source, edits, begun, chunks, vectors, syncStatus, force, fetched, todo, doc, prior, failures,
                   indexed, overlapped>>

Embed(r) ==
    /\ pc[r] = "embed" /\ Goto(r, "list")
    /\ UNCHANGED <<source, edits, begun, store, syncStatus, force, progress, history>>

ListChunks(r) ==
    /\ pc[r] = "list"
    /\ prior' = [prior EXCEPT ![r] = Ordinals(chunks[row[r]])]
    /\ Goto(r, "delete")
    /\ UNCHANGED <<source, edits, begun, store, syncStatus, force, fetched, todo, doc, row, failures, history>>

\* Mutant of DeletePrior: the vectors that are about to be overwritten are deleted, not the prior ones.
DeleteOverwritten(r) ==
    /\ pc[r] = "delete"
    /\ vectors' = [vectors EXCEPT ![row[r]] = {v \in @ : v[1] \notin Ordinals(ChunksFor(Content(r)))}]
    /\ Goto(r, "replace")
    /\ UNCHANGED <<source, edits, begun, documents, chunks, syncStatus, force, progress, history>>

\* vectors.delete of the vectors the prior chunks name.
DeletePrior(r) ==
    /\ pc[r] = "delete"
    /\ vectors' = [vectors EXCEPT ![row[r]] = {v \in @ : v[1] \notin prior[r]}]
    /\ Goto(r, "replace")
    /\ UNCHANGED <<source, edits, begun, documents, chunks, syncStatus, force, progress, history>>

ReplaceChunks(r) ==
    /\ pc[r] = "replace"
    /\ chunks' = [chunks EXCEPT ![row[r]] = ChunksFor(Content(r))]
    /\ Goto(r, "upsert")
    /\ UNCHANGED <<source, edits, begun, documents, vectors, syncStatus, force, progress, history>>

\* vectors.upsert, by id; the document is indexed.
Upsert(r) ==
    /\ pc[r] = "upsert"
    /\ LET new == ChunksFor(Content(r))
       IN  vectors' = [vectors EXCEPT ![row[r]] = {v \in @ : v[1] \notin Ordinals(new)} \cup new]
    /\ attempt' = [attempt EXCEPT ![row[r]] = "indexed"]
    /\ indexed' = [indexed EXCEPT ![row[r]] = Content(r)]
    /\ NextDocument(r)
    /\ UNCHANGED <<source, edits, begun, documents, chunks, syncStatus, force, fetched, todo, failures, overlapped>>

\* A call made for the document rejects: the document is recorded as failed.
DocumentFails(r) ==
    /\ pc[r] \in {"save", "embed", "list", "delete", "replace", "upsert"}
    /\ failures' = [failures EXCEPT ![r] = TRUE]
    /\ attempt' = IF row[r] = 0 THEN attempt ELSE [attempt EXCEPT ![row[r]] = "failed"]
    /\ NextDocument(r)
    /\ UNCHANGED <<source, edits, begun, store, syncStatus, force, fetched, todo, indexed, overlapped>>

Finish(r) ==
    /\ pc[r] = "document" /\ todo[r] = {}
    /\ syncStatus' = IF failures[r] THEN "error" ELSE "synced"
    /\ End(r)
    /\ UNCHANGED <<source, edits, begun, store, history>>

Crash(r) ==
    /\ r \in RunsInFlight /\ End(r)
    /\ attempt' = IF pc[r] \in {"embed", "list", "delete", "replace", "upsert"}
                  THEN [attempt EXCEPT ![row[r]] = "failed"] ELSE attempt
    /\ UNCHANGED <<source, edits, begun, store, syncStatus, indexed, overlapped>>

IngestNext ==
    \/ Edit
    \/ \E r \in Runs :
         \/ BeginRun(r) \/ Fetch(r) \/ FetchFails(r) \/ Document(r) \/ Save(r) \/ Embed(r)
         \/ ListChunks(r) \/ DeletePrior(r) \/ ReplaceChunks(r) \/ Upsert(r)
         \/ LookupFails(r) \/ DocumentFails(r) \/ Finish(r) \/ Crash(r)

IngestSpec == IngestInit /\ [][IngestNext]_ingestVars
-----------------------------------------------------------------------------
\* As long as runs of the source do not overlap, whatever failed in which order:
\* the vectors of a document are among those its chunks name, so that the next
\* indexing deletes them all, and a document whose last indexing succeeded has
\* exactly the chunks and the vectors of that content, and none of an earlier one.
IndexHasNoStaleVectors ==
    ~ overlapped =>
        \A i \in DOMAIN documents :
            /\ Ordinals(vectors[i]) \subseteq Ordinals(chunks[i])
            /\ attempt[i] = "indexed" =>
                   vectors[i] = ChunksFor(documents[i].hash) /\ chunks[i] = ChunksFor(documents[i].hash)

\* types.ts on contentHash: the hash of the document's content at the last
\* successful index; ingest skips a document by it.
HashIsOfLastIndex ==
    \A i \in DOMAIN documents : attempt[i] # "running" => documents[i].hash = indexed[i]
=============================================================================
