--------------------------- MODULE KnowledgeProofs ---------------------------
(***************************************************************************)
(* Proofs about what people work in together: the ingestion of a source,   *)
(* the pages of the knowledge hub, and the message tree and title of a     *)
(* conversation; for any requests, contents, pages and messages.           *)
(***************************************************************************)
EXTENDS ChatService, KnowledgeHub, KnowledgeIngestion, SequenceTheorems, TLAPS

-----------------------------------------------------------------------------
(* KnowledgeIngestion.                                                     *)

DocumentRows == [externalId : ExternalIds, hash : Contents]
Labels == {"idle", "fetch", "document", "save", "embed", "list", "delete", "replace", "upsert"}
\* Where a run holds a row, and where it holds one that carries its content.
Indexing == {"save", "embed", "list", "delete", "replace", "upsert"}
Saved == {"embed", "list", "delete", "replace", "upsert"}

IngestTypeInv ==
    /\ source \in [ExternalIds -> Contents \cup {None}]
    /\ documents \in Seq(DocumentRows) /\ Len(documents) <= MaxRows
    /\ DOMAIN chunks = Rows /\ DOMAIN vectors = Rows /\ DOMAIN attempt = Rows
    /\ pc \in [Runs -> Labels]
    /\ fetched \in [Runs -> [ExternalIds -> Contents \cup {None}]]
    /\ todo \in [Runs -> SUBSET ExternalIds]
    /\ DOMAIN doc = Runs /\ DOMAIN row = Runs /\ DOMAIN prior = Runs
    /\ overlapped \in BOOLEAN
    /\ \A r \in Runs : \A x \in todo[r] : fetched[r][x] # None
    /\ \A r \in Runs : pc[r] \in Indexing => /\ doc[r] \in ExternalIds /\ Content(r) \in Contents
                                            /\ row[r] \in {0} \cup DOMAIN documents
    /\ \A r \in Runs : pc[r] \in Saved => row[r] \in DOMAIN documents

\* A run that indexes has the row to itself; how far it has come with it.
OwnRowInv ==
    /\ \A r, s \in RunsInFlight : r = s
    /\ \A r \in Runs : pc[r] \in Saved => /\ attempt[row[r]] = "running"
                                         /\ documents[row[r]].hash = Content(r)
    /\ \A r \in Runs : pc[r] = "delete" => prior[r] = Ordinals(chunks[row[r]])
    /\ \A r \in Runs : pc[r] \in {"replace", "upsert"} => vectors[row[r]] = {}
    /\ \A r \in Runs : pc[r] = "upsert" => chunks[row[r]] = ChunksFor(Content(r))

\* Rows that are not there have nothing, and those that are no vector that their
\* chunks do not name.
CleanRowsInv ==
    \A i \in Rows :
        /\ i \notin DOMAIN documents => chunks[i] = {} /\ vectors[i] = {}
        /\ Ordinals(vectors[i]) \subseteq Ordinals(chunks[i])
        /\ i \in DOMAIN documents /\ attempt[i] = "indexed" =>
               vectors[i] = ChunksFor(documents[i].hash) /\ chunks[i] = ChunksFor(documents[i].hash)

IngestInv == IngestTypeInv /\ (~ overlapped => OwnRowInv /\ CleanRowsInv)

\* getDocumentByExternalId answers with a row that is there, or with none.
LEMMA RowOfType ==
    ASSUME documents \in Seq(DocumentRows), NEW x
    PROVE  RowOf(x) \in {0} \cup DOMAIN documents
<1> DEFINE found == {i \in DOMAIN documents : documents[i].externalId = x}
<1>1. found # {} => (CHOOSE i \in found : TRUE) \in found
  <2> HIDE DEF found
  <2> QED  OBVIOUS
<1> QED  BY <1>1 DEF RowOf

LEMMA IngestInvInit == ASSUME IngestionAssumption, IngestInit PROVE IngestInv
<1>1. Len(documents) = 0 /\ DOMAIN documents = {} /\ documents \in Seq(DocumentRows) /\ MaxRows \in Nat
  BY DEF IngestInit, IngestionAssumption
<1>2. \A r \in Runs : pc[r] = "idle"
  BY DEF IngestInit
<1>3. IngestTypeInv
  <2>1. \A r \in Runs : pc[r] \notin Indexing /\ pc[r] \notin Saved
    BY <1>2 DEF Indexing, Saved
  <2>2. /\ source \in [ExternalIds -> Contents \cup {None}]
        /\ fetched \in [Runs -> [ExternalIds -> Contents \cup {None}]]
    BY DEF IngestInit
  <2>3. /\ todo \in [Runs -> SUBSET ExternalIds] /\ pc \in [Runs -> Labels]
        /\ \A r \in Runs : \A x \in todo[r] : fetched[r][x] # None
    BY DEF IngestInit, Labels
  <2>4. /\ DOMAIN chunks = Rows /\ DOMAIN vectors = Rows /\ DOMAIN attempt = Rows
        /\ DOMAIN doc = Runs /\ DOMAIN row = Runs /\ DOMAIN prior = Runs
        /\ overlapped \in BOOLEAN
    BY DEF IngestInit
  <2>5. Len(documents) <= MaxRows
    BY <1>1
  <2> QED  BY <1>1, <2>1, <2>2, <2>3, <2>4, <2>5 DEF IngestTypeInv
<1>4. OwnRowInv
  BY <1>2 DEF OwnRowInv, RunsInFlight, Saved
<1>5. CleanRowsInv
  BY <1>1 DEF IngestInit, CleanRowsInv, Ordinals
<1> QED  BY <1>3, <1>4, <1>5 DEF IngestInv

\* A run that ends, goes on with the next document or gives up keeps the types: what
\* it held is gone.
LEMMA EndTypes ==
    ASSUME IngestTypeInv, NEW r \in Runs, End(r) \/ (NextDocument(r) /\ UNCHANGED <<fetched, todo>>),
           UNCHANGED <<source, documents, chunks, vectors>>, DOMAIN attempt' = Rows, overlapped' \in BOOLEAN
    PROVE  IngestTypeInv'
<1>1. CASE End(r)
  <2>1. /\ pc' = [pc EXCEPT ![r] = "idle"] /\ fetched' = [fetched EXCEPT ![r] = [x \in ExternalIds |-> None]]
        /\ todo' = [todo EXCEPT ![r] = {}] /\ doc' = [doc EXCEPT ![r] = None]
        /\ row' = [row EXCEPT ![r] = 0] /\ prior' = [prior EXCEPT ![r] = {}]
    BY <1>1 DEF End, Goto
  <2>2. \A s \in Runs : pc'[s] \in Indexing \cup Saved =>
               s # r /\ pc'[s] = pc[s] /\ doc'[s] = doc[s] /\ row'[s] = row[s] /\ fetched'[s] = fetched[s]
    BY <2>1 DEF IngestTypeInv, Indexing, Saved
  <2>3. \A s \in Runs : \A x \in todo'[s] : fetched'[s][x] # None
    BY <2>1 DEF IngestTypeInv
  <2>4. /\ pc' \in [Runs -> Labels] /\ todo' \in [Runs -> SUBSET ExternalIds]
        /\ fetched' \in [Runs -> [ExternalIds -> Contents \cup {None}]]
    BY <2>1 DEF IngestTypeInv, Labels
  <2> QED  BY <2>1, <2>2, <2>3, <2>4 DEF IngestTypeInv, Content
<1>2. CASE NextDocument(r) /\ UNCHANGED <<fetched, todo>>
  <2>1. /\ pc' = [pc EXCEPT ![r] = "document"] /\ doc' = [doc EXCEPT ![r] = None]
        /\ row' = [row EXCEPT ![r] = 0] /\ prior' = [prior EXCEPT ![r] = {}] /\ UNCHANGED <<fetched, todo>>
    BY <1>2 DEF NextDocument, Goto
  <2>2. \A s \in Runs : pc'[s] \in Indexing \cup Saved =>
               s # r /\ pc'[s] = pc[s] /\ doc'[s] = doc[s] /\ row'[s] = row[s] /\ fetched'[s] = fetched[s]
    BY <2>1 DEF IngestTypeInv, Indexing, Saved
  <2>3. pc' \in [Runs -> Labels]
    BY <2>1 DEF IngestTypeInv, Labels
  <2> QED  BY <2>1, <2>2, <2>3 DEF IngestTypeInv, Content
<1> QED  BY <1>1, <1>2

\* A run that goes on to a label with the document and the row it has keeps them.
LEMMA GotoTypes ==
    ASSUME IngestTypeInv, NEW r \in Runs, NEW label \in Labels, Goto(r, label),
           label \in Indexing => pc[r] \in Indexing, label \in Saved => pc[r] \in Saved,
           UNCHANGED <<source, documents, fetched, todo, doc, row>>,
           DOMAIN chunks' = Rows, DOMAIN vectors' = Rows, DOMAIN attempt' = Rows, DOMAIN prior' = Runs,
           overlapped' \in BOOLEAN
    PROVE  IngestTypeInv'
<1>1. pc' = [pc EXCEPT ![r] = label] /\ pc' \in [Runs -> Labels]
  BY DEF Goto, IngestTypeInv
<1>2. \A s \in Runs : /\ pc'[s] \in Indexing => pc[s] \in Indexing
                      /\ pc'[s] \in Saved => pc[s] \in Saved
  BY <1>1 DEF IngestTypeInv
<1> QED  BY <1>1, <1>2 DEF IngestTypeInv, Content

LEMMA IngestTypeStep ==
    ASSUME IngestionAssumption, IngestTypeInv, [IngestNext]_ingestVars PROVE IngestTypeInv'
<1> USE DEF store, progress, history
<1>1. CASE Edit
  <2>1. source' \in [ExternalIds -> Contents \cup {None}]
    BY <1>1 DEF Edit, IngestTypeInv
  <2> QED  BY <1>1, <2>1 DEF Edit, IngestTypeInv, Content
<1>2. ASSUME NEW r \in Runs, BeginRun(r) PROVE IngestTypeInv'
  <2>1. /\ Goto(r, "fetch") /\ UNCHANGED <<source, documents, chunks, vectors, fetched, todo, doc, row, prior, attempt>>
        /\ overlapped' \in BOOLEAN
    BY <1>2 DEF BeginRun, IngestTypeInv
  <2> QED  BY <2>1, GotoTypes DEF IngestTypeInv, Labels, Indexing, Saved
<1>3. ASSUME NEW r \in Runs, Fetch(r) PROVE IngestTypeInv'
  <2>1. /\ pc' = [pc EXCEPT ![r] = "document"] /\ fetched' = [fetched EXCEPT ![r] = source]
        /\ todo' = [todo EXCEPT ![r] = {x \in ExternalIds : source[x] # None}]
        /\ UNCHANGED <<source, documents, chunks, vectors, doc, row, prior, attempt, overlapped>>
    BY <1>3 DEF Fetch, Goto
  <2>2. /\ pc' \in [Runs -> Labels] /\ todo' \in [Runs -> SUBSET ExternalIds]
        /\ fetched' \in [Runs -> [ExternalIds -> Contents \cup {None}]]
    BY <2>1 DEF IngestTypeInv, Labels
  <2>3. \A s \in Runs : pc'[s] \in Indexing \cup Saved => s # r /\ pc'[s] = pc[s] /\ fetched'[s] = fetched[s]
    BY <2>1 DEF IngestTypeInv, Indexing, Saved
  <2>4. \A s \in Runs : \A x \in todo'[s] : fetched'[s][x] # None
    BY <2>1 DEF IngestTypeInv
  <2> QED  BY <2>1, <2>2, <2>3, <2>4 DEF IngestTypeInv, Content
<1>4. ASSUME NEW r \in Runs, FetchFails(r) \/ Finish(r) \/ Crash(r) PROVE IngestTypeInv'
  <2>1. End(r) /\ UNCHANGED <<source, documents, chunks, vectors, overlapped>>
    BY <1>4 DEF FetchFails, Finish, Crash
  <2>2. DOMAIN attempt' = Rows /\ overlapped' \in BOOLEAN
    <3>1. attempt' = attempt \/ attempt' = [attempt EXCEPT ![row[r]] = "failed"]
      BY <1>4 DEF FetchFails, Finish, Crash
    <3>2. DOMAIN attempt = Rows /\ overlapped \in BOOLEAN
      BY DEF IngestTypeInv
    <3> QED  BY <2>1, <3>1, <3>2
  <2> QED  BY <2>1, <2>2, EndTypes
<1>5. ASSUME NEW r \in Runs, Document(r) PROVE IngestTypeInv'
  <2>1. PICK x \in todo[r] :
           /\ todo' = [todo EXCEPT ![r] = @ \ {x}]
           /\ \/ UNCHANGED <<pc, doc, row>>
              \/ /\ doc' = [doc EXCEPT ![r] = x] /\ row' = [row EXCEPT ![r] = RowOf(x)]
                 /\ pc' = [pc EXCEPT ![r] = "save"]
    BY <1>5 DEF Document, Goto
  <2>2. UNCHANGED <<source, documents, chunks, vectors, fetched, prior, attempt, overlapped>>
    BY <1>5 DEF Document
  <2>3. /\ x \in ExternalIds /\ fetched[r][x] \in Contents
        /\ todo' \in [Runs -> SUBSET ExternalIds] /\ \A s \in Runs : todo'[s] \subseteq todo[s]
    BY <2>1 DEF IngestTypeInv
  <2>4. CASE UNCHANGED <<pc, doc, row>>
    BY <2>2, <2>3, <2>4 DEF IngestTypeInv, Content
  <2>5. CASE /\ doc' = [doc EXCEPT ![r] = x] /\ row' = [row EXCEPT ![r] = RowOf(x)]
             /\ pc' = [pc EXCEPT ![r] = "save"]
    <3>1. RowOf(x) \in {0} \cup DOMAIN documents
      BY RowOfType DEF IngestTypeInv
    <3>2. pc' \in [Runs -> Labels]
      BY <2>5 DEF IngestTypeInv, Labels
    <3>3. \A s \in Runs : s # r => pc'[s] = pc[s] /\ doc'[s] = doc[s] /\ row'[s] = row[s]
      BY <2>5 DEF IngestTypeInv
    <3>4. doc'[r] = x /\ row'[r] = RowOf(x) /\ pc'[r] = "save" /\ pc'[r] \notin Saved
      BY <2>5 DEF IngestTypeInv, Saved
    <3> QED  BY <2>2, <2>3, <2>5, <3>1, <3>2, <3>3, <3>4 DEF IngestTypeInv, Content
  <2> QED  BY <2>1, <2>4, <2>5
<1>6. ASSUME NEW r \in Runs, Save(r) PROVE IngestTypeInv'
  <2>1. pc[r] = "save" /\ UNCHANGED <<source, chunks, vectors, fetched, todo, doc, prior, overlapped>>
    BY <1>6 DEF Save
  <2>2. PICK old \in Nat, i \in Rows :
           /\ old = IF row[r] = 0 THEN RowOf(doc[r]) ELSE row[r]
           /\ i = IF old = 0 THEN Len(documents) + 1 ELSE old
           /\ documents' = IF old = 0 THEN Append(documents, [externalId |-> doc[r], hash |-> Content(r)])
                           ELSE [documents EXCEPT ![i].hash = Content(r)]
           /\ row' = [row EXCEPT ![r] = i] /\ attempt' = [attempt EXCEPT ![i] = "running"]
    <3>1. row[r] \in {0} \cup DOMAIN documents /\ RowOf(doc[r]) \in {0} \cup DOMAIN documents
      BY <2>1, RowOfType DEF IngestTypeInv, Indexing
    <3>2. DOMAIN documents \subseteq Nat
      BY DEF IngestTypeInv
    <3>3. PICK old \in Nat : old = IF row[r] = 0 THEN RowOf(doc[r]) ELSE row[r]
      BY <3>1, <3>2
    <3> QED  BY <1>6, <3>3 DEF Save
  <2>3. PICK label \in {"list", "embed"} : pc' = [pc EXCEPT ![r] = label]
    BY <1>6 DEF Save, Goto
  <2>4. /\ doc[r] \in ExternalIds /\ Content(r) \in Contents /\ old \in {0} \cup DOMAIN documents
        /\ documents \in Seq(DocumentRows) /\ Len(documents) \in Nat /\ DOMAIN documents = 1..Len(documents)
    BY <2>1, <2>2, RowOfType DEF IngestTypeInv, Indexing
  <2>5. /\ documents' \in Seq(DocumentRows) /\ Len(documents') <= MaxRows
        /\ DOMAIN documents \subseteq DOMAIN documents' /\ i \in DOMAIN documents'
    <3>1. CASE old = 0
      <4> DEFINE new == [externalId |-> doc[r], hash |-> Content(r)]
      <4>1. new \in DocumentRows
        BY <2>4 DEF DocumentRows
      <4>2. documents' = Append(documents, new)
        BY <2>2, <3>1
      <4> HIDE DEF new
      <4>3. documents' \in Seq(DocumentRows) /\ Len(documents') = Len(documents) + 1
        BY <2>4, <4>1, <4>2
      <4>4. i = Len(documents) + 1 /\ i \in 1..MaxRows /\ MaxRows \in Nat
        BY <2>2, <3>1 DEF Rows, IngestionAssumption
      <4> QED  BY <2>4, <4>3, <4>4
    <3>2. CASE old # 0
      <4> DEFINE d == documents[i]
                 new == [d EXCEPT !.hash = Content(r)]
      <4>1. i = old /\ i \in DOMAIN documents /\ d \in DocumentRows
        BY <2>2, <2>4, <3>2
      <4>2. new \in DocumentRows
        <5> HIDE DEF d
        <5> QED  BY <2>4, <4>1 DEF DocumentRows
      <4>3. documents' = [documents EXCEPT ![i] = new]
        BY <2>2, <3>2
      <4> HIDE DEF new
      <4>4. documents' \in Seq(DocumentRows) /\ Len(documents') = Len(documents)
        BY <2>4, <4>1, <4>2, <4>3
      <4> QED  BY <2>4, <4>1, <4>4 DEF IngestTypeInv
    <3> QED  BY <3>1, <3>2
  <2>6. pc' \in [Runs -> Labels] /\ DOMAIN row' = Runs /\ DOMAIN attempt' = Rows
    BY <2>2, <2>3 DEF IngestTypeInv, Labels
  <2>7. \A s \in Runs : s # r => pc'[s] = pc[s] /\ row'[s] = row[s]
    BY <2>2, <2>3 DEF IngestTypeInv
  <2>8. row'[r] = i
    BY <2>2 DEF IngestTypeInv
  <2>9. \A s \in Runs : Content(s)' = Content(s)
    BY <2>1 DEF Content
  <2>10. ASSUME NEW s \in Runs
         PROVE  /\ pc'[s] \in Indexing => /\ doc'[s] \in ExternalIds /\ Content(s)' \in Contents
                                          /\ row'[s] \in {0} \cup DOMAIN documents'
                /\ pc'[s] \in Saved => row'[s] \in DOMAIN documents'
    <3>1. CASE s = r
      BY <2>1, <2>4, <2>5, <2>8, <2>9, <3>1
    <3>2. CASE s # r
      BY <2>1, <2>5, <2>7, <2>9, <3>2 DEF IngestTypeInv
    <3> QED  BY <3>1, <3>2
  <2> QED  BY <2>1, <2>5, <2>6, <2>10 DEF IngestTypeInv
<1>7. ASSUME NEW r \in Runs, Embed(r) \/ ListChunks(r) \/ DeletePrior(r) \/ ReplaceChunks(r) PROVE IngestTypeInv'
  <2>1. PICK label \in {"list", "delete", "replace", "upsert"} : Goto(r, label)
    BY <1>7 DEF Embed, ListChunks, DeletePrior, ReplaceChunks
  <2>2. pc[r] \in Saved /\ pc[r] \in Indexing /\ label \in Labels
        /\ UNCHANGED <<source, documents, fetched, todo, doc, row, attempt, overlapped>>
    BY <1>7 DEF Embed, ListChunks, DeletePrior, ReplaceChunks, Saved, Indexing, Labels
  <2>3. DOMAIN chunks' = Rows /\ DOMAIN vectors' = Rows /\ DOMAIN prior' = Runs
    BY <1>7 DEF Embed, ListChunks, DeletePrior, ReplaceChunks, IngestTypeInv
  <2> QED  BY <2>1, <2>2, <2>3, GotoTypes DEF IngestTypeInv
<1>8. ASSUME NEW r \in Runs, Upsert(r) PROVE IngestTypeInv'
  <2>1. /\ NextDocument(r) /\ UNCHANGED <<source, documents, chunks, fetched, todo, overlapped>>
        /\ pc' = [pc EXCEPT ![r] = "document"] /\ doc' = [doc EXCEPT ![r] = None]
        /\ row' = [row EXCEPT ![r] = 0] /\ prior' = [prior EXCEPT ![r] = {}]
    BY <1>8 DEF Upsert, NextDocument, Goto
  <2>2. DOMAIN attempt' = Rows /\ DOMAIN vectors' = Rows
    BY <1>8 DEF Upsert, IngestTypeInv
  <2>3. \A s \in Runs : pc'[s] \in Indexing \cup Saved =>
               s # r /\ pc'[s] = pc[s] /\ doc'[s] = doc[s] /\ row'[s] = row[s]
    BY <2>1 DEF IngestTypeInv, Indexing, Saved
  <2>4. pc' \in [Runs -> Labels]
    BY <2>1 DEF IngestTypeInv, Labels
  <2> QED  BY <2>1, <2>2, <2>3, <2>4 DEF IngestTypeInv, Content
<1>9. ASSUME NEW r \in Runs, DocumentFails(r) PROVE IngestTypeInv'
  <2>1. NextDocument(r) /\ UNCHANGED <<source, documents, chunks, vectors, fetched, todo, overlapped>>
    BY <1>9 DEF DocumentFails
  <2>2. DOMAIN attempt' = Rows /\ overlapped' \in BOOLEAN
    BY <1>9 DEF DocumentFails, IngestTypeInv
  <2> QED  BY <2>1, <2>2, EndTypes
<1>10. ASSUME NEW r \in Runs, LookupFails(r) PROVE IngestTypeInv'
  <2>1. PICK x \in todo[r] : todo' = [todo EXCEPT ![r] = @ \ {x}]
    BY <1>10 DEF LookupFails
  <2>2. UNCHANGED <<source, documents, chunks, vectors, pc, fetched, doc, row, prior, attempt, overlapped>>
    BY <1>10 DEF LookupFails
  <2>3. todo' \in [Runs -> SUBSET ExternalIds] /\ \A s \in Runs : todo'[s] \subseteq todo[s]
    BY <2>1 DEF IngestTypeInv
  <2> QED  BY <2>2, <2>3 DEF IngestTypeInv, Content
<1>11. CASE UNCHANGED ingestVars
  BY <1>11 DEF ingestVars, IngestTypeInv, Content
<1> QED  BY <1>1, <1>2, <1>3, <1>4, <1>5, <1>6, <1>7, <1>8, <1>9, <1>10, <1>11 DEF IngestNext

\* A step after which no run holds a row, and which indexes nothing, keeps the rows clean.
LEMMA QuietKeeps ==
    ASSUME OwnRowInv, CleanRowsInv, UNCHANGED <<documents, chunks, vectors>>,
           (\A r, s \in RunsInFlight : r = s)', \A r \in Runs : pc'[r] \notin Saved,
           \A i \in Rows : attempt'[i] = "indexed" => attempt[i] = "indexed"
    PROVE  OwnRowInv' /\ CleanRowsInv'
<1>1. \A r \in Runs : pc'[r] \notin Saved /\ pc'[r] # "delete" /\ pc'[r] \notin {"replace", "upsert"} /\ pc'[r] # "upsert"
  BY DEF Saved
<1>2. OwnRowInv'
  BY <1>1 DEF OwnRowInv
<1>3. CleanRowsInv'
  BY DEF CleanRowsInv
<1> QED  BY <1>2, <1>3

\* A step of the run in flight from a saved row to the next label of it.
LEMMA RowStepKeeps ==
    ASSUME IngestTypeInv, OwnRowInv, CleanRowsInv, NEW r \in Runs, pc[r] \in Saved, NEW label \in Saved,
           Goto(r, label), UNCHANGED <<documents, fetched, doc, row, attempt>>,
           \A i \in Rows : i # row[r] => chunks'[i] = chunks[i] /\ vectors'[i] = vectors[i],
           label = "delete" => prior'[r] = Ordinals(chunks'[row[r]]),
           label \in {"replace", "upsert"} => vectors'[row[r]] = {},
           label = "upsert" => chunks'[row[r]] = ChunksFor(Content(r)),
           Ordinals(vectors'[row[r]]) \subseteq Ordinals(chunks'[row[r]])
    PROVE  OwnRowInv' /\ CleanRowsInv'
<1>1. /\ \A s \in Runs : s # r => pc'[s] = pc[s] /\ pc[s] = "idle"
      /\ pc'[r] = label
  <2>1. r \in RunsInFlight
    BY DEF RunsInFlight, Saved
  <2>2. \A s \in Runs : s # r => pc[s] = "idle"
    BY <2>1 DEF OwnRowInv, RunsInFlight
  <2> QED  BY <2>2 DEF Goto, IngestTypeInv
<1>2. \A s \in Runs : s # r => pc'[s] \notin Saved /\ pc'[s] # "delete" /\ pc'[s] \notin {"replace", "upsert"} /\ pc'[s] # "upsert"
  BY <1>1 DEF Saved
<1>3. row[r] \in DOMAIN documents /\ attempt[row[r]] = "running" /\ documents[row[r]].hash = Content(r)
  BY DEF IngestTypeInv, OwnRowInv
<1>4. Content(r)' = Content(r)
  BY DEF Content
<1>5. \A c : ChunksFor(c)' = ChunksFor(c)
  BY DEF ChunksFor
<1>6. (\A q, s \in RunsInFlight : q = s)'
  BY <1>1 DEF RunsInFlight
<1>7. OwnRowInv'
  BY <1>1, <1>2, <1>3, <1>4, <1>5, <1>6 DEF OwnRowInv
<1>8. ASSUME NEW i \in Rows
      PROVE  /\ i \notin DOMAIN documents => chunks'[i] = {} /\ vectors'[i] = {}
             /\ Ordinals(vectors'[i]) \subseteq Ordinals(chunks'[i])
             /\ i \in DOMAIN documents /\ attempt[i] = "indexed" =>
                    vectors'[i] = ChunksFor(documents[i].hash) /\ chunks'[i] = ChunksFor(documents[i].hash)
  <2>1. CASE i = row[r]
    BY <1>3, <2>1
  <2>2. CASE i # row[r]
    BY <2>2 DEF CleanRowsInv
  <2> QED  BY <2>1, <2>2
<1>9. CleanRowsInv'
  BY <1>8 DEF CleanRowsInv
<1> QED  BY <1>7, <1>9

\* Saving a row makes it the run's own: it is being indexed from here on.
LEMMA SaveKeeps ==
    ASSUME IngestionAssumption, IngestTypeInv, IngestTypeInv', OwnRowInv, CleanRowsInv, NEW r \in Runs, Save(r)
    PROVE  OwnRowInv' /\ CleanRowsInv'
<1>1. pc[r] = "save" /\ UNCHANGED <<chunks, vectors, fetched, doc, prior>>
  BY DEF Save
<1>2. PICK old \in Nat, i \in Rows :
         /\ old = IF row[r] = 0 THEN RowOf(doc[r]) ELSE row[r]
         /\ i = IF old = 0 THEN Len(documents) + 1 ELSE old
         /\ documents' = IF old = 0 THEN Append(documents, [externalId |-> doc[r], hash |-> Content(r)])
                         ELSE [documents EXCEPT ![i].hash = Content(r)]
         /\ row' = [row EXCEPT ![r] = i] /\ attempt' = [attempt EXCEPT ![i] = "running"]
  <2>1. row[r] \in {0} \cup DOMAIN documents /\ RowOf(doc[r]) \in {0} \cup DOMAIN documents
    BY <1>1, RowOfType DEF IngestTypeInv, Indexing
  <2>2. DOMAIN documents \subseteq Nat
    BY DEF IngestTypeInv
  <2>3. PICK old \in Nat : old = IF row[r] = 0 THEN RowOf(doc[r]) ELSE row[r]
    BY <2>1, <2>2
  <2> QED  BY <2>3 DEF Save
<1>3. PICK label \in {"list", "embed"} : pc' = [pc EXCEPT ![r] = label]
  BY DEF Save, Goto
<1>4. \A s \in Runs : s # r => pc[s] = "idle" /\ pc'[s] = "idle"
  BY <1>1, <1>3 DEF OwnRowInv, RunsInFlight, IngestTypeInv
<1>5. pc'[r] = label /\ row'[r] = i /\ attempt'[i] = "running"
      /\ \A j \in Rows : j # i => attempt'[j] = attempt[j]
  BY <1>2, <1>3 DEF IngestTypeInv
<1>6. /\ documents'[i].hash = Content(r)
      /\ \A j \in Rows : j # i => /\ j \in DOMAIN documents' <=> j \in DOMAIN documents
                                  /\ j \in DOMAIN documents => documents'[j] = documents[j]
  <2>1. /\ doc[r] \in ExternalIds /\ Content(r) \in Contents /\ old \in {0} \cup DOMAIN documents
        /\ documents \in Seq(DocumentRows) /\ Len(documents) \in Nat /\ DOMAIN documents = 1..Len(documents)
    BY <1>1, <1>2, RowOfType DEF IngestTypeInv, Indexing
  <2>2. CASE old = 0
    <3> DEFINE new == [externalId |-> doc[r], hash |-> Content(r)]
    <3>1. documents' = Append(documents, new) /\ new.hash = Content(r) /\ i = Len(documents) + 1
      BY <1>2, <2>2
    <3> HIDE DEF new
    <3>2. /\ DOMAIN documents' = 1..(Len(documents) + 1) /\ documents'[i] = new
          /\ \A j \in DOMAIN documents : documents'[j] = documents[j]
      BY <2>1, <3>1
    <3>3. \A j \in Rows : j # i => (j \in DOMAIN documents' <=> j \in DOMAIN documents)
      BY <2>1, <3>1, <3>2 DEF Rows, IngestionAssumption
    <3> QED  BY <3>1, <3>2, <3>3
  <2>3. CASE old # 0
    <3> DEFINE d == documents[i]
               new == [d EXCEPT !.hash = Content(r)]
    <3>1. i \in DOMAIN documents /\ d \in DocumentRows
      BY <1>2, <2>1, <2>3
    <3>2. new.hash = Content(r)
      <4> HIDE DEF d
      <4> QED  BY <3>1 DEF DocumentRows
    <3>3. documents' = [documents EXCEPT ![i] = new]
      BY <1>2, <2>3
    <3> HIDE DEF new
    <3>4. DOMAIN documents' = DOMAIN documents /\ documents'[i] = new
          /\ \A j \in DOMAIN documents : j # i => documents'[j] = documents[j]
      BY <3>1, <3>3
    <3> QED  BY <3>2, <3>4
  <2> QED  BY <2>2, <2>3
<1>7. Content(r)' = Content(r)
  BY <1>1 DEF Content
<1>8. pc'[r] # "delete" /\ pc'[r] \notin {"replace", "upsert"} /\ pc'[r] # "upsert"
      /\ \A s \in Runs : s # r => pc'[s] \notin Saved /\ pc'[s] # "delete" /\ pc'[s] \notin {"replace", "upsert"}
                                  /\ pc'[s] # "upsert"
  BY <1>4, <1>5 DEF Saved
<1>9. OwnRowInv'
  <2>1. (\A q, s \in RunsInFlight : q = s)'
    BY <1>4 DEF RunsInFlight
  <2> QED  BY <1>5, <1>6, <1>7, <1>8, <2>1 DEF OwnRowInv
<1>10. ASSUME NEW j \in Rows
       PROVE  /\ j \notin DOMAIN documents' => chunks[j] = {} /\ vectors[j] = {}
              /\ Ordinals(vectors[j]) \subseteq Ordinals(chunks[j])
              /\ j \in DOMAIN documents' /\ attempt'[j] = "indexed" =>
                     vectors[j] = ChunksFor(documents'[j].hash) /\ chunks[j] = ChunksFor(documents'[j].hash)
  <2>1. CASE j = i
    <3>1. i \in DOMAIN documents'
      BY <1>3, <1>5 DEF IngestTypeInv, Saved
    <3> QED  BY <1>5, <2>1, <3>1 DEF CleanRowsInv
  <2>2. CASE j # i
    BY <1>5, <1>6, <2>2 DEF CleanRowsInv
  <2> QED  BY <2>1, <2>2
<1>11. CleanRowsInv'
  BY <1>1, <1>10 DEF CleanRowsInv, ChunksFor
<1> QED  BY <1>9, <1>11

LEMMA IngestInvStep ==
    ASSUME IngestionAssumption, IngestInv, [IngestNext]_ingestVars PROVE IngestInv'
<1>1. IngestTypeInv /\ IngestTypeInv'
  BY IngestTypeStep DEF IngestInv
<1> SUFFICES ASSUME ~ overlapped' PROVE OwnRowInv' /\ CleanRowsInv'
  BY <1>1 DEF IngestInv
<1>2. ~ overlapped /\ OwnRowInv /\ CleanRowsInv
  <2>1. overlapped => overlapped'
    BY DEF IngestNext, ingestVars, Edit, BeginRun, Fetch, FetchFails, Document, Save, Embed, ListChunks,
           DeletePrior, ReplaceChunks, Upsert, LookupFails, DocumentFails, Finish, Crash, store, progress, history
  <2> QED  BY <2>1 DEF IngestInv
<1> USE DEF store, progress, history
<1>3. \A r \in RunsInFlight : \A s \in Runs : s # r => pc[s] = "idle"
  BY <1>2 DEF OwnRowInv, RunsInFlight
<1>4. CASE Edit \/ UNCHANGED ingestVars
  <2>1. UNCHANGED <<documents, chunks, vectors, pc, fetched, doc, row, prior, attempt>>
    BY <1>4 DEF Edit, ingestVars
  <2> QED  BY <1>2, <2>1 DEF OwnRowInv, CleanRowsInv, RunsInFlight, Content
<1>5. ASSUME NEW r \in Runs, BeginRun(r) PROVE OwnRowInv' /\ CleanRowsInv'
  <2>1. /\ RunsInFlight = {} /\ pc' = [pc EXCEPT ![r] = "fetch"]
        /\ UNCHANGED <<documents, chunks, vectors, attempt>>
    BY <1>5 DEF BeginRun, Goto
  <2>2. \A s \in Runs : pc'[s] = IF s = r THEN "fetch" ELSE "idle"
    BY <1>1, <2>1 DEF RunsInFlight, IngestTypeInv
  <2>3. (\A q, s \in RunsInFlight : q = s)' /\ \A s \in Runs : pc'[s] \notin Saved
    BY <2>2 DEF RunsInFlight, Saved
  <2> QED  BY <1>2, <2>1, <2>3, QuietKeeps
<1>6. ASSUME NEW r \in RunsInFlight,
             Fetch(r) \/ FetchFails(r) \/ Document(r) \/ LookupFails(r) \/ DocumentFails(r) \/ Finish(r) \/ Crash(r)
      PROVE  OwnRowInv' /\ CleanRowsInv'
  <2>1. /\ r \in Runs /\ UNCHANGED <<documents, chunks, vectors>>
        /\ \/ \E label \in {"idle", "document", "save"} : pc' = [pc EXCEPT ![r] = label]
           \/ pc' = pc /\ pc[r] = "document"
    BY <1>6 DEF RunsInFlight, Fetch, FetchFails, Document, LookupFails, DocumentFails, Finish, Crash, End, NextDocument, Goto
  <2>2. \/ attempt' = attempt
        \/ attempt' = [attempt EXCEPT ![row[r]] = "failed"]
    BY <1>6 DEF Fetch, FetchFails, Document, LookupFails, DocumentFails, Finish, Crash
  <2>3. \A i \in Rows : attempt'[i] = "indexed" => attempt[i] = "indexed"
    BY <1>1, <2>2 DEF IngestTypeInv
  <2>4. /\ pc'[r] \in {"idle", "document", "save"}
        /\ \A s \in Runs : s # r => pc'[s] = "idle"
    BY <1>1, <1>3, <2>1 DEF IngestTypeInv
  <2>5. (\A q, s \in RunsInFlight : q = s)' /\ \A s \in Runs : pc'[s] \notin Saved
    BY <2>4 DEF RunsInFlight, Saved
  <2> QED  BY <1>2, <2>1, <2>3, <2>5, QuietKeeps
<1>7. ASSUME NEW r \in Runs, Save(r) PROVE OwnRowInv' /\ CleanRowsInv'
  BY <1>1, <1>2, <1>7, SaveKeeps
<1>8. ASSUME NEW r \in Runs, Embed(r) \/ ListChunks(r) \/ DeletePrior(r) \/ ReplaceChunks(r)
      PROVE  OwnRowInv' /\ CleanRowsInv'
  <2>1. /\ pc[r] \in Saved /\ UNCHANGED <<documents, fetched, doc, row, attempt>>
    BY <1>8 DEF Embed, ListChunks, DeletePrior, ReplaceChunks, Saved
  <2>2. row[r] \in DOMAIN documents /\ row[r] \in Rows
    <3>1. row[r] \in DOMAIN documents /\ documents \in Seq(DocumentRows) /\ Len(documents) <= MaxRows
      BY <1>1, <2>1 DEF IngestTypeInv
    <3>2. MaxRows \in Nat
      BY DEF IngestionAssumption
    <3> QED  BY <3>1, <3>2 DEF Rows
  <2>3. Ordinals(vectors[row[r]]) \subseteq Ordinals(chunks[row[r]])
    BY <1>2, <2>2 DEF CleanRowsInv
  <2>4. CASE Embed(r)
    <3>1. Goto(r, "list") /\ "list" \in Saved /\ UNCHANGED <<chunks, vectors>>
      BY <2>4 DEF Embed, Saved
    <3> QED  BY <1>1, <1>2, <2>1, <2>3, <3>1, RowStepKeeps
  <2>5. CASE ListChunks(r)
    <3>1. /\ Goto(r, "delete") /\ "delete" \in Saved /\ UNCHANGED <<chunks, vectors>>
          /\ prior'[r] = Ordinals(chunks[row[r]])
      BY <1>1, <2>5 DEF ListChunks, Saved, IngestTypeInv
    <3> QED  BY <1>1, <1>2, <2>1, <2>3, <3>1, RowStepKeeps
  <2>6. CASE DeletePrior(r)
    <3>1. /\ Goto(r, "replace") /\ "replace" \in Saved /\ UNCHANGED chunks
          /\ vectors' = [vectors EXCEPT ![row[r]] = {v \in @ : v[1] \notin prior[r]}]
          /\ prior[r] = Ordinals(chunks[row[r]])
      BY <1>2, <2>6 DEF DeletePrior, Saved, OwnRowInv
    <3>2. vectors'[row[r]] = {v \in vectors[row[r]] : v[1] \notin prior[r]}
          /\ \A i \in Rows : i # row[r] => vectors'[i] = vectors[i]
      BY <1>1, <2>2, <3>1 DEF IngestTypeInv
    <3>3. vectors'[row[r]] = {}
      BY <2>3, <3>1, <3>2 DEF Ordinals
    <3>4. Ordinals(vectors'[row[r]]) \subseteq Ordinals(chunks[row[r]])
      BY <3>3 DEF Ordinals
    <3> QED  BY <1>1, <1>2, <2>1, <3>1, <3>2, <3>3, <3>4, RowStepKeeps
  <2>7. CASE ReplaceChunks(r)
    <3>1. /\ Goto(r, "upsert") /\ "upsert" \in Saved /\ UNCHANGED vectors
          /\ chunks' = [chunks EXCEPT ![row[r]] = ChunksFor(Content(r))]
          /\ vectors[row[r]] = {}
      BY <1>2, <2>7 DEF ReplaceChunks, Saved, OwnRowInv
    <3>2. chunks'[row[r]] = ChunksFor(Content(r)) /\ \A i \in Rows : i # row[r] => chunks'[i] = chunks[i]
      BY <1>1, <2>2, <3>1 DEF IngestTypeInv
    <3>3. Ordinals(vectors'[row[r]]) \subseteq Ordinals(chunks'[row[r]])
      BY <3>1 DEF Ordinals
    <3> QED  BY <1>1, <1>2, <2>1, <3>1, <3>2, <3>3, RowStepKeeps
  <2> QED  BY <1>8, <2>4, <2>5, <2>6, <2>7
<1>9. ASSUME NEW r \in Runs, Upsert(r) PROVE OwnRowInv' /\ CleanRowsInv'
  <2> DEFINE new == ChunksFor(Content(r))
             old == {v \in vectors[row[r]] : v[1] \notin Ordinals(new)}
  <2>1. /\ pc[r] = "upsert" /\ pc' = [pc EXCEPT ![r] = "document"] /\ UNCHANGED <<documents, chunks>>
        /\ vectors' = [vectors EXCEPT ![row[r]] = old \cup new]
        /\ attempt' = [attempt EXCEPT ![row[r]] = "indexed"]
    BY <1>9 DEF Upsert, NextDocument, Goto
  <2>2. row[r] \in Rows /\ row[r] \in DOMAIN documents
    <3>1. row[r] \in DOMAIN documents /\ documents \in Seq(DocumentRows) /\ Len(documents) <= MaxRows
      BY <1>1, <2>1 DEF IngestTypeInv, Saved
    <3>2. MaxRows \in Nat
      BY DEF IngestionAssumption
    <3> QED  BY <3>1, <3>2 DEF Rows
  <2>3. vectors[row[r]] = {} /\ chunks[row[r]] = new /\ documents[row[r]].hash = Content(r)
    BY <1>2, <2>1 DEF OwnRowInv, Saved
  <2>4. old \cup new = new
    BY <2>3
  <2> HIDE DEF old, new
  <2>5. vectors'[row[r]] = new /\ \A i \in Rows : i # row[r] => vectors'[i] = vectors[i] /\ attempt'[i] = attempt[i]
    BY <1>1, <2>1, <2>2, <2>4 DEF IngestTypeInv
  <2>6. \A s \in Runs : pc'[s] = IF s = r THEN "document" ELSE "idle"
    BY <1>1, <1>3, <2>1 DEF IngestTypeInv, RunsInFlight
  <2>7. OwnRowInv'
    <3>1. \A s \in Runs : pc'[s] \notin Saved /\ pc'[s] # "delete" /\ pc'[s] \notin {"replace", "upsert"} /\ pc'[s] # "upsert"
      BY <2>6 DEF Saved
    <3>2. (\A q, s \in RunsInFlight : q = s)'
      BY <2>6 DEF RunsInFlight
    <3> QED  BY <3>1, <3>2 DEF OwnRowInv
  <2>8. ASSUME NEW i \in Rows
        PROVE  /\ i \notin DOMAIN documents => chunks[i] = {} /\ vectors'[i] = {}
               /\ Ordinals(vectors'[i]) \subseteq Ordinals(chunks[i])
               /\ i \in DOMAIN documents /\ attempt'[i] = "indexed" =>
                      vectors'[i] = ChunksFor(documents[i].hash) /\ chunks[i] = ChunksFor(documents[i].hash)
    <3>1. CASE i = row[r]
      BY <2>2, <2>3, <2>5, <3>1 DEF new
    <3>2. CASE i # row[r]
      BY <1>2, <2>5, <3>2 DEF CleanRowsInv
    <3> QED  BY <3>1, <3>2
  <2>9. CleanRowsInv'
    BY <2>1, <2>8 DEF CleanRowsInv, ChunksFor
  <2> QED  BY <2>7, <2>9
<1>10. \A r \in Runs : Fetch(r) \/ FetchFails(r) \/ Document(r) \/ LookupFails(r) \/ DocumentFails(r) \/ Finish(r) \/ Crash(r)
                           => r \in RunsInFlight
  BY DEF RunsInFlight, Fetch, FetchFails, Document, LookupFails, DocumentFails, Finish, Crash
<1> QED  BY <1>4, <1>5, <1>6, <1>7, <1>8, <1>9, <1>10 DEF IngestNext

\* As long as runs do not overlap, however many of them fail, die or find the source
\* changed, and wherever: no vector is left that the chunks of its document do not name,
\* and a document whose last indexing succeeded has the chunks and vectors of just that
\* content.
THEOREM NoStaleVectors ==
    ASSUME IngestionAssumption PROVE IngestSpec => []IndexHasNoStaleVectors
<1>1. IngestInit => IngestInv
  BY IngestInvInit
<1>2. IngestInv /\ [IngestNext]_ingestVars => IngestInv'
  BY IngestInvStep
<1>3. IngestInv => IndexHasNoStaleVectors
  <2> SUFFICES ASSUME IngestInv, ~ overlapped, NEW i \in DOMAIN documents
               PROVE  /\ Ordinals(vectors[i]) \subseteq Ordinals(chunks[i])
                      /\ attempt[i] = "indexed" =>
                             vectors[i] = ChunksFor(documents[i].hash) /\ chunks[i] = ChunksFor(documents[i].hash)
    BY DEF IndexHasNoStaleVectors
  <2>1. i \in Rows
    BY IngestionAssumption DEF IngestInv, IngestTypeInv, Rows, IngestionAssumption
  <2> QED  BY <2>1 DEF IngestInv, CleanRowsInv
<1> QED  BY <1>1, <1>2, <1>3, PTL DEF IngestSpec

-----------------------------------------------------------------------------
(* KnowledgeHub.                                                           *)

Writing == {"write", "audit", "emit"}
Moving == {"check", "place"}

HubTypeInv ==
    /\ versions \in [Pages -> Seq(Requests \cup {None})]
    /\ parentOf \in [Pages -> Pages \cup {None}]
    /\ index \in [Pages -> Nat] /\ wrote \in [Requests -> Nat]
    /\ step \in [Requests -> {"idle", "done"} \cup Writing \cup Moving]
    /\ DOMAIN work = Requests /\ DOMAIN page = Requests /\ DOMAIN to = Requests
    /\ moved \in BOOLEAN /\ unclean \subseteq Pages

\* An edge of the hierarchy that is there, or that a request is going to make.
SameSpace(p, x) == x \in Pages /\ Exists(x) /\ SpaceOf[x] = SpaceOf[p]

\* What the checks at the start of a request found stays true until it is done.
RequestInv ==
    \A r \in Requests :
        /\ step[r] \in Writing =>
               /\ work[r] \in {"create", "edit", "restore"} /\ page[r] \in Pages
               /\ work[r] = "restore" => to[r] \in DOMAIN versions[page[r]]
        /\ step[r] = "write" /\ work[r] = "create" /\ to[r] # None => SameSpace(page[r], to[r])
        /\ step[r] = "write" /\ work[r] # "create" => Exists(page[r])
        /\ step[r] \in Moving =>
               /\ work[r] = "move" /\ page[r] \in Pages /\ Exists(page[r])
               /\ to[r] # None => SameSpace(page[r], to[r])

\* A page whose writes are clean has one at a time, and has been indexed up to it.
HeadInv ==
    \A p \in Pages \ unclean :
        /\ \A r, s \in Writers(p) : r = s
        /\ (\A r \in Writers(p) : step[r] = "write") => index[p] = Len(versions[p])
        /\ \A r \in Writers(p) : step[r] \in {"audit", "emit"} => wrote[r] = Len(versions[p])

HubInv == HubTypeInv /\ RequestInv /\ HeadInv

\* An operation starts: what it may be about.
LEMMA StartFacts ==
    ASSUME HubTypeInv, NEW r \in Requests, NEW o, NEW p, NEW x, Start(r, o, p, x)
    PROVE  /\ step[r] = "idle" /\ work'[r] = o /\ page'[r] = p /\ to'[r] = x
           /\ \A s \in Requests : s # r => work'[s] = work[s] /\ page'[s] = page[s] /\ to'[s] = to[s]
           /\ DOMAIN work' = Requests /\ DOMAIN page' = Requests /\ DOMAIN to' = Requests
           /\ UNCHANGED <<versions, parentOf, index, wrote>>
BY DEF Start, HubTypeInv

\* The versions of a page are a sequence, empty while there is no page.
LEMMA VersionFacts ==
    ASSUME HubTypeInv, NEW p \in Pages
    PROVE  /\ versions[p] \in Seq(Requests \cup {None}) /\ Len(versions[p]) \in Nat
           /\ DOMAIN versions[p] = 1..Len(versions[p])
           /\ \A e \in Requests \cup {None} :
                 /\ Append(versions[p], e) \in Seq(Requests \cup {None}) /\ Append(versions[p], e) # <<>>
                 /\ Len(Append(versions[p], e)) = Len(versions[p]) + 1
                 /\ DOMAIN versions[p] \subseteq DOMAIN Append(versions[p], e)
<1> DEFINE v == versions[p]
<1>1. v \in Seq(Requests \cup {None})
  BY DEF HubTypeInv
<1> HIDE DEF v
<1>2. Len(v) \in Nat /\ DOMAIN v = 1..Len(v)
  BY <1>1
<1>3. ASSUME NEW e \in Requests \cup {None}
      PROVE  /\ Append(v, e) \in Seq(Requests \cup {None}) /\ Append(v, e) # <<>>
             /\ Len(Append(v, e)) = Len(v) + 1 /\ DOMAIN v \subseteq DOMAIN Append(v, e)
  <2>1. Append(v, e) \in Seq(Requests \cup {None}) /\ Len(Append(v, e)) = Len(v) + 1
    BY <1>1, <1>3
  <2>2. DOMAIN Append(v, e) = 1..(Len(v) + 1)
    BY <2>1
  <2> QED  BY <1>2, <2>1, <2>2
<1> QED  BY <1>1, <1>2, <1>3 DEF v

\* A write starts: the requests under way on other pages, and the versions, stay.
LEMMA BeginWriteKeeps ==
    ASSUME HubAssumption, HubInv, NEW r \in Requests, BeginWrite(r) PROVE HubInv'
<1>1. PICK p \in Pages, o \in {"create", "edit", "restore"}, x \in Pages \cup {None} \cup Nat :
         /\ Start(r, o, p, x)
         /\ o = "create" /\ x # None => SameSpace(p, x)
         /\ o # "create" => Exists(p)
         /\ o = "restore" => x \in DOMAIN versions[p]
  <2>1. \A q \in Pages : DOMAIN versions[q] \subseteq Nat
    BY VersionFacts DEF HubInv
  <2>2. PICK p \in Pages :
           \/ \E x \in {None} \cup {q \in Pages : Exists(q) /\ SpaceOf[q] = SpaceOf[p]} : Start(r, "create", p, x)
           \/ Exists(p) /\ Start(r, "edit", p, None)
           \/ \E v \in DOMAIN versions[p] : Start(r, "restore", p, v)
    BY DEF BeginWrite
  <2>3. CASE \E x \in {None} \cup {q \in Pages : Exists(q) /\ SpaceOf[q] = SpaceOf[p]} : Start(r, "create", p, x)
    BY <2>3 DEF SameSpace
  <2>4. CASE Exists(p) /\ Start(r, "edit", p, None)
    BY <2>4
  <2>5. CASE \E v \in DOMAIN versions[p] : Start(r, "restore", p, v)
    <3>1. PICK v \in DOMAIN versions[p] : Start(r, "restore", p, v)
      BY <2>5
    <3>2. versions[p] # <<>>
      BY <3>1
    <3> QED  BY <2>1, <3>1, <3>2 DEF Exists
  <2> QED  BY <2>2, <2>3, <2>4, <2>5
<1>2. /\ step' = [step EXCEPT ![r] = "write"] /\ UNCHANGED moved
      /\ unclean' = unclean \cup IF Writers(page'[r]) # {} THEN {page'[r]} ELSE {}
  BY DEF BeginWrite, HubAwaits
<1>3. /\ step[r] = "idle" /\ work'[r] = o /\ page'[r] = p /\ to'[r] = x
      /\ \A s \in Requests : s # r => work'[s] = work[s] /\ page'[s] = page[s] /\ to'[s] = to[s]
      /\ DOMAIN work' = Requests /\ DOMAIN page' = Requests /\ DOMAIN to' = Requests
      /\ UNCHANGED <<versions, parentOf, index, wrote>>
  BY <1>1, StartFacts DEF HubInv
<1>4. step'[r] = "write" /\ \A s \in Requests : s # r => step'[s] = step[s]
  BY <1>2 DEF HubInv, HubTypeInv
<1>5. HubTypeInv'
  BY <1>2, <1>3 DEF HubInv, HubTypeInv, Writing
<1>6. r \notin Active /\ Active' = Active \cup {r} /\ r \notin {s \in Active : TRUE}
  BY <1>3, <1>4 DEF Active
<1>7. \A q \in Pages : Writers(q)' = IF q = p THEN Writers(q) \cup {r} ELSE Writers(q)
  BY <1>1, <1>3, <1>6 DEF Writers, Active
<1>8. \A q : Exists(q)' = Exists(q)
  BY <1>3 DEF Exists
<1>9. RequestInv'
  <2>1. ASSUME NEW s \in Requests, s # r
        PROVE  /\ step[s] \in Writing =>
                      /\ work[s] \in {"create", "edit", "restore"} /\ page[s] \in Pages
                      /\ work[s] = "restore" => to[s] \in DOMAIN versions[page[s]]
               /\ step[s] = "write" /\ work[s] = "create" /\ to[s] # None => SameSpace(page[s], to[s])
               /\ step[s] = "write" /\ work[s] # "create" => Exists(page[s])
               /\ step[s] \in Moving =>
                      /\ work[s] = "move" /\ page[s] \in Pages /\ Exists(page[s])
                      /\ to[s] # None => SameSpace(page[s], to[s])
    BY DEF HubInv, RequestInv
  <2> QED  BY <1>1, <1>3, <1>4, <1>8, <2>1 DEF RequestInv, SameSpace, Writing, Moving, Exists
<1>10. HeadInv'
  <2> SUFFICES ASSUME NEW q \in Pages \ unclean'
               PROVE  /\ \A s, t \in Writers(q)' : s = t
                      /\ (\A s \in Writers(q)' : step'[s] = "write") => index'[q] = Len(versions'[q])
                      /\ \A s \in Writers(q)' : step'[s] \in {"audit", "emit"} => wrote'[s] = Len(versions'[q])
    BY DEF HeadInv
  <2>1. q \in Pages \ unclean
    BY <1>2
  <2>2. CASE q = p
    <3>1. Writers(p) = {} /\ Writers(q)' = {r}
      BY <1>2, <1>3, <1>7, <2>2
    <3> QED  BY <1>3, <1>4, <2>1, <2>2, <3>1 DEF HubInv, HeadInv
  <2>3. CASE q # p
    <3>1. Writers(q)' = Writers(q) /\ r \notin Writers(q)
      BY <1>6, <1>7, <2>3 DEF Writers
    <3>2. \A s \in Writers(q) : s \in Requests /\ step'[s] = step[s] /\ wrote'[s] = wrote[s]
      BY <1>3, <1>4, <3>1 DEF Writers, Active
    <3> QED  BY <1>3, <2>1, <3>1, <3>2 DEF HubInv, HeadInv
  <2> QED  BY <2>2, <2>3
<1> QED  BY <1>5, <1>9, <1>10 DEF HubInv

\* A step that writes nothing and starts no write of its own keeps the invariant, if a
\* write that breaks off after it has written marks its page.
LEMMA NoWriteKeeps ==
    ASSUME HubInv, NEW r \in Requests, NEW next \in {"done", "audit", "emit"} \cup Moving,
           HubAwaits(r, next), UNCHANGED <<versions, wrote>>,
           \A s \in Requests \ {r} : work'[s] = work[s] /\ page'[s] = page[s] /\ to'[s] = to[s],
           parentOf' \in [Pages -> Pages \cup {None}], moved' \in BOOLEAN,
           index' \in [Pages -> Nat], unclean' \in SUBSET Pages, unclean \subseteq unclean',
           DOMAIN work' = Requests, DOMAIN page' = Requests, DOMAIN to' = Requests,
           next \in Moving => /\ work'[r] = "move" /\ page'[r] \in Pages /\ Exists(page'[r])
                              /\ to'[r] # None => SameSpace(page'[r], to'[r])
                              /\ step[r] \notin Writing,
           next = "emit" => step[r] = "audit" /\ UNCHANGED <<work, page, to>>,
           next # "audit",
           next = "done" => UNCHANGED <<work, page, to>>,
           next = "done" /\ step[r] \in {"audit", "emit"} =>
               page[r] \in unclean' \/ index'[page[r]] = wrote[r],
           \A p \in Pages : index'[p] = index[p] \/ (step[r] = "emit" /\ p = page[r])
    PROVE  HubInv'
<1>1. step'[r] = next /\ \A s \in Requests : s # r => step'[s] = step[s]
  BY DEF HubAwaits, HubInv, HubTypeInv
<1>2. HubTypeInv'
  BY DEF HubInv, HubTypeInv, HubAwaits, Writing, Moving
<1>3. \A p : Exists(p)' = Exists(p)
  BY DEF Exists
<1>4. \A p \in Pages : Writers(p)' \subseteq Writers(p)
  BY <1>1 DEF Writers, Active, Moving, HubInv, RequestInv, Writing
<1>5. RequestInv'
  <2> SUFFICES ASSUME NEW s \in Requests
               PROVE  /\ step'[s] \in Writing =>
                             /\ work'[s] \in {"create", "edit", "restore"} /\ page'[s] \in Pages
                             /\ work'[s] = "restore" => to'[s] \in DOMAIN versions[page'[s]]
                      /\ step'[s] = "write" /\ work'[s] = "create" /\ to'[s] # None =>
                             SameSpace(page'[s], to'[s])
                      /\ step'[s] = "write" /\ work'[s] # "create" => Exists(page'[s])
                      /\ step'[s] \in Moving =>
                             /\ work'[s] = "move" /\ page'[s] \in Pages /\ Exists(page'[s])
                             /\ to'[s] # None => SameSpace(page'[s], to'[s])
    BY DEF RequestInv, SameSpace, Exists
  <2>1. CASE s = r
    <3>1. CASE next \in Moving
      BY <1>1, <2>1, <3>1 DEF Moving, Writing
    <3>2. CASE next = "done"
      BY <1>1, <2>1, <3>2 DEF Moving, Writing
    <3>3. CASE next = "emit"
      BY <1>1, <2>1, <3>3 DEF Moving, Writing, HubInv, RequestInv
    <3> QED  BY <3>1, <3>2, <3>3
  <2>2. CASE s # r
    <3>1. step'[s] = step[s] /\ work'[s] = work[s] /\ page'[s] = page[s] /\ to'[s] = to[s]
      BY <1>1, <2>2
    <3>2. ASSUME NEW q \in Active', work'[q] # "move" PROVE q \in Active /\ page'[q] = page[q] /\ work[q] = work'[q]
      BY <1>1, <3>2 DEF Active, Moving
    <3> QED  BY <3>1, <3>2 DEF HubInv, RequestInv
  <2> QED  BY <2>1, <2>2
<1>6. HeadInv'
  <2> SUFFICES ASSUME NEW p \in Pages \ unclean'
               PROVE  /\ \A s, t \in Writers(p)' : s = t
                      /\ (\A s \in Writers(p)' : step'[s] = "write") => index'[p] = Len(versions[p])
                      /\ \A s \in Writers(p)' : step'[s] \in {"audit", "emit"} => wrote[s] = Len(versions[p])
    BY DEF HeadInv
  <2>1. /\ \A s, t \in Writers(p) : s = t
        /\ (\A s \in Writers(p) : step[s] = "write") => index[p] = Len(versions[p])
        /\ \A s \in Writers(p) : step[s] \in {"audit", "emit"} => wrote[s] = Len(versions[p])
    BY DEF HubInv, HeadInv
  <2>2. CASE r \in Writers(p)
    <3>1. Writers(p) = {r} /\ page[r] = p /\ step[r] \in Writing
      BY <2>1, <2>2 DEF Writers, Active, HubInv, RequestInv, HubTypeInv, Moving
    <3>2. CASE next = "done"
      <4>1. Writers(p)' = {}
        BY <1>1, <1>4, <3>1, <3>2 DEF Writers, Active
      <4>2. step[r] = "write" => index'[p] = index[p]
        BY <3>1
      <4> QED  BY <2>1, <3>1, <3>2, <4>1, <4>2 DEF Writing
    <3>3. CASE next = "emit"
      <4>1. r \in Writers(p)' /\ Writers(p)' = {r}
        BY <1>1, <1>4, <3>1, <3>3 DEF Writers, Active
      <4> QED  BY <1>1, <2>1, <3>1, <3>3, <4>1
    <3> QED  BY <3>1, <3>2, <3>3 DEF Moving
  <2>3. CASE r \notin Writers(p)
    <3>1. \A s \in Writers(p)' : s \in Writers(p) /\ s # r /\ step'[s] = step[s]
      BY <1>1, <1>4, <2>3 DEF Writers, Active
    <3>2. \A s \in Writers(p) : s # r /\ s \in Writers(p)'
      BY <1>1, <2>3 DEF Writers, Active
    <3>3. index'[p] = index[p]
      <4>1. CASE step[r] = "emit" /\ p = page[r]
        BY <2>3, <4>1 DEF Writers, Active, HubInv, RequestInv, Writing
      <4> QED  BY <4>1
    <3> QED  BY <2>1, <3>1, <3>2, <3>3
  <2> QED  BY <2>2, <2>3
<1> QED  BY <1>2, <1>5, <1>6 DEF HubInv

\* The write itself: a version more on its page.
LEMMA WriteKeeps ==
    ASSUME HubAssumption, HubInv, NEW r \in Requests, WriteVersion(r) PROVE HubInv'
<1> DEFINE p == page[r]
           e == IF work[r] = "restore" THEN versions[p][to[r]] ELSE r
<1>1. /\ step[r] = "write" /\ step' = [step EXCEPT ![r] = "audit"]
      /\ versions' = [versions EXCEPT ![p] = Append(versions[p], e)]
      /\ parentOf' = IF work[r] = "create" THEN [parentOf EXCEPT ![p] = to[r]] ELSE parentOf
      /\ wrote' = [wrote EXCEPT ![r] = Len(versions[p]) + 1]
      /\ UNCHANGED <<index, work, page, to, moved, unclean>>
  BY DEF WriteVersion, HubAwaits, hubLocals
<1>2. p \in Pages /\ work[r] \in {"create", "edit", "restore"} /\ HubTypeInv
  BY <1>1 DEF HubInv, RequestInv, Writing
<1>3. e \in Requests \cup {None}
  <2>1. work[r] = "restore" => to[r] \in DOMAIN versions[p] /\ versions[p] \in Seq(Requests \cup {None})
    BY <1>1, <1>2, VersionFacts DEF HubInv, RequestInv, Writing
  <2>2. work[r] = "restore" => versions[p][to[r]] \in Requests \cup {None}
    BY <2>1
  <2> QED  BY <2>2
<1> HIDE DEF p, e
<1>4. /\ versions'[p] \in Seq(Requests \cup {None}) /\ versions'[p] # <<>>
      /\ Len(versions'[p]) = Len(versions[p]) + 1 /\ Len(versions[p]) \in Nat
      /\ DOMAIN versions[p] \subseteq DOMAIN versions'[p]
      /\ \A q \in Pages : q # p => versions'[q] = versions[q]
  <2>1. /\ Append(versions[p], e) \in Seq(Requests \cup {None}) /\ Append(versions[p], e) # <<>>
        /\ Len(Append(versions[p], e)) = Len(versions[p]) + 1 /\ Len(versions[p]) \in Nat
        /\ DOMAIN versions[p] \subseteq DOMAIN Append(versions[p], e)
    BY <1>2, <1>3, VersionFacts
  <2>2. versions'[p] = Append(versions[p], e) /\ \A q \in Pages : q # p => versions'[q] = versions[q]
    BY <1>1, <1>2 DEF HubTypeInv
  <2> QED  BY <2>1, <2>2
<1>5. step'[r] = "audit" /\ \A s \in Requests : s # r => step'[s] = step[s]
  BY <1>1, <1>2 DEF HubTypeInv
<1>6. HubTypeInv'
  <2>1. to[r] \in Pages \cup {None} \/ work[r] # "create"
    BY <1>1 DEF HubInv, RequestInv, SameSpace
  <2>2. parentOf' \in [Pages -> Pages \cup {None}]
    BY <1>1, <1>2, <2>1 DEF HubTypeInv
  <2>3. versions' \in [Pages -> Seq(Requests \cup {None})]
    BY <1>1, <1>2, <1>4 DEF HubTypeInv
  <2>4. wrote' \in [Requests -> Nat]
    BY <1>1, <1>2, <1>4 DEF HubTypeInv
  <2>5. step' \in [Requests -> {"idle", "done"} \cup Writing \cup Moving]
    BY <1>1, <1>2 DEF HubTypeInv, Writing
  <2> QED  BY <1>1, <1>2, <2>2, <2>3, <2>4, <2>5 DEF HubTypeInv
<1>7. \A q \in Pages : (Exists(q) => Exists(q)') /\ (q # p => Exists(q)' = Exists(q))
  BY <1>4 DEF Exists
<1>8. \A q \in Pages : Writers(q)' = Writers(q)
  BY <1>1, <1>5 DEF Writers, Active
<1>9. r \in Writers(p) /\ r \in Active /\ Active' = Active
  BY <1>1, <1>2, <1>5 DEF Writers, Active, p
<1>10. RequestInv'
  <2> SUFFICES ASSUME NEW s \in Requests
               PROVE  /\ step'[s] \in Writing =>
                             /\ work[s] \in {"create", "edit", "restore"} /\ page[s] \in Pages
                             /\ work[s] = "restore" => to[s] \in DOMAIN versions'[page[s]]
                      /\ step'[s] = "write" /\ work[s] = "create" /\ to[s] # None => SameSpace(page[s], to[s])'
                      /\ step'[s] = "write" /\ work[s] # "create" => Exists(page[s])'
                      /\ step'[s] \in Moving =>
                             /\ work[s] = "move" /\ page[s] \in Pages /\ Exists(page[s])'
                             /\ to[s] # None => SameSpace(page[s], to[s])'
    BY <1>1 DEF RequestInv, SameSpace, Exists
  <2>1. \A q, x : SameSpace(q, x) => SameSpace(q, x)'
    BY <1>7 DEF SameSpace
  <2>2. CASE s = r
    BY <1>1, <1>2, <1>4, <1>5, <2>2 DEF HubInv, RequestInv, Writing, Moving, p
  <2>3. CASE s # r
    <3>2. step[s] \in Writing /\ work[s] = "restore" => to[s] \in DOMAIN versions'[page[s]]
      <4>1. step[s] \in Writing /\ work[s] = "restore" => page[s] \in Pages /\ to[s] \in DOMAIN versions[page[s]]
        BY DEF HubInv, RequestInv
      <4>2. CASE page[s] = p
        BY <1>4, <4>1, <4>2
      <4>3. CASE page[s] # p
        BY <1>4, <4>1, <4>3
      <4> QED  BY <4>2, <4>3
    <3>3. step'[s] = step[s]
      BY <1>5, <2>3
    <3>4. step[s] \in Writing => work[s] \in {"create", "edit", "restore"} /\ page[s] \in Pages
      BY DEF HubInv, RequestInv
    <3>5. step[s] = "write" /\ work[s] = "create" /\ to[s] # None => SameSpace(page[s], to[s])'
      BY <1>1, <2>1 DEF HubInv, RequestInv
    <3>6. step[s] = "write" /\ work[s] # "create" => Exists(page[s])'
      BY <1>1, <1>7, <3>4 DEF HubInv, RequestInv, Writing, Exists
    <3>7. step[s] \in Moving =>
              /\ work[s] = "move" /\ page[s] \in Pages /\ Exists(page[s])'
              /\ to[s] # None => SameSpace(page[s], to[s])'
      BY <1>1, <1>7 DEF HubInv, RequestInv, SameSpace, Exists
    <3> QED  BY <3>2, <3>3, <3>4, <3>5, <3>6, <3>7
  <2> QED  BY <2>2, <2>3
<1>11. HeadInv'
  <2> SUFFICES ASSUME NEW q \in Pages \ unclean
               PROVE  /\ \A s, t \in Writers(q) : s = t
                      /\ (\A s \in Writers(q) : step'[s] = "write") => index[q] = Len(versions'[q])
                      /\ \A s \in Writers(q) : step'[s] \in {"audit", "emit"} => wrote'[s] = Len(versions'[q])
    BY <1>1, <1>8 DEF HeadInv
  <2>1. CASE q = p
    <3>1. Writers(q) = {r}
      BY <1>9, <2>1 DEF HubInv, HeadInv
    <3>2. wrote'[r] = Len(versions'[p])
      BY <1>1, <1>2, <1>4 DEF HubTypeInv
    <3> QED  BY <1>5, <2>1, <3>1, <3>2
  <2>2. CASE q # p
    <3>1. r \notin Writers(q)
      BY <2>2 DEF Writers, p
    <3>2. \A s \in Writers(q) : step'[s] = step[s] /\ wrote'[s] = wrote[s]
      BY <1>1, <1>2, <1>5, <3>1 DEF Writers, Active, HubTypeInv
    <3> QED  BY <1>4, <2>2, <3>2 DEF HubInv, HeadInv
  <2> QED  BY <2>1, <2>2
<1> QED  BY <1>6, <1>10, <1>11 DEF HubInv

LEMMA HubInvInit ==
    ASSUME HubAssumption, HubInit PROVE HubInv
<1>1. \A p \in Pages : versions[p] \in Seq(Requests \cup {None}) /\ Len(versions[p]) \in Nat
  <2> SUFFICES ASSUME NEW p \in Pages
               PROVE  versions[p] \in Seq(Requests \cup {None}) /\ Len(versions[p]) \in Nat
    OBVIOUS
  <2>1. CASE versions[p] = <<None>>
    <3>1. <<None>> \in Seq({None} \cup Requests) /\ Len(<<None>>) = 1
      OBVIOUS
    <3>2. {None} \cup Requests = Requests \cup {None}
      OBVIOUS
    <3> QED  BY <2>1, <3>1, <3>2
  <2>2. CASE versions[p] = <<>>
    BY <2>2
  <2> QED  BY <2>1, <2>2 DEF HubInit
<1>2. HubTypeInv
  <2>1. versions \in [Pages -> Seq(Requests \cup {None})]
    BY <1>1 DEF HubInit
  <2>2. index \in [Pages -> Nat]
    BY <1>1 DEF HubInit
  <2> QED  BY <2>1, <2>2 DEF HubInit, HubTypeInv
<1>3. Active = {}
  BY DEF HubInit, Active
<1>4. RequestInv
  BY DEF HubInit, RequestInv, Writing, Moving
<1>5. HeadInv
  BY <1>3 DEF HubInit, HeadInv, Writers
<1> QED  BY <1>2, <1>4, <1>5 DEF HubInv

LEMMA HubInvStep ==
    ASSUME HubAssumption, HubInv, [HubNext]_hubVars PROVE HubInv'
<1>1. CASE UNCHANGED hubVars
  <2>1. /\ Active' = Active /\ \A p : Writers(p)' = Writers(p)
    BY <1>1 DEF hubVars, Active, Writers
  <2> QED  BY <1>1, <2>1 DEF hubVars, HubInv, HubTypeInv, RequestInv, HeadInv, SameSpace, Exists
<1> SUFFICES ASSUME HubNext PROVE HubInv'
  BY <1>1
<1>2. ASSUME NEW r \in Requests, BeginWrite(r) PROVE HubInv'
  BY <1>2, BeginWriteKeeps
<1>3. ASSUME NEW r \in Requests, WriteVersion(r) PROVE HubInv'
  BY <1>3, WriteKeeps
<1>4. ASSUME NEW r \in Requests, BeginMove(r) PROVE HubInv'
  <2>1. PICK p \in Pages, x \in Pages \cup {None} :
           /\ Start(r, "move", p, x) /\ Exists(p) /\ (x # None => SameSpace(p, x))
    BY <1>4 DEF BeginMove, SameSpace
  <2>2. /\ step[r] = "idle" /\ work'[r] = "move" /\ page'[r] = p /\ to'[r] = x
        /\ \A s \in Requests : s # r => work'[s] = work[s] /\ page'[s] = page[s] /\ to'[s] = to[s]
        /\ DOMAIN work' = Requests /\ DOMAIN page' = Requests /\ DOMAIN to' = Requests
        /\ UNCHANGED <<versions, parentOf, index, wrote>>
    BY <2>1, StartFacts DEF HubInv
  <2> DEFINE next == IF x = None THEN "place" ELSE "check"
  <2>3. HubAwaits(r, next) /\ UNCHANGED unclean /\ moved' \in BOOLEAN
    BY <1>4, <2>2 DEF BeginMove
  <2>4. next \in Moving
    BY DEF Moving
  <2> HIDE DEF next
  <2> QED  BY <2>1, <2>2, <2>3, <2>4, NoWriteKeeps DEF HubInv, HubTypeInv, Writing, Moving
<1>5. ASSUME NEW r \in Requests, Check(r) PROVE HubInv'
  <2> DEFINE next == IF WouldCreateCycle(page[r], to[r]) THEN "done" ELSE "place"
  <2>1. /\ step[r] = "check" /\ HubAwaits(r, next)
        /\ UNCHANGED <<versions, parentOf, index, work, page, to, wrote, moved, unclean>>
    BY <1>5 DEF Check, hubLocals
  <2>2. next \in {"done", "place"}
    OBVIOUS
  <2> HIDE DEF next
  <2>3. /\ work[r] = "move" /\ page[r] \in Pages /\ Exists(page[r])
        /\ (to[r] # None => SameSpace(page[r], to[r])) /\ step[r] \notin Writing
    BY <2>1 DEF HubInv, RequestInv, Moving, Writing
  <2>4. /\ parentOf' \in [Pages -> Pages \cup {None}] /\ moved' \in BOOLEAN
        /\ index' \in [Pages -> Nat] /\ unclean' \in SUBSET Pages
        /\ DOMAIN work' = Requests /\ DOMAIN page' = Requests /\ DOMAIN to' = Requests
    BY <2>1 DEF HubInv, HubTypeInv
  <2> QED  BY <2>1, <2>2, <2>3, <2>4, NoWriteKeeps DEF Moving
<1>6. ASSUME NEW r \in Requests, Place(r) PROVE HubInv'
  <2>1. /\ step[r] = "place" /\ HubAwaits(r, "done")
        /\ parentOf' = [parentOf EXCEPT ![page[r]] = to[r]]
        /\ UNCHANGED <<versions, index, work, page, to, wrote, moved, unclean>>
    BY <1>6 DEF Place, hubLocals
  <2>2. to[r] \in Pages \cup {None}
    BY <2>1 DEF HubInv, RequestInv, SameSpace, Moving
  <2>3. /\ parentOf' \in [Pages -> Pages \cup {None}] /\ moved' \in BOOLEAN
        /\ index' \in [Pages -> Nat] /\ unclean' \in SUBSET Pages
        /\ DOMAIN work' = Requests /\ DOMAIN page' = Requests /\ DOMAIN to' = Requests
    BY <2>1, <2>2 DEF HubInv, HubTypeInv
  <2> QED  BY <2>1, <2>3, NoWriteKeeps DEF Moving
<1>7. ASSUME NEW r \in Requests, Audit(r) PROVE HubInv'
  <2>1. /\ step[r] = "audit" /\ HubAwaits(r, "emit")
        /\ UNCHANGED <<versions, parentOf, index, work, page, to, wrote, moved, unclean>>
    BY <1>7 DEF Audit, hubLocals
  <2>2. /\ parentOf' \in [Pages -> Pages \cup {None}] /\ moved' \in BOOLEAN
        /\ index' \in [Pages -> Nat] /\ unclean' \in SUBSET Pages
        /\ DOMAIN work' = Requests /\ DOMAIN page' = Requests /\ DOMAIN to' = Requests
    BY <2>1 DEF HubInv, HubTypeInv
  <2> QED  BY <2>1, <2>2, NoWriteKeeps DEF Moving
<1>8. ASSUME NEW r \in Requests, Emit(r) PROVE HubInv'
  <2>1. /\ step[r] = "emit" /\ HubAwaits(r, "done")
        /\ index' = [index EXCEPT ![page[r]] = wrote[r]]
        /\ UNCHANGED <<versions, parentOf, work, page, to, wrote, moved, unclean>>
    BY <1>8 DEF Emit, hubLocals
  <2>2. page[r] \in Pages /\ wrote[r] \in Nat
    BY <2>1 DEF HubInv, HubTypeInv, RequestInv, Writing
  <2>3. /\ parentOf' \in [Pages -> Pages \cup {None}] /\ moved' \in BOOLEAN
        /\ index' \in [Pages -> Nat] /\ unclean' \in SUBSET Pages
        /\ DOMAIN work' = Requests /\ DOMAIN page' = Requests /\ DOMAIN to' = Requests
        /\ index'[page[r]] = wrote[r] /\ \A p \in Pages : p # page[r] => index'[p] = index[p]
    BY <2>1, <2>2 DEF HubInv, HubTypeInv
  <2> QED  BY <2>1, <2>3, NoWriteKeeps DEF Moving
<1>9. ASSUME NEW r \in Requests, Reject(r) PROVE HubInv'
  <2>1. /\ r \in Active /\ HubAwaits(r, "done")
        /\ unclean' = unclean \cup IF step[r] \in {"audit", "emit"} THEN {page[r]} ELSE {}
        /\ UNCHANGED <<versions, parentOf, index, work, page, to, wrote, moved>>
    BY <1>9 DEF Reject, hubLocals
  <2>2. step[r] \in {"audit", "emit"} => page[r] \in Pages
    BY DEF HubInv, RequestInv, Writing
  <2>3. /\ parentOf' \in [Pages -> Pages \cup {None}] /\ moved' \in BOOLEAN
        /\ index' \in [Pages -> Nat] /\ unclean' \in SUBSET Pages /\ unclean \subseteq unclean'
        /\ DOMAIN work' = Requests /\ DOMAIN page' = Requests /\ DOMAIN to' = Requests
        /\ step[r] \in {"audit", "emit"} => page[r] \in unclean'
    BY <2>1, <2>2 DEF HubInv, HubTypeInv
  <2> QED  BY <2>1, <2>3, NoWriteKeeps DEF Moving
<1> QED  BY <1>2, <1>3, <1>4, <1>5, <1>6, <1>7, <1>8, <1>9 DEF HubNext

\* Whatever edits, restores and re-parents are under way on other pages, and however
\* they fail: a page whose own writes came one after another and reached the index is
\* indexed at its head version as soon as none of them is under way.
THEOREM HeadIsIndexed ==
    ASSUME HubAssumption PROVE HubSpec => []IndexShowsTheHead
<1>1. HubInit => HubInv
  BY HubInvInit
<1>2. HubInv /\ [HubNext]_hubVars => HubInv'
  BY HubInvStep
<1>3. HubInv => IndexShowsTheHead
  BY DEF HubInv, HeadInv, IndexShowsTheHead
<1> QED  BY <1>1, <1>2, <1>3, PTL DEF HubSpec

-----------------------------------------------------------------------------
Movers == {r \in Active : work[r] = "move"}

\* An edge leads to a page of the same space.
EdgeInv == \A p \in Pages : parentOf[p] # None => Exists(p) /\ SameSpace(p, parentOf[p])

\* No set of pages has the parent of each of them: what a cycle is.
Acyclic == \A S \in SUBSET Pages : (\A q \in S : parentOf[q] \in S) => S = {}

\* The parent a page is about to get is in a set of pages with their parents that the
\* page is not in: what the check saw, and what nobody but another mover can undo.
PlaceInv ==
    \A r \in Requests :
        step[r] = "place" /\ to[r] # None =>
            \E S \in SUBSET Pages : to[r] \in S /\ WithParentPages(S) /\ page[r] \notin S

ForestInv ==
    /\ EdgeInv
    /\ ~ moved => Acyclic /\ PlaceInv /\ \A r, s \in Movers : r = s

\* A lineage has the page and the parents of its pages; where a hierarchy has no cycle
\* it ends at a root.
LEMMA LineageEndsAtARoot ==
    ASSUME HubTypeInv, Acyclic, NEW p \in Pages
    PROVE  \E q \in Lineage(p) : parentOf[q] = None
<1> SUFFICES ASSUME \A q \in Lineage(p) : parentOf[q] # None PROVE FALSE
  OBVIOUS
<1> DEFINE L == Lineage(p)
<1>1. L \in SUBSET Pages /\ p \in L
  BY DEF Lineage
<1>2. ASSUME NEW q \in L PROVE parentOf[q] \in L
  <2>1. q \in Pages /\ parentOf[q] # None /\ parentOf[q] \in Pages
    BY <1>2 DEF HubTypeInv, Lineage
  <2>2. ASSUME NEW S \in SUBSET Pages, p \in S, WithParentPages(S) PROVE parentOf[q] \in S
    <3>1. q \in S
      BY <1>2, <2>2 DEF Lineage
    <3> QED  BY <2>1, <2>2, <3>1 DEF WithParentPages
  <2> QED  BY <2>1, <2>2 DEF Lineage
<1> QED  BY <1>1, <1>2 DEF Acyclic

\* A write leaves every page that is there, and its own page.
LEMMA WriteKeepsPages ==
    ASSUME HubInv, NEW r \in Requests, WriteVersion(r)
    PROVE  (\A q \in Pages : Exists(q) => Exists(q)') /\ versions'[page[r]] # <<>>
<1> DEFINE p == page[r]
           e == IF work[r] = "restore" THEN versions[p][to[r]] ELSE r
<1>1. p \in Pages /\ versions' = [versions EXCEPT ![p] = Append(versions[p], e)]
  BY DEF WriteVersion, HubInv, RequestInv, Writing
<1>2. versions[p] \in Seq(Requests \cup {None}) /\ DOMAIN versions = Pages
  BY <1>1 DEF HubInv, HubTypeInv
<1> HIDE DEF p, e
<1>3. Len(Append(versions[p], e)) = Len(versions[p]) + 1 /\ Len(versions[p]) \in Nat
  BY <1>2
<1>4. Append(versions[p], e) # <<>>
  BY <1>3
<1>5. versions'[p] # <<>> /\ \A q \in Pages : q # p => versions'[q] = versions[q]
  BY <1>1, <1>2, <1>4
<1> QED  BY <1>5 DEF Exists, p

\* A new page is nobody's parent: it closes no cycle, and what a mover saw stays.
LEMMA CreateKeepsForest ==
    ASSUME HubAssumption, HubInv, ForestInv, NEW p \in Pages, NEW x \in Pages \cup {None},
           ~ Exists(p), x # None => SameSpace(p, x),
           parentOf' = [parentOf EXCEPT ![p] = x],
           Exists(p)', \A q \in Pages : Exists(q) => Exists(q)'
    PROVE  /\ EdgeInv'
           /\ Acyclic => Acyclic'
           /\ \A S \in SUBSET Pages : WithParentPages(S) =>
                  \A q \in S : Exists(q) /\ parentOf'[q] # None =>
                      parentOf'[q] = parentOf[q] /\ parentOf[q] \in S /\ Exists(parentOf[q])
<1>1. parentOf'[p] = x /\ \A q \in Pages : q # p => parentOf'[q] = parentOf[q]
  BY DEF HubInv, HubTypeInv
<1>2. \A q \in Pages : parentOf[q] # p
  BY DEF ForestInv, EdgeInv, SameSpace, HubAssumption
<1>3. EdgeInv'
  <2> SUFFICES ASSUME NEW q \in Pages, parentOf'[q] # None
               PROVE  /\ Exists(q)' /\ parentOf'[q] \in Pages /\ SpaceOf[parentOf'[q]] = SpaceOf[q]
                      /\ versions'[parentOf'[q]] # <<>>
    BY DEF EdgeInv, SameSpace, Exists
  <2>1. CASE q = p
    BY <1>1, <2>1 DEF SameSpace, Exists
  <2>2. CASE q # p
    BY <1>1, <2>2 DEF ForestInv, EdgeInv, SameSpace, Exists
  <2> QED  BY <2>1, <2>2
<1>4. ASSUME Acyclic, NEW S \in SUBSET Pages, \A q \in S : parentOf'[q] \in S PROVE S = {}
  <2>1. \A q \in S \ {p} : parentOf[q] \in S \ {p}
    BY <1>1, <1>2, <1>4
  <2>2. S \ {p} = {}
    BY <1>4, <2>1 DEF Acyclic
  <2>3. p \notin S
    <3> SUFFICES ASSUME p \in S PROVE FALSE
      OBVIOUS
    <3>1. x = p
      BY <1>1, <1>4, <2>2
    <3> QED  BY <3>1 DEF SameSpace, HubAssumption
  <2> QED  BY <2>2, <2>3
<1>5. ASSUME NEW S \in SUBSET Pages, WithParentPages(S), NEW q \in S, Exists(q), parentOf'[q] # None
      PROVE  parentOf'[q] \in S /\ Exists(parentOf[q]) /\ parentOf'[q] = parentOf[q]
  BY <1>1, <1>5 DEF WithParentPages, ForestInv, EdgeInv, SameSpace
<1> QED  BY <1>3, <1>4, <1>5 DEF Acyclic

\* A page put under one whose lineage it is not in closes no cycle.
LEMMA PlaceKeepsForest ==
    ASSUME HubAssumption, HubInv, ForestInv, NEW p \in Pages, NEW x \in Pages \cup {None},
           Exists(p), x # None => SameSpace(p, x),
           parentOf' = [parentOf EXCEPT ![p] = x], UNCHANGED versions
    PROVE  /\ EdgeInv'
           /\ Acyclic /\ (x # None => \E C \in SUBSET Pages : x \in C /\ WithParentPages(C) /\ p \notin C)
                  => Acyclic'
<1>1. parentOf'[p] = x /\ \A q \in Pages : q # p => parentOf'[q] = parentOf[q]
  BY DEF HubInv, HubTypeInv
<1>2. EdgeInv'
  <2> SUFFICES ASSUME NEW q \in Pages, parentOf'[q] # None
               PROVE  /\ Exists(q) /\ SameSpace(q, parentOf'[q])
    BY DEF EdgeInv, SameSpace, Exists
  <2> QED  BY <1>1 DEF ForestInv, EdgeInv
<1>3. ASSUME Acyclic, x # None => \E C \in SUBSET Pages : x \in C /\ WithParentPages(C) /\ p \notin C,
             NEW S \in SUBSET Pages, \A q \in S : parentOf'[q] \in S
      PROVE  S = {}
  <2>1. CASE p \notin S
    <3>1. \A q \in S : parentOf[q] \in S
      BY <1>1, <1>3, <2>1
    <3> QED  BY <1>3, <3>1 DEF Acyclic
  <2>2. CASE p \in S
    <3>1. x \in S /\ x # None
      BY <1>1, <1>3, <2>2 DEF HubAssumption
    <3>2. PICK C \in SUBSET Pages : x \in C /\ WithParentPages(C) /\ p \notin C
      BY <1>3, <3>1
    <3>3. \A q \in S \cap C : parentOf[q] \in S \cap C
      <4> SUFFICES ASSUME NEW q \in S \cap C PROVE parentOf[q] \in S \cap C
        OBVIOUS
      <4>1. q # p /\ parentOf[q] = parentOf'[q] /\ parentOf[q] \in S
        BY <1>1, <1>3, <3>2
      <4>2. parentOf[q] # None
        BY <4>1 DEF HubAssumption
      <4> QED  BY <3>2, <4>1, <4>2 DEF WithParentPages
    <3>4. S \cap C = {}
      BY <1>3, <3>3 DEF Acyclic
    <3> QED  BY <3>1, <3>2, <3>4
  <2> QED  BY <2>1, <2>2
<1> QED  BY <1>2, <1>3 DEF Acyclic

\* A step that changes no edge and gives no page a place it has not been checked for
\* keeps the forest.
LEMMA NoMoveKeepsForest ==
    ASSUME ForestInv, NEW r \in Requests, UNCHANGED <<parentOf, versions>>,
           \A s \in Requests \ {r} : step'[s] = step[s] /\ work'[s] = work[s] /\ page'[s] = page[s] /\ to'[s] = to[s],
           moved => moved',
           ~ moved' /\ r \in Movers' => r \in Movers \/ Movers = {},
           ~ moved' /\ step'[r] = "place" /\ to'[r] # None =>
               \E S \in SUBSET Pages : to'[r] \in S /\ WithParentPages(S) /\ page'[r] \notin S
    PROVE  ForestInv'
<1>1. EdgeInv'
  BY DEF ForestInv, EdgeInv, SameSpace, Exists
<1>2. Acyclic => Acyclic'
  BY DEF Acyclic
<1>3. ~ moved' => \A s, t \in Movers' : s = t
  <2>1. Movers' \subseteq Movers \cup {r}
    BY DEF Movers, Active
  <2> QED  BY <2>1 DEF ForestInv
<1>4. ASSUME ~ moved', NEW s \in Requests, step'[s] = "place", to'[s] # None
      PROVE  \E S \in SUBSET Pages : to'[s] \in S /\ WithParentPages(S) /\ page'[s] \notin S
  <2>1. CASE s = r
    BY <1>4, <2>1
  <2>2. CASE s # r
    <3>1. step[s] = "place" /\ to[s] # None /\ page'[s] = page[s] /\ to'[s] = to[s]
      BY <1>4, <2>2
    <3> QED  BY <1>4, <3>1 DEF ForestInv, PlaceInv
  <2> QED  BY <2>1, <2>2
<1>5. ~ moved' => PlaceInv'
  BY <1>4 DEF PlaceInv, WithParentPages
<1> QED  BY <1>1, <1>2, <1>3, <1>5 DEF ForestInv

LEMMA ForestInvInit ==
    ASSUME HubAssumption, HubInit PROVE ForestInv
<1>1. EdgeInv
  BY DEF HubInit, EdgeInv
<1>2. Acyclic
  BY DEF HubInit, Acyclic, HubAssumption
<1>3. PlaceInv /\ Movers = {}
  BY DEF HubInit, PlaceInv, Movers, Active
<1> QED  BY <1>1, <1>2, <1>3 DEF ForestInv

LEMMA ForestInvStep ==
    ASSUME HubAssumption, HubInv, ForestInv, [HubNext]_hubVars PROVE ForestInv'
<1>1. CASE UNCHANGED hubVars
  <2>1. EdgeInv'
    BY <1>1 DEF hubVars, ForestInv, EdgeInv, SameSpace, Exists
  <2>2. (Acyclic => Acyclic') /\ Movers' = Movers /\ (PlaceInv => PlaceInv')
    BY <1>1 DEF hubVars, Acyclic, Movers, Active, PlaceInv, WithParentPages
  <2> QED  BY <1>1, <2>1, <2>2 DEF hubVars, ForestInv
<1> SUFFICES ASSUME HubNext PROVE ForestInv'
  BY <1>1
<1>2. ASSUME NEW r \in Requests, BeginWrite(r) PROVE ForestInv'
  <2>1. PICK p, o, x : o \in {"create", "edit", "restore"} /\ Start(r, o, p, x)
    BY <1>2 DEF BeginWrite
  <2>2. /\ work'[r] = o /\ UNCHANGED <<parentOf, versions>>
        /\ \A s \in Requests : s # r => work'[s] = work[s] /\ page'[s] = page[s] /\ to'[s] = to[s]
    BY <2>1, StartFacts DEF HubInv
  <2>3. step'[r] = "write" /\ UNCHANGED moved /\ \A s \in Requests : s # r => step'[s] = step[s]
    BY <1>2 DEF BeginWrite, HubAwaits, HubInv, HubTypeInv
  <2>4. r \notin Movers'
    BY <2>1, <2>2 DEF Movers
  <2> QED  BY <2>2, <2>3, <2>4, NoMoveKeepsForest
<1>3. ASSUME NEW r \in Requests, BeginMove(r) PROVE ForestInv'
  <2>1. PICK p, x : Start(r, "move", p, x)
    BY <1>3 DEF BeginMove
  <2>2. /\ to'[r] = x /\ UNCHANGED <<parentOf, versions>>
        /\ \A s \in Requests : s # r => work'[s] = work[s] /\ page'[s] = page[s] /\ to'[s] = to[s]
    BY <2>1, StartFacts DEF HubInv
  <2>3. /\ step'[r] = IF to'[r] = None THEN "place" ELSE "check"
        /\ \A s \in Requests : s # r => step'[s] = step[s]
        /\ moved' = (moved \/ \E q \in Active : work[q] = "move")
    BY <1>3 DEF BeginMove, HubAwaits, HubInv, HubTypeInv
  <2>4. (moved => moved') /\ (~ moved' => Movers = {})
    BY <2>3 DEF Movers
  <2> QED  BY <2>2, <2>3, <2>4, NoMoveKeepsForest
<1>4. ASSUME NEW r \in Requests, Check(r) PROVE ForestInv'
  <2>1. /\ step[r] = "check" /\ UNCHANGED <<parentOf, versions, work, page, to, moved>>
        /\ step'[r] = IF WouldCreateCycle(page[r], to[r]) THEN "done" ELSE "place"
        /\ \A s \in Requests : s # r => step'[s] = step[s]
    BY <1>4 DEF Check, HubAwaits, hubLocals, HubInv, HubTypeInv
  <2>2. r \in Movers /\ page[r] \in Pages
    BY <2>1 DEF Movers, Active, HubInv, RequestInv, Moving
  <2>3. ~ WouldCreateCycle(page[r], to[r]) =>
            \E S \in SUBSET Pages : to[r] \in S /\ WithParentPages(S) /\ page[r] \notin S
    BY <2>2 DEF WouldCreateCycle, Lineage
  <2> QED  BY <2>1, <2>2, <2>3, NoMoveKeepsForest
<1>5. ASSUME NEW r \in Requests, Audit(r) \/ Emit(r) \/ Reject(r) PROVE ForestInv'
  <2>1. /\ step'[r] \in {"emit", "done"} /\ r \in Active /\ UNCHANGED <<parentOf, versions, work, page, to, moved>>
        /\ \A s \in Requests : s # r => step'[s] = step[s]
    BY <1>5 DEF Audit, Emit, Reject, Active, HubAwaits, hubLocals, HubInv, HubTypeInv
  <2>2. r \in Movers' => r \in Movers
    BY <2>1 DEF Movers
  <2> QED  BY <2>1, <2>2, NoMoveKeepsForest
<1>6. ASSUME NEW r \in Requests, WriteVersion(r), work[r] # "create" PROVE ForestInv'
  <2>1. /\ step[r] = "write" /\ step'[r] = "audit" /\ UNCHANGED <<parentOf, work, page, to, moved>>
        /\ \A s \in Requests : s # r => step'[s] = step[s]
    BY <1>6 DEF WriteVersion, HubAwaits, hubLocals, HubInv, HubTypeInv
  <2>2. \A q \in Pages : Exists(q) => Exists(q)'
    BY <1>6, WriteKeepsPages
  <2>3. EdgeInv'
    BY <2>1, <2>2 DEF ForestInv, EdgeInv, SameSpace, Exists
  <2>4. Acyclic => Acyclic'
    BY <2>1 DEF Acyclic
  <2>5. Movers' = Movers
    BY <2>1 DEF Movers, Active
  <2>6. PlaceInv => PlaceInv'
    BY <2>1 DEF PlaceInv, WithParentPages
  <2> QED  BY <2>1, <2>3, <2>4, <2>5, <2>6 DEF ForestInv
<1>7. ASSUME NEW r \in Requests, WriteVersion(r), work[r] = "create" PROVE ForestInv'
  <2>1. /\ step[r] = "write" /\ step'[r] = "audit" /\ UNCHANGED <<work, page, to, moved>>
        /\ parentOf' = [parentOf EXCEPT ![page[r]] = to[r]]
        /\ \A s \in Requests : s # r => step'[s] = step[s]
    BY <1>7 DEF WriteVersion, HubAwaits, hubLocals, HubInv, HubTypeInv
  <2>2. /\ page[r] \in Pages /\ ~ Exists(page[r]) /\ to[r] \in Pages \cup {None}
        /\ to[r] # None => SameSpace(page[r], to[r])
    BY <1>7, <2>1 DEF WriteVersion, HubInv, RequestInv, Writing, SameSpace
  <2>3. (\A q \in Pages : Exists(q) => Exists(q)') /\ versions'[page[r]] # <<>>
    BY <1>7, WriteKeepsPages
  <2>4. /\ EdgeInv' /\ (Acyclic => Acyclic')
        /\ \A S \in SUBSET Pages : WithParentPages(S) =>
               \A q \in S : Exists(q) /\ parentOf'[q] # None =>
                   parentOf'[q] = parentOf[q] /\ parentOf[q] \in S /\ Exists(parentOf[q])
    <3>1. PICK p \in Pages, x \in Pages \cup {None} : p = page[r] /\ x = to[r]
      BY <2>2
    <3>2. ~ Exists(p) /\ (x # None => SameSpace(p, x)) /\ parentOf' = [parentOf EXCEPT ![p] = x]
      BY <2>1, <2>2, <3>1
    <3>3. Exists(p)'
      BY <2>3, <3>1 DEF Exists
    <3> QED  BY <2>3, <3>2, <3>3, CreateKeepsForest
  <2>5. Movers' = Movers
    BY <2>1 DEF Movers, Active
  <2>6. ASSUME ~ moved, NEW s \in Requests, step[s] = "place", to[s] # None
        PROVE  \E S \in SUBSET Pages : to[s] \in S /\ WithParentPages(S)' /\ page[s] \notin S
    <3>1. PICK S \in SUBSET Pages : to[s] \in S /\ WithParentPages(S) /\ page[s] \notin S
      BY <2>6 DEF ForestInv, PlaceInv
    <3>2. PICK T \in SUBSET Pages : T = {q \in S : Exists(q)}
      OBVIOUS
    <3>3. to[s] \in T /\ page[s] \notin T
      BY <2>6, <3>1, <3>2 DEF HubInv, RequestInv, Moving, SameSpace
    <3>4. \A q \in T : parentOf'[q] # None => parentOf'[q] \in T
      BY <2>4, <3>1, <3>2
    <3>5. WithParentPages(T)'
      BY <3>4 DEF WithParentPages
    <3> QED  BY <3>3, <3>5
  <2>7. ~ moved => PlaceInv'
    BY <2>1, <2>6 DEF PlaceInv
  <2> QED  BY <2>1, <2>4, <2>5, <2>7 DEF ForestInv
<1>8. ASSUME NEW r \in Requests, Place(r) PROVE ForestInv'
  <2>1. /\ step[r] = "place" /\ step'[r] = "done" /\ UNCHANGED <<versions, work, page, to, moved>>
        /\ parentOf' = [parentOf EXCEPT ![page[r]] = to[r]]
        /\ \A s \in Requests : s # r => step'[s] = step[s]
    BY <1>8 DEF Place, HubAwaits, hubLocals, HubInv, HubTypeInv
  <2>2. /\ page[r] \in Pages /\ Exists(page[r]) /\ to[r] \in Pages \cup {None} /\ work[r] = "move"
        /\ to[r] # None => SameSpace(page[r], to[r])
    BY <2>1 DEF HubInv, RequestInv, Moving, SameSpace
  <2>3. /\ EdgeInv'
        /\ Acyclic /\ (to[r] # None => \E C \in SUBSET Pages : to[r] \in C /\ WithParentPages(C) /\ page[r] \notin C)
               => Acyclic'
    <3> DEFINE p == page[r]
               x == to[r]
    <3>1. p \in Pages /\ x \in Pages \cup {None} /\ Exists(p) /\ (x # None => SameSpace(p, x))
          /\ parentOf' = [parentOf EXCEPT ![p] = x] /\ UNCHANGED versions
      BY <2>1, <2>2
    <3> HIDE DEF p, x
    <3>2. /\ EdgeInv'
          /\ Acyclic /\ (x # None => \E C \in SUBSET Pages : x \in C /\ WithParentPages(C) /\ p \notin C) => Acyclic'
      BY <3>1, PlaceKeepsForest
    <3> QED  BY <3>2 DEF p, x
  <2>4. ~ moved => Acyclic'
    BY <2>1, <2>3 DEF ForestInv, PlaceInv
  <2>5. r \in Movers /\ Movers' \subseteq Movers /\ r \notin Movers'
    BY <2>1, <2>2 DEF Movers, Active
  <2>6. ~ moved => Movers' = {}
    BY <2>5 DEF ForestInv
  <2>7. \A s \in Requests : step'[s] = "place" => s \in Movers'
    BY <2>1 DEF Movers, Active, HubInv, RequestInv, Moving
  <2>8. ~ moved => PlaceInv'
    BY <2>6, <2>7 DEF PlaceInv
  <2> QED  BY <2>1, <2>3, <2>4, <2>6, <2>8 DEF ForestInv
<1> QED  BY <1>2, <1>3, <1>4, <1>5, <1>6, <1>7, <1>8 DEF HubNext

\* Whatever pages are created, written and moved: no edge of the hierarchy leaves a
\* space or leads to a page that is not there, and as long as re-parents do not overlap
\* every page is under a root.
THEOREM HierarchyStaysAForest ==
    ASSUME HubAssumption PROVE HubSpec => []HierarchyIsAForest
<1>1. HubInit => HubInv /\ ForestInv
  BY HubInvInit, ForestInvInit
<1>2. HubInv /\ ForestInv /\ [HubNext]_hubVars => HubInv' /\ ForestInv'
  BY HubInvStep, ForestInvStep
<1>3. HubInv /\ ForestInv => HierarchyIsAForest
  <2> SUFFICES ASSUME HubInv, ForestInv PROVE HierarchyIsAForest
    OBVIOUS
  <2>1. \A p \in Pages : parentOf[p] # None => Exists(parentOf[p]) /\ SpaceOf[parentOf[p]] = SpaceOf[p]
    BY DEF ForestInv, EdgeInv, SameSpace
  <2>2. ~ moved => \A p \in Pages : \E q \in Lineage(p) : parentOf[q] = None
    BY LineageEndsAtARoot DEF HubInv, ForestInv
  <2>3. ~ moved => Shown = {p \in Pages : Exists(p)}
    BY <2>2 DEF Shown
  <2> QED  BY <2>1, <2>3 DEF HierarchyIsAForest
<1> QED  BY <1>1, <1>2, <1>3, PTL DEF HubSpec

-----------------------------------------------------------------------------
(* ChatService.                                                            *)

Operations == {"send", "compare", "title", "edit", "branch", "regenerate"}
Calls == {"idle", "list", "question", "route", "answer", "generate", "recheck", "write", "done"}
MessageRecords == [role : {"user", "assistant"}, parent : Nat, by : {"user"} \cup Operations,
                   context : SUBSET Nat]

\* The ancestor path in a given list of messages, so that two of them can be compared.
PathIn(ms, n, leaf) ==
    {i \in 1..n : /\ leaf \in 1..n
                  /\ \A S \in SUBSET (1..n) :
                        leaf \in S /\ (\A j \in S : ms[j].parent \in 1..n => ms[j].parent \in S) => i \in S}

\* A model that is asked by the operation o for an answer to p, at the end of a thread, may be sent ctx.
Covers(o, p, thread, ctx) ==
    /\ o \in {"send", "compare"} => thread \subseteq ctx /\ \E n \in 0..(p - 1) : ctx = (1..n) \cup {p}
    /\ o \in {"edit", "regenerate"} => thread = ctx

ChatTypeInv ==
    /\ messages \in Seq(MessageRecords)
    /\ at \in [Requests -> Calls] /\ op \in [Requests -> Operations \cup {None}]
    /\ target \in [Requests -> Nat] /\ read \in [Requests -> Nat] /\ parent \in [Requests -> Nat]
    /\ context \in [Requests -> SUBSET Nat]

\* A message answers one that was there before it.
TreeInv == \A i \in DOMAIN messages : messages[i].parent < i

\* What a request knows of the tree when it writes to it.
ExchangeInv ==
    \A r \in Requests :
        /\ at[r] \in {"list", "question"} /\ op[r] \in {"edit", "branch", "regenerate"} =>
               target[r] \in DOMAIN messages
        /\ at[r] = "question" => /\ op[r] \in {"send", "compare", "edit", "branch"}
                                 /\ op[r] # "branch" => read[r] <= Len(messages)
                                 /\ op[r] = "edit" => target[r] <= read[r]
        /\ at[r] = "list" => op[r] \in Operations \ {"branch"}
        /\ at[r] \in {"route", "answer"} =>
               /\ op[r] \in Operations /\ parent[r] <= Len(messages)
               /\ Covers(op[r], parent[r], PathIn(messages, Len(messages), parent[r]), context[r])

AnswersInv ==
    \A i \in DOMAIN messages :
        Covers(messages[i].by, messages[i].parent, PathIn(messages, Len(messages), messages[i].parent), messages[i].context)

TitleInv == \A r \in Requests : at[r] = "write" /\ title = "user" => r \in late

ChatInv == ChatTypeInv /\ TreeInv /\ ExchangeInv /\ AnswersInv /\ TitleInv

\* The path of a message stays what it is when messages are added after it.
LEMMA PathStays ==
    ASSUME NEW ms, NEW ns, NEW n \in Nat, NEW k \in Nat, n <= k, NEW leaf \in 0..n,
           \A i \in 1..n : ms[i].parent \in 0..(i - 1) /\ ns[i].parent = ms[i].parent
    PROVE  PathIn(ns, k, leaf) = PathIn(ms, n, leaf)
<1>1. CASE leaf = 0
  BY <1>1 DEF PathIn
<1>2. CASE leaf \in 1..n
  <2>0. leaf \in 1..k /\ 1..n \subseteq 1..k
    BY <1>2
  <2>1. ASSUME NEW i \in PathIn(ns, k, leaf) PROVE i \in PathIn(ms, n, leaf)
    <3>1. \A j \in 1..n : ns[j].parent \in 1..k => ns[j].parent \in 1..n
      OBVIOUS
    <3>2. i \in 1..n
      BY <1>2, <2>0, <2>1, <3>1 DEF PathIn
    <3>3. ASSUME NEW S \in SUBSET (1..n), leaf \in S,
                 \A j \in S : ms[j].parent \in 1..n => ms[j].parent \in S
          PROVE  i \in S
      <4>1. \A j \in S : ns[j].parent \in 1..k => ns[j].parent \in S
        BY <3>1, <3>3
      <4>2. S \in SUBSET (1..k)
        BY <2>0
      <4> QED  BY <2>1, <3>3, <4>1, <4>2 DEF PathIn
    <3> QED  BY <1>2, <3>2, <3>3 DEF PathIn
  <2>2. ASSUME NEW i \in PathIn(ms, n, leaf) PROVE i \in PathIn(ns, k, leaf)
    <3>1. i \in 1..k
      BY <2>0, <2>2 DEF PathIn
    <3>2. ASSUME NEW S \in SUBSET (1..k), leaf \in S,
                 \A j \in S : ns[j].parent \in 1..k => ns[j].parent \in S
          PROVE  i \in S
      <4> DEFINE T == S \cap (1..n)
      <4>1. \A j \in T : ms[j].parent \in 1..n => ms[j].parent \in T
        BY <2>0, <3>2
      <4>2. T \in SUBSET (1..n) /\ leaf \in T
        BY <1>2, <3>2
      <4> HIDE DEF T
      <4>3. i \in T
        BY <2>2, <4>1, <4>2 DEF PathIn
      <4> QED  BY <4>3 DEF T
    <3> QED  BY <2>0, <3>1, <3>2 DEF PathIn
  <2> QED  BY <2>1, <2>2
<1> QED  BY <1>1, <1>2

\* The path of a message is the path of its parent, and the message.
LEMMA PathOfChild ==
    ASSUME NEW ms, NEW n \in Nat, NEW leaf \in 1..n, ms[leaf].parent \in 0..n
    PROVE  PathIn(ms, n, leaf) = PathIn(ms, n, ms[leaf].parent) \cup {leaf}
<1> DEFINE p == ms[leaf].parent
<1>1. leaf \in PathIn(ms, n, leaf)
  BY DEF PathIn
<1>2. ASSUME NEW i \in PathIn(ms, n, p) PROVE i \in PathIn(ms, n, leaf)
  BY <1>2 DEF PathIn
<1>3. ASSUME NEW i \in PathIn(ms, n, leaf), i # leaf PROVE i \in PathIn(ms, n, p)
  <2>1. i \in 1..n
    BY <1>3 DEF PathIn
  <2>2. p \in 1..n
    <3> SUFFICES ASSUME p \notin 1..n PROVE FALSE
      OBVIOUS
    <3>1. {leaf} \in SUBSET (1..n) /\ \A j \in {leaf} : ms[j].parent \in 1..n => ms[j].parent \in {leaf}
      OBVIOUS
    <3>2. i \in {leaf}
      BY <1>3, <3>1 DEF PathIn
    <3> QED  BY <1>3, <3>2
  <2>3. ASSUME NEW S \in SUBSET (1..n), p \in S,
               \A j \in S : ms[j].parent \in 1..n => ms[j].parent \in S
        PROVE  i \in S
    <3>1. PICK T \in SUBSET (1..n) : T = S \cup {leaf}
      OBVIOUS
    <3>2. leaf \in T /\ \A j \in T : ms[j].parent \in 1..n => ms[j].parent \in T
      BY <2>3, <3>1
    <3>3. i \in T
      BY <1>3, <3>2 DEF PathIn
    <3> QED  BY <1>3, <3>1, <3>3
  <2> HIDE DEF p
  <2> QED  BY <2>1, <2>2, <2>3 DEF PathIn
<1> QED  BY <1>1, <1>2, <1>3

\* A path goes up the list.
LEMMA PathIsBefore ==
    ASSUME NEW ms, NEW n \in Nat, NEW leaf \in 0..n,
           \A i \in 1..n : ms[i].parent \in 0..(i - 1)
    PROVE  PathIn(ms, n, leaf) \subseteq 1..leaf
<1>1. leaf \in Nat /\ leaf <= n /\ leaf \in 0..leaf /\ \A i \in 1..leaf : ms[i].parent \in 0..(i - 1)
  OBVIOUS
<1>2. PathIn(ms, n, leaf) = PathIn(ms, leaf, leaf)
  BY <1>1, PathStays
<1> QED  BY <1>2 DEF PathIn

\* ancestorPath is the path in the messages that are there.
LEMMA AncestorPathIs ==
    ASSUME NEW n, NEW leaf PROVE AncestorPath(n, leaf) = PathIn(messages, n, leaf)
BY DEF AncestorPath, PathIn, Upto, WithParents

\* Messages have parents before them.
LEMMA ParentFacts ==
    ASSUME ChatTypeInv, TreeInv
    PROVE  /\ Len(messages) \in Nat /\ DOMAIN messages = 1..Len(messages)
           /\ \A i \in 1..Len(messages) : messages[i].parent \in 0..(i - 1) /\ messages[i] \in MessageRecords
<1>1. messages \in Seq(MessageRecords)
  BY DEF ChatTypeInv
<1>2. Len(messages) \in Nat /\ DOMAIN messages = 1..Len(messages)
  BY <1>1
<1>3. \A i \in 1..Len(messages) : messages[i] \in MessageRecords
  BY <1>1
<1>4. \A i \in 1..Len(messages) : messages[i].parent \in Nat /\ messages[i].parent < i
  BY <1>2, <1>3 DEF TreeInv, MessageRecords
<1> QED  BY <1>2, <1>3, <1>4

\* A new message, whose parent is one that is there, or none.
LEMMA CreateFacts ==
    ASSUME ChatTypeInv, TreeInv, NEW role \in {"user", "assistant"}, NEW p \in 0..Len(messages),
           NEW by \in {"user"} \cup Operations, NEW ctx \in SUBSET Nat, Create(role, p, by, ctx)
    PROVE  /\ messages' \in Seq(MessageRecords) /\ TreeInv'
           /\ Len(messages') = Len(messages) + 1 /\ DOMAIN messages \subseteq DOMAIN messages'
           /\ DOMAIN messages' = 1..Len(messages')
           /\ \A i \in 1..Len(messages) : messages'[i] = messages[i]
           /\ LET m == messages'[Len(messages')] IN m.parent = p /\ m.by = by /\ m.context = ctx
           /\ \A x \in 0..Len(messages) : PathIn(messages', Len(messages'), x) = PathIn(messages, Len(messages), x)
           /\ PathIn(messages', Len(messages'), Len(messages')) = PathIn(messages, Len(messages), p) \cup {Len(messages')}
<1> DEFINE n == Len(messages)
           m == [role |-> role, parent |-> p, by |-> by, context |-> ctx]
<1>1. /\ n \in Nat /\ DOMAIN messages = 1..n /\ messages \in Seq(MessageRecords)
      /\ \A i \in 1..n : messages[i].parent \in 0..(i - 1)
  BY ParentFacts DEF ChatTypeInv
<1>2. m \in MessageRecords /\ m.parent = p /\ m.by = by /\ m.context = ctx
  BY <1>1 DEF MessageRecords
<1>3. messages' = Append(messages, m)
  BY DEF Create
<1> HIDE DEF n, m
<1>4. /\ messages' \in Seq(MessageRecords) /\ Len(messages') = n + 1
      /\ DOMAIN messages' = 1..(n + 1) /\ messages'[n + 1] = m
      /\ \A i \in 1..n : messages'[i] = messages[i]
  BY <1>1, <1>2, <1>3 DEF n
<1>5. p \in 0..n
  BY DEF n
<1>6. TreeInv'
  <2> SUFFICES ASSUME NEW i \in 1..(n + 1) PROVE messages'[i].parent < i
    BY <1>4 DEF TreeInv
  <2>1. CASE i = n + 1
    BY <1>1, <1>2, <1>4, <1>5, <2>1
  <2>2. CASE i \in 1..n
    BY <1>1, <1>4, <2>2
  <2> QED  BY <1>1, <2>1, <2>2
<1>7. ASSUME NEW x \in 0..n PROVE PathIn(messages', n + 1, x) = PathIn(messages, n, x)
  <2>1. n + 1 \in Nat /\ n <= n + 1
    BY <1>1
  <2>2. \A i \in 1..n : messages[i].parent \in 0..(i - 1) /\ messages'[i].parent = messages[i].parent
    BY <1>1, <1>4
  <2> QED  BY <1>1, <2>1, <2>2, PathStays
<1>8. PathIn(messages', n + 1, n + 1) = PathIn(messages, n, p) \cup {n + 1}
  <2>1. n + 1 \in Nat /\ n + 1 \in 1..(n + 1) /\ messages'[n + 1].parent = p /\ p \in 0..(n + 1)
    BY <1>1, <1>2, <1>4, <1>5
  <2>2. PathIn(messages', n + 1, n + 1) = PathIn(messages', n + 1, p) \cup {n + 1}
    BY <2>1, PathOfChild
  <2> QED  BY <1>5, <1>7, <2>2
<1> QED  BY <1>1, <1>2, <1>4, <1>6, <1>7, <1>8 DEF n

\* A new message that saw its thread, or that is the user's, leaves the answers right,
\* and what the other requests know.
LEMMA CreateKeeps ==
    ASSUME ChatInv, NEW r \in Requests,
           NEW role \in {"user", "assistant"}, NEW p \in 0..Len(messages),
           NEW by \in {"user"} \cup Operations, NEW ctx \in SUBSET Nat, Create(role, p, by, ctx),
           Covers(by, p, PathIn(messages, Len(messages), p), ctx),
           NEW next \in Calls \ {"list", "question", "write"}, ChatAwaits(r, next),
           UNCHANGED <<title, late>>,
           op' \in [Requests -> Operations \cup {None}], target' \in [Requests -> Nat],
           read' \in [Requests -> Nat], parent' \in [Requests -> Nat], context' \in [Requests -> SUBSET Nat],
           \A s \in Requests \ {r} :
               /\ op'[s] = op[s] /\ target'[s] = target[s] /\ read'[s] = read[s]
               /\ parent'[s] = parent[s] /\ context'[s] = context[s],
           next \in {"route", "answer"} =>
               /\ op'[r] \in Operations /\ parent'[r] <= Len(messages')
               /\ Covers(op'[r], parent'[r], PathIn(messages', Len(messages'), parent'[r]), context'[r])
    PROVE  ChatInv'
<1>0. ChatTypeInv /\ TreeInv
  BY DEF ChatInv
<1>1. /\ messages' \in Seq(MessageRecords) /\ TreeInv'
      /\ Len(messages') = Len(messages) + 1 /\ DOMAIN messages \subseteq DOMAIN messages'
      /\ DOMAIN messages' = 1..Len(messages')
      /\ \A i \in 1..Len(messages) : messages'[i] = messages[i]
      /\ LET m == messages'[Len(messages')] IN m.parent = p /\ m.by = by /\ m.context = ctx
      /\ \A x \in 0..Len(messages) : PathIn(messages', Len(messages'), x) = PathIn(messages, Len(messages), x)
  BY <1>0, CreateFacts
<1>2. /\ Len(messages) \in Nat /\ DOMAIN messages = 1..Len(messages)
      /\ \A i \in 1..Len(messages) : messages[i].parent \in 0..Len(messages)
  <2>1. /\ Len(messages) \in Nat /\ DOMAIN messages = 1..Len(messages)
        /\ \A i \in 1..Len(messages) : messages[i].parent \in 0..(i - 1)
    BY ParentFacts DEF ChatInv
  <2> QED  BY <2>1
<1>3. at'[r] = next /\ \A s \in Requests : s # r => at'[s] = at[s]
  BY DEF ChatAwaits, ChatInv, ChatTypeInv
<1>4. ChatTypeInv'
  <2>1. at' \in [Requests -> Calls]
    BY DEF ChatAwaits, ChatInv, ChatTypeInv
  <2> QED  BY <1>1, <2>1 DEF ChatInv, ChatTypeInv
<1>5. ExchangeInv'
  <2> SUFFICES ASSUME NEW s \in Requests
               PROVE  /\ at'[s] \in {"list", "question"} /\ op'[s] \in {"edit", "branch", "regenerate"} =>
                             target'[s] \in DOMAIN messages'
                      /\ at'[s] = "question" => /\ op'[s] \in {"send", "compare", "edit", "branch"}
                                                /\ op'[s] # "branch" => read'[s] <= Len(messages')
                                                /\ op'[s] = "edit" => target'[s] <= read'[s]
                      /\ at'[s] = "list" => op'[s] \in Operations \ {"branch"}
                      /\ at'[s] \in {"route", "answer"} =>
                             /\ op'[s] \in Operations /\ parent'[s] <= Len(messages')
                             /\ Covers(op'[s], parent'[s], PathIn(messages', Len(messages'), parent'[s]), context'[s])
    BY DEF ExchangeInv
  <2>1. CASE s = r
    BY <1>3, <2>1
  <2>2. CASE s # r
    <3>1. /\ at'[s] = at[s] /\ op'[s] = op[s] /\ target'[s] = target[s] /\ read'[s] = read[s]
          /\ parent'[s] = parent[s] /\ context'[s] = context[s] /\ parent[s] \in Nat /\ read[s] \in Nat
      BY <1>3, <2>2 DEF ChatInv, ChatTypeInv
    <3>2. parent[s] <= Len(messages) =>
              PathIn(messages', Len(messages'), parent[s]) = PathIn(messages, Len(messages), parent[s])
      BY <1>1, <1>2, <3>1
    <3>3. \A x \in Nat : x <= Len(messages) => x <= Len(messages')
      BY <1>1, <1>2
    <3>4. at[s] \in {"route", "answer"} =>
              /\ op[s] \in Operations /\ parent[s] <= Len(messages')
              /\ Covers(op[s], parent[s], PathIn(messages', Len(messages'), parent[s]), context[s])
      BY <3>1, <3>2, <3>3 DEF ChatInv, ExchangeInv
    <3> QED  BY <1>1, <3>1, <3>3, <3>4 DEF ChatInv, ExchangeInv
  <2> QED  BY <2>1, <2>2
<1>6. AnswersInv'
  <2> SUFFICES ASSUME NEW i \in 1..Len(messages')
               PROVE  Covers(messages'[i].by, messages'[i].parent, PathIn(messages', Len(messages'), messages'[i].parent), messages'[i].context)
    BY <1>1 DEF AnswersInv
  <2>1. CASE i \in 1..Len(messages)
    <3>1. messages'[i] = messages[i] /\ messages[i].parent \in 0..Len(messages)
      BY <1>1, <1>2, <2>1
    <3>2. Covers(messages[i].by, messages[i].parent, PathIn(messages, Len(messages), messages[i].parent), messages[i].context)
      BY <1>2, <2>1 DEF ChatInv, AnswersInv
    <3> QED  BY <1>1, <3>1, <3>2
  <2>2. CASE i = Len(messages')
    BY <1>1, <2>2
  <2> QED  BY <1>1, <1>2, <2>1, <2>2
<1>7. TitleInv'
  BY <1>3 DEF ChatInv, TitleInv
<1> QED  BY <1>1, <1>4, <1>5, <1>6, <1>7 DEF ChatInv

\* A step that creates no message and gives no request anything to write that it may not.
LEMMA NoMessageKeeps ==
    ASSUME ChatInv, NEW r \in Requests, NEW next \in Calls, ChatAwaits(r, next), UNCHANGED messages,
           op' \in [Requests -> Operations \cup {None}], target' \in [Requests -> Nat],
           read' \in [Requests -> Nat], parent' \in [Requests -> Nat], context' \in [Requests -> SUBSET Nat],
           \A s \in Requests \ {r} :
               /\ op'[s] = op[s] /\ target'[s] = target[s] /\ read'[s] = read[s]
               /\ parent'[s] = parent[s] /\ context'[s] = context[s],
           next \in {"list", "question"} /\ op'[r] \in {"edit", "branch", "regenerate"} =>
               target'[r] \in DOMAIN messages,
           next = "question" => /\ op'[r] \in {"send", "compare", "edit", "branch"}
                                /\ op'[r] # "branch" => read'[r] <= Len(messages)
                                /\ op'[r] = "edit" => target'[r] <= read'[r],
           next = "list" => op'[r] \in Operations \ {"branch"},
           next \in {"route", "answer"} =>
               /\ op'[r] \in Operations /\ parent'[r] <= Len(messages)
               /\ Covers(op'[r], parent'[r], PathIn(messages, Len(messages), parent'[r]), context'[r]),
           TitleInv'
    PROVE  ChatInv'
<1>1. at'[r] = next /\ \A s \in Requests : s # r => at'[s] = at[s]
  BY DEF ChatAwaits, ChatInv, ChatTypeInv
<1>2. ChatTypeInv'
  BY DEF ChatAwaits, ChatInv, ChatTypeInv
<1>3. TreeInv' /\ AnswersInv'
  BY DEF ChatInv, TreeInv, AnswersInv
<1>4. ExchangeInv'
  <2> SUFFICES ASSUME NEW s \in Requests
               PROVE  /\ at'[s] \in {"list", "question"} /\ op'[s] \in {"edit", "branch", "regenerate"} =>
                             target'[s] \in DOMAIN messages
                      /\ at'[s] = "question" => /\ op'[s] \in {"send", "compare", "edit", "branch"}
                                                /\ op'[s] # "branch" => read'[s] <= Len(messages)
                                                /\ op'[s] = "edit" => target'[s] <= read'[s]
                      /\ at'[s] = "list" => op'[s] \in Operations \ {"branch"}
                      /\ at'[s] \in {"route", "answer"} =>
                             /\ op'[s] \in Operations /\ parent'[s] <= Len(messages)
                             /\ Covers(op'[s], parent'[s], PathIn(messages, Len(messages), parent'[s]), context'[s])
    BY DEF ExchangeInv
  <2>1. CASE s = r
    BY <1>1, <2>1
  <2>2. CASE s # r
    BY <1>1, <2>2 DEF ChatInv, ExchangeInv
  <2> QED  BY <2>1, <2>2
<1> QED  BY <1>2, <1>3, <1>4 DEF ChatInv

\* A request that ends has nothing more to write.
LEMMA EndsEmpty ==
    ASSUME ChatTypeInv, NEW r \in Requests, ChatEnds(r)
    PROVE  /\ op' \in [Requests -> Operations \cup {None}] /\ target' \in [Requests -> Nat]
           /\ read' \in [Requests -> Nat] /\ parent' \in [Requests -> Nat] /\ context' \in [Requests -> SUBSET Nat]
           /\ \A s \in Requests \ {r} :
                 /\ op'[s] = op[s] /\ target'[s] = target[s] /\ read'[s] = read[s]
                 /\ parent'[s] = parent[s] /\ context'[s] = context[s]
           /\ ChatAwaits(r, "done")
BY DEF ChatEnds, ChatTypeInv

LEMMA EndKeeps ==
    ASSUME ChatInv, NEW r \in Requests, ChatEnds(r), UNCHANGED messages, TitleInv'
    PROVE  ChatInv'
<1>1. ChatTypeInv
  BY DEF ChatInv
<1>2. "done" \in Calls \ {"list", "question", "route", "answer"}
  BY DEF Calls
<1> QED  BY <1>1, <1>2, EndsEmpty, NoMessageKeeps

\* Nor has one that ends with the message it creates.
LEMMA LastMessageKeeps ==
    ASSUME ChatInv, NEW r \in Requests,
           NEW role \in {"user", "assistant"}, NEW p \in 0..Len(messages),
           NEW by \in {"user"} \cup Operations, NEW ctx \in SUBSET Nat, Create(role, p, by, ctx),
           Covers(by, p, PathIn(messages, Len(messages), p), ctx),
           ChatEnds(r), UNCHANGED <<title, late>>
    PROVE  ChatInv'
<1>1. ChatTypeInv
  BY DEF ChatInv
<1>2. "done" \in Calls \ {"list", "question", "write"}
  BY DEF Calls
<1> QED  BY <1>1, <1>2, EndsEmpty, CreateKeeps

LEMMA ChatInvInit ==
    ASSUME ChatAssumption, ChatInit PROVE ChatInv
<1>1. messages = <<>> /\ DOMAIN messages = {} /\ messages \in Seq(MessageRecords)
  BY DEF ChatInit
<1>2. ChatTypeInv
  BY <1>1 DEF ChatInit, ChatTypeInv, Calls
<1>3. TreeInv /\ AnswersInv
  BY <1>1 DEF TreeInv, AnswersInv
<1>4. ExchangeInv /\ TitleInv
  BY DEF ChatInit, ExchangeInv, TitleInv
<1> QED  BY <1>2, <1>3, <1>4 DEF ChatInv

LEMMA BeginExchangeKeeps ==
    ASSUME ChatInv, NEW r \in Requests, BeginExchange(r) PROVE ChatInv'
<1>1. PICK o \in {"send", "compare", "title"} \X {0} \cup {"edit", "branch", "regenerate"} \X DOMAIN messages :
         /\ op' = [op EXCEPT ![r] = o[1]] /\ target' = [target EXCEPT ![r] = o[2]]
         /\ ChatAwaits(r, IF o[1] = "branch" THEN "question" ELSE "list")
  BY DEF BeginExchange
<1>2. UNCHANGED <<messages, title, read, parent, context, late>>
  BY DEF BeginExchange
<1>3. PICK kind \in Operations, t \in Nat :
         /\ kind = o[1] /\ t = o[2]
         /\ kind \in {"edit", "branch", "regenerate"} => t \in DOMAIN messages
  <2>1. DOMAIN messages \subseteq Nat
    BY DEF ChatInv, ChatTypeInv
  <2> QED  BY <2>1 DEF Operations
<1>4. PICK next \in {"question", "list"} : next = IF kind = "branch" THEN "question" ELSE "list"
  OBVIOUS
<1>5. op' = [op EXCEPT ![r] = kind] /\ target' = [target EXCEPT ![r] = t] /\ ChatAwaits(r, next)
  BY <1>1, <1>3, <1>4
<1>6. op'[r] = kind /\ target'[r] = t /\ \A s \in Requests \ {r} : op'[s] = op[s] /\ target'[s] = target[s]
  BY <1>5 DEF ChatInv, ChatTypeInv
<1>7. TitleInv'
  BY <1>2, <1>5 DEF ChatAwaits, ChatInv, ChatTypeInv, TitleInv
<1>8. /\ op' \in [Requests -> Operations \cup {None}] /\ target' \in [Requests -> Nat]
      /\ read' \in [Requests -> Nat] /\ parent' \in [Requests -> Nat] /\ context' \in [Requests -> SUBSET Nat]
  BY <1>2, <1>5 DEF ChatInv, ChatTypeInv
<1> QED  BY <1>2, <1>3, <1>4, <1>5, <1>6, <1>7, <1>8, NoMessageKeeps DEF Calls

LEMMA ListKeeps ==
    ASSUME ChatInv, NEW r \in Requests, List(r) PROVE ChatInv'
<1> DEFINE n == Len(messages)
           t == target[r]
           p == messages[t].parent
<1>1. /\ at[r] = "list" /\ read' = [read EXCEPT ![r] = n]
      /\ UNCHANGED <<messages, title, op, target, late>>
      /\ op[r] \in Operations \ {"branch"}
      /\ op[r] \in {"edit", "regenerate"} => t \in 1..n
      /\ n \in Nat
  <2>1. DOMAIN messages = 1..n /\ n \in Nat
    BY DEF ChatInv, ChatTypeInv
  <2> QED  BY <2>1 DEF List, ChatInv, ExchangeInv
<1>2. read'[r] = n /\ read' \in [Requests -> Nat] /\ \A s \in Requests \ {r} : read'[s] = read[s]
  BY <1>1 DEF ChatInv, ChatTypeInv
<1>3. \A next \in Calls \ {"write"} : ChatAwaits(r, next) => TitleInv'
  BY <1>1 DEF ChatAwaits, ChatInv, ChatTypeInv, TitleInv
<1>4. CASE op[r] = "title"
  <2>1. ChatAwaits(r, "generate") /\ UNCHANGED <<parent, context>>
    BY <1>4 DEF List
  <2>2. TitleInv'
    BY <1>3, <2>1 DEF Calls
  <2>3. /\ op' \in [Requests -> Operations \cup {None}] /\ target' \in [Requests -> Nat]
        /\ parent' \in [Requests -> Nat] /\ context' \in [Requests -> SUBSET Nat]
    BY <1>1, <2>1 DEF ChatInv, ChatTypeInv
  <2> QED  BY <1>1, <1>2, <2>1, <2>2, <2>3, NoMessageKeeps DEF Calls
<1>5. CASE op[r] = "regenerate"
  <2>1. /\ parent' = [parent EXCEPT ![r] = p] /\ context' = [context EXCEPT ![r] = AncestorPath(n, p)]
        /\ ChatAwaits(r, "route")
    BY <1>5 DEF List
  <2>2. p \in 0..(t - 1) /\ t \in 1..n /\ n \in Nat
    BY <1>1, <1>5, ParentFacts DEF ChatInv
  <2>3. p \in Nat /\ p <= n
    BY <2>2
  <2>4. AncestorPath(n, p) = PathIn(messages, n, p) /\ AncestorPath(n, p) \in SUBSET Nat
    BY AncestorPathIs DEF PathIn
  <2> HIDE DEF n, p, t
  <2>5. /\ parent'[r] = p /\ context'[r] = PathIn(messages, n, p)
        /\ parent' \in [Requests -> Nat] /\ context' \in [Requests -> SUBSET Nat]
        /\ \A s \in Requests \ {r} : parent'[s] = parent[s] /\ context'[s] = context[s]
    BY <2>1, <2>3, <2>4 DEF ChatInv, ChatTypeInv
  <2>6. op'[r] \in Operations /\ parent'[r] <= Len(messages)
        /\ Covers(op'[r], parent'[r], PathIn(messages, Len(messages), parent'[r]), context'[r])
    BY <1>1, <1>5, <2>3, <2>5 DEF Covers, n
  <2>7. TitleInv'
    BY <1>3, <2>1 DEF Calls
  <2>8. op' \in [Requests -> Operations \cup {None}] /\ target' \in [Requests -> Nat]
    BY <1>1 DEF ChatInv, ChatTypeInv
  <2> QED  BY <1>1, <1>2, <2>1, <2>5, <2>6, <2>7, <2>8, NoMessageKeeps DEF Calls
<1>6. CASE op[r] \notin {"title", "regenerate"}
  <2>1. ChatAwaits(r, "question") /\ UNCHANGED <<parent, context>>
    BY <1>6 DEF List
  <2>2. op[r] \in {"send", "compare", "edit"}
    BY <1>1, <1>6 DEF Operations
  <2>3. op[r] = "edit" => target[r] <= n /\ target[r] \in DOMAIN messages
    BY <1>1 DEF ChatInv, ChatTypeInv
  <2>4. TitleInv'
    BY <1>3, <2>1 DEF Calls
  <2>5. /\ op' \in [Requests -> Operations \cup {None}] /\ target' \in [Requests -> Nat]
        /\ parent' \in [Requests -> Nat] /\ context' \in [Requests -> SUBSET Nat]
    BY <1>1, <2>1 DEF ChatInv, ChatTypeInv
  <2>6. /\ op'[r] \in {"send", "compare", "edit", "branch"} /\ read'[r] <= Len(messages)
        /\ op'[r] = "edit" => target'[r] <= read'[r] /\ target'[r] \in DOMAIN messages
        /\ op'[r] \notin {"branch", "regenerate"}
    BY <1>1, <1>2, <2>2, <2>3
  <2> HIDE DEF n, p, t
  <2> QED  BY <1>1, <1>2, <2>1, <2>4, <2>5, <2>6, NoMessageKeeps DEF Calls
<1> QED  BY <1>4, <1>5, <1>6

\* A question the model is asked: the context has its thread, and the question.
LEMMA AskedQuestionKeeps ==
    ASSUME ChatInv, NEW r \in Requests, op[r] \in {"send", "compare", "edit"},
           NEW role \in {"user", "assistant"}, NEW p \in 0..Len(messages), NEW ctx \in SUBSET Nat,
           Create(role, p, "user", {}),
           op[r] = "edit" => PathIn(messages, Len(messages), p) = ctx,
           op[r] # "edit" => /\ PathIn(messages, Len(messages), p) \subseteq ctx
                             /\ \E n \in 0..Len(messages) : ctx = 1..n,
           context' = [context EXCEPT ![r] = ctx \cup {Created}],
           parent' = [parent EXCEPT ![r] = Created],
           ChatAwaits(r, "route"), UNCHANGED <<title, op, target, read, late>>
    PROVE  ChatInv'
<1>0. ChatTypeInv /\ TreeInv /\ Len(messages) \in Nat /\ {} \in SUBSET Nat
  BY ParentFacts DEF ChatInv
<1>1. /\ Len(messages') = Len(messages) + 1
      /\ PathIn(messages', Len(messages'), Len(messages')) = PathIn(messages, Len(messages), p) \cup {Len(messages')}
  BY <1>0, CreateFacts
<1>2. Created = Len(messages') /\ Len(messages') \in Nat
  BY <1>0, <1>1 DEF Created
<1>3. /\ parent'[r] = Len(messages') /\ context'[r] = ctx \cup {Len(messages')}
      /\ parent' \in [Requests -> Nat] /\ context' \in [Requests -> SUBSET Nat]
      /\ \A s \in Requests \ {r} : parent'[s] = parent[s] /\ context'[s] = context[s]
  BY <1>0, <1>2 DEF ChatTypeInv
<1>4. Covers(op[r], parent'[r], PathIn(messages', Len(messages'), parent'[r]), context'[r])
  <2>1. 0..(parent'[r] - 1) = 0..Len(messages)
    BY <1>0, <1>1, <1>3
  <2>2. op[r] # "edit" => \E n \in 0..(parent'[r] - 1) : context'[r] = (1..n) \cup {parent'[r]}
    BY <1>3, <2>1
  <2> QED  BY <1>1, <1>3, <2>2 DEF Covers
<1>5. Covers("user", p, PathIn(messages, Len(messages), p), {})
  BY DEF Covers
<1>6. op[r] \in Operations /\ parent'[r] <= Len(messages')
  BY <1>2, <1>3 DEF Operations
<1>7. "route" \in Calls \ {"list", "question", "write"} /\ "user" \in {"user"} \cup Operations
  BY DEF Calls
<1>8. /\ op' \in [Requests -> Operations \cup {None}] /\ target' \in [Requests -> Nat]
      /\ read' \in [Requests -> Nat] /\ op' = op /\ target' = target /\ read' = read
  BY <1>0 DEF ChatTypeInv
<1> QED  BY <1>0, <1>3, <1>4, <1>5, <1>6, <1>7, <1>8, CreateKeeps

LEMMA QuestionKeeps ==
    ASSUME ChatInv, NEW r \in Requests, Question(r) PROVE ChatInv'
<1> DEFINE n == Len(messages)
           t == target[r]
<1>1. at[r] = "question" /\ UNCHANGED <<title, late>>
  BY DEF Question
<1>2. /\ op[r] \in {"send", "compare", "edit", "branch"} /\ ChatTypeInv /\ TreeInv
      /\ n \in Nat /\ DOMAIN messages = 1..n
      /\ op[r] # "branch" => read[r] \in 0..n
      /\ op[r] \in {"edit", "branch"} => t \in 1..n
      /\ op[r] = "edit" => t <= read[r]
  <2>1. n \in Nat /\ DOMAIN messages = 1..n /\ read[r] \in Nat
    BY ParentFacts DEF ChatInv, ChatTypeInv
  <2> QED  BY <1>1, <2>1 DEF ChatInv, ExchangeInv
<1>3. \A i \in 1..n : messages[i].parent \in 0..(i - 1) /\ messages[i].role \in {"user", "assistant"}
  BY <1>2, ParentFacts DEF MessageRecords
<1>4. \A x : Covers("user", x, PathIn(messages, Len(messages), x), {})
  BY DEF Covers
<1>5. CASE op[r] \in {"send", "compare"}
  <2>1. /\ Create("user", read[r], "user", {})
        /\ context' = [context EXCEPT ![r] = Upto(read[r]) \cup {Created}]
        /\ parent' = [parent EXCEPT ![r] = Created] /\ ChatAwaits(r, "route")
        /\ UNCHANGED <<op, target, read>>
    BY <1>5 DEF Question, Asks
  <2>2. PathIn(messages, n, read[r]) \subseteq Upto(read[r])
    BY <1>2, <1>3, <1>5, PathIsBefore DEF Upto
  <2>3. /\ op[r] # "edit" /\ PathIn(messages, n, read[r]) \subseteq Upto(read[r])
        /\ (\E k \in 0..n : Upto(read[r]) = 1..k) /\ Upto(read[r]) \in SUBSET Nat
    BY <1>2, <1>5, <2>2 DEF Upto
  <2>4. read[r] \in 0..Len(messages)
    BY <1>2, <1>5
  <2> QED  BY <1>1, <1>5, <2>1, <2>3, <2>4, AskedQuestionKeeps
<1>6. CASE op[r] = "edit"
  <2> DEFINE p == messages[t].parent
             role == messages[t].role
  <2>1. /\ Create(role, p, "user", {})
        /\ IF role = "user" THEN Asks(r, EditContext(r)) ELSE ChatEnds(r)
    BY <1>6 DEF Question
  <2>2. t \in 1..n /\ p \in 0..(t - 1) /\ role \in {"user", "assistant"} /\ t <= read[r] /\ read[r] \in 0..n
    BY <1>2, <1>3, <1>6
  <2>3. EditContext(r) = PathIn(messages, read[r], p)
    BY AncestorPathIs DEF EditContext
  <2> HIDE DEF p, role
  <2>4. p \in 0..n /\ p \in 0..read[r] /\ read[r] \in Nat /\ read[r] <= n
    BY <1>2, <2>2
  <2>5. \A i \in 1..read[r] : messages[i].parent \in 0..(i - 1)
    BY <1>2, <1>3, <2>4
  <2>6. PathIn(messages, n, p) = PathIn(messages, read[r], p)
    BY <1>2, <2>4, <2>5, PathStays
  <2>7. PathIn(messages, n, p) = EditContext(r) /\ EditContext(r) \in SUBSET Nat
    BY <2>3, <2>6 DEF PathIn
  <2>8. CASE role = "user"
    <3>1. /\ context' = [context EXCEPT ![r] = EditContext(r) \cup {Created}]
          /\ parent' = [parent EXCEPT ![r] = Created] /\ ChatAwaits(r, "route")
          /\ UNCHANGED <<op, target, read>>
      BY <2>1, <2>8 DEF Asks
    <3> QED  BY <1>1, <1>6, <2>1, <2>2, <2>4, <2>7, <3>1, AskedQuestionKeeps
  <2>9. CASE role # "user"
    <3>1. ChatEnds(r) /\ {} \in SUBSET Nat /\ p \in 0..Len(messages)
      BY <2>1, <2>4, <2>9
    <3> QED  BY <1>1, <1>4, <2>1, <2>2, <3>1, LastMessageKeeps
  <2> QED  BY <2>8, <2>9
<1>7. CASE op[r] = "branch"
  <2> DEFINE role == messages[t].role
  <2>1. Create(role, t, "user", {}) /\ ChatEnds(r)
    BY <1>7 DEF Question
  <2>2. role \in {"user", "assistant"} /\ t \in 0..Len(messages) /\ {} \in SUBSET Nat
    BY <1>2, <1>3, <1>7
  <2> HIDE DEF role
  <2> QED  BY <1>1, <1>4, <2>1, <2>2, LastMessageKeeps
<1> QED  BY <1>2, <1>5, <1>6, <1>7

LEMMA AnswerKeeps ==
    ASSUME ChatInv, NEW r \in Requests, Answer(r) PROVE ChatInv'
<1>1. /\ at[r] = "answer" /\ Create("assistant", parent[r], op[r], context[r])
      /\ UNCHANGED <<title, late>>
  BY DEF Answer
<1>2. /\ op[r] \in Operations /\ parent[r] \in 0..Len(messages) /\ context[r] \in SUBSET Nat
      /\ Covers(op[r], parent[r], PathIn(messages, Len(messages), parent[r]), context[r])
      /\ ChatTypeInv /\ TreeInv /\ Len(messages) \in Nat
  <2>1. parent[r] \in Nat /\ Len(messages) \in Nat
    BY ParentFacts DEF ChatInv, ChatTypeInv
  <2> QED  BY <1>1, <2>1 DEF ChatInv, ChatTypeInv, ExchangeInv
<1>3. op[r] \in {"user"} \cup Operations
  BY <1>2
<1>4. CASE ChatEnds(r)
  BY <1>1, <1>2, <1>3, <1>4, LastMessageKeeps
<1>5. ASSUME NEW next \in {"route", "generate"}, ChatAwaits(r, next), UNCHANGED <<op, target, read, parent, context>>
      PROVE  ChatInv'
  <2>1. /\ PathIn(messages', Len(messages'), parent[r]) = PathIn(messages, Len(messages), parent[r])
        /\ Len(messages') = Len(messages) + 1
    BY <1>1, <1>2, <1>3, CreateFacts
  <2>2. /\ parent'[r] <= Len(messages') /\ op'[r] \in Operations
        /\ Covers(op'[r], parent'[r], PathIn(messages', Len(messages'), parent'[r]), context'[r])
    BY <1>2, <1>5, <2>1
  <2>3. next \in Calls \ {"list", "question", "write"}
    BY DEF Calls
  <2>4. /\ op' \in [Requests -> Operations \cup {None}] /\ target' \in [Requests -> Nat]
        /\ read' \in [Requests -> Nat] /\ parent' \in [Requests -> Nat] /\ context' \in [Requests -> SUBSET Nat]
    BY <1>2, <1>5 DEF ChatTypeInv
  <2>5. op' = op /\ target' = target /\ read' = read /\ parent' = parent /\ context' = context
    BY <1>5
  <2> QED  BY <1>1, <1>2, <1>3, <1>5, <2>2, <2>3, <2>4, <2>5, CreateKeeps
<1> QED  BY <1>4, <1>5 DEF Answer, chatLocals

LEMMA ChatInvStep ==
    ASSUME ChatAssumption, ChatInv, [ChatNext]_chatVars PROVE ChatInv'
<1>1. CASE UNCHANGED chatVars
  BY <1>1 DEF chatVars, chatLocals, ChatInv, ChatTypeInv, TreeInv, ExchangeInv, AnswersInv, TitleInv
<1> SUFFICES ASSUME ChatNext PROVE ChatInv'
  BY <1>1
<1>2. ASSUME Rename PROVE ChatInv'
  <2>1. UNCHANGED <<messages, at, op, target, read, parent, context>>
    BY <1>2 DEF Rename, chatLocals
  <2>2. TitleInv'
    BY <1>2 DEF Rename, TitleInv
  <2> QED  BY <2>1, <2>2 DEF ChatInv, ChatTypeInv, TreeInv, ExchangeInv, AnswersInv
<1>3. ASSUME NEW r \in Requests, BeginExchange(r) PROVE ChatInv'
  BY <1>3, BeginExchangeKeeps
<1>4. ASSUME NEW r \in Requests, List(r) PROVE ChatInv'
  BY <1>4, ListKeeps
<1>5. ASSUME NEW r \in Requests, Question(r) PROVE ChatInv'
  BY <1>5, QuestionKeeps
<1>6. ASSUME NEW r \in Requests, Answer(r) PROVE ChatInv'
  BY <1>6, AnswerKeeps
<1>7. ASSUME NEW r \in Requests, Route(r) PROVE ChatInv'
  <2>1. at[r] = "route" /\ ChatAwaits(r, "answer") /\ UNCHANGED <<messages, title, op, target, read, parent, context, late>>
    BY <1>7 DEF Route, chatLocals
  <2>2. /\ op[r] \in Operations /\ parent[r] <= Len(messages)
        /\ Covers(op[r], parent[r], PathIn(messages, Len(messages), parent[r]), context[r])
    BY <2>1 DEF ChatInv, ExchangeInv
  <2>3. TitleInv'
    BY <2>1 DEF ChatAwaits, ChatInv, ChatTypeInv, TitleInv
  <2>4. /\ op' \in [Requests -> Operations \cup {None}] /\ target' \in [Requests -> Nat]
        /\ read' \in [Requests -> Nat] /\ parent' \in [Requests -> Nat] /\ context' \in [Requests -> SUBSET Nat]
    BY <2>1 DEF ChatInv, ChatTypeInv
  <2> QED  BY <2>1, <2>2, <2>3, <2>4, NoMessageKeeps DEF Calls
<1>8. ASSUME NEW r \in Requests, Generate(r) \/ Recheck(r) \/ WriteTitle(r) \/ Fail(r) PROVE ChatInv'
  <2>1. messages' = messages /\ late' = late /\ title' \in {title, "auto"}
    BY <1>8 DEF Generate, Recheck, WriteTitle, Fail
  <2>2. CASE ChatEnds(r)
    <3>1. TitleInv'
      BY <2>1, <2>2 DEF ChatEnds, ChatAwaits, ChatInv, ChatTypeInv, TitleInv
    <3> QED  BY <2>1, <2>2, <3>1, EndKeeps
  <2>3. ASSUME NEW next \in {"recheck", "write"}, ChatAwaits(r, next), next = "write" => title = "none",
               UNCHANGED <<title, chatLocals>>
        PROVE  ChatInv'
    <3>1. TitleInv'
      BY <2>1, <2>3 DEF ChatAwaits, ChatInv, ChatTypeInv, TitleInv
    <3>2. /\ op' \in [Requests -> Operations \cup {None}] /\ target' \in [Requests -> Nat]
          /\ read' \in [Requests -> Nat] /\ parent' \in [Requests -> Nat] /\ context' \in [Requests -> SUBSET Nat]
          /\ UNCHANGED <<op, target, read, parent, context>>
      BY <2>3 DEF chatLocals, ChatInv, ChatTypeInv
    <3> QED  BY <2>1, <2>3, <3>1, <3>2, NoMessageKeeps DEF Calls
  <2> QED  BY <1>8, <2>2, <2>3 DEF Generate, Recheck, WriteTitle, Fail
<1> QED  BY <1>2, <1>3, <1>4, <1>5, <1>6, <1>7, <1>8 DEF ChatNext

\* However sends, edits, branches, regenerations and comparisons of a conversation
\* interleave or break off: every answer stands in a thread all of which its model was
\* sent; for an edit or a regeneration it was sent nothing else, for a send or a
\* compare its question and the conversation as it stood at one moment before.
THEOREM AnswersMatchThreads ==
    ASSUME ChatAssumption PROVE ChatSpec => []AnswersSawTheirThread
<1>1. ChatInit => ChatInv
  BY ChatInvInit
<1>2. ChatInv /\ [ChatNext]_chatVars => ChatInv'
  BY ChatInvStep
<1>3. ChatInv => AnswersSawTheirThread
  <2> SUFFICES ASSUME ChatInv, NEW i \in DOMAIN messages
               PROVE  /\ messages[i].by \in {"send", "compare"} =>
                             /\ AncestorPath(Len(messages), messages[i].parent) \subseteq messages[i].context
                             /\ \E n \in 0..(messages[i].parent - 1) : messages[i].context = Upto(n) \cup {messages[i].parent}
                      /\ messages[i].by \in {"edit", "regenerate"} =>
                             AncestorPath(Len(messages), messages[i].parent) = messages[i].context
    BY DEF AnswersSawTheirThread
  <2> QED  BY AncestorPathIs DEF ChatInv, AnswersInv, Covers, Upto
<1> QED  BY <1>1, <1>2, <1>3, PTL DEF ChatSpec

\* An automatic title replaces the user's only if the user gave it after the re-check.
THEOREM UsersTitleStays ==
    ASSUME ChatAssumption PROVE ChatSpec => TitleKeptUnlessRaced
<1>1. ChatInit => ChatInv
  BY ChatInvInit
<1>2. ChatInv /\ [ChatNext]_chatVars => ChatInv'
  BY ChatInvStep
<1>3. ChatInv => \A r \in Requests : at[r] = "write" /\ title = "user" => r \in late
  BY DEF ChatInv, TitleInv
<1>4. ChatInv => \A r \in Requests : at[r] = "write" /\ title = "user" /\ title' = "auto" /\ at'[r] = "done" => r \in late
  BY <1>3
<1> QED  BY <1>1, <1>2, <1>4, PTL DEF ChatSpec, TitleKeptUnlessRaced
=============================================================================
