----------------------------- MODULE MCKnowledge -----------------------------
(* One instance each of the services people work in together: the message     *)
(* tree of a conversation, the knowledge hub's pages, and the ingestion of a   *)
(* source.  They have no variable in common; a behaviour is one of the service *)
(* `service` names.                                                            *)
EXTENDS ChatService, KnowledgeHub, KnowledgeIngestion, TLC

CONSTANTS r1, r2, r3, m1, m2, p1, p2, p3, p4, s1, s2, x1, c1, c2

VARIABLE service

\* Three pages in one space and one in another.
MCSpaceOf == p1 :> s1 @@ p2 :> s1 @@ p3 :> s1 @@ p4 :> s2
\* A content of two chunks, and one of none.
MCChunksOf == c1 :> 2 @@ c2 :> 0

ASSUME KnowledgeAssumption == ChatAssumption /\ HubAssumption /\ IngestionAssumption

\* p1 and p2 start alike.
MCSymmetry == Permutations(Requests) \cup Permutations(Models) \cup Permutations({p1, p2})

MCInit ==
    /\ service \in {"chat", "hub", "ingestion"}
    /\ ChatInit /\ HubInit /\ IngestInit

MCNext ==
    \/ /\ service = "chat" /\ ChatNext
       /\ UNCHANGED <<service, hubVars, ingestVars>>
    \/ /\ service = "hub" /\ HubNext
       /\ UNCHANGED <<service, chatVars, ingestVars>>
    \/ /\ service = "ingestion" /\ IngestNext
       /\ UNCHANGED <<service, chatVars, hubVars>>

MCSpec == MCInit /\ [][MCNext]_<<service, chatVars, hubVars, ingestVars>>
=============================================================================
