---------------------------- MODULE KnowledgeHub ----------------------------
(***************************************************************************)
(* The Knowledge_Hub_Service (src/services/core/src/knowledge-hub/): the   *)
(* pages of the Project spaces, their hierarchy and their versions.  An    *)
(* operation reads the page, checks what it has read, writes, appends to   *)
(* the audit log and emits the content it wrote for indexing, one awaited  *)
(* call after another; operations interleave at each and any call may      *)
(* reject.  The content of a version is the request that wrote it.         *)
(***************************************************************************)
EXTENDS Integers, Sequences, FiniteSets, ServiceRequests

CONSTANTS
    Pages,
    SpaceOf,        \* page -> the Project whose space it is in
    Seeded,         \* the pages that are there at the start, as roots
    MaxVersions     \* bound

HubAssumption ==
    /\ None \notin Pages \cup Requests /\ Seeded \subseteq Pages
    /\ DOMAIN SpaceOf = Pages /\ MaxVersions \in Nat \ {0} /\ MaxInFlight \in Nat

VARIABLES
    versions,    \* page -> the contents of its versions; <<>> when there is no page
    parentOf,    \* page -> its parentId, or None
    index,       \* page -> the version last emitted for indexing, 0 for none
    step, work,  \* of each request: the call it awaits, and the operation
    page, to,    \* the page it works on, the parent or the version it was given
    wrote,       \* the version its write returned
    moved,       \* history: two re-parents were under way at once
    unclean      \* history: the pages written by two requests at once, or whose emission never came

hubVars == <<versions, parentOf, index, step, work, page, to, wrote, moved, unclean>>
hubLocals == <<work, page, to>>

HubInit ==
    /\ versions = [p \in Pages |-> IF p \in Seeded THEN <<None>> ELSE <<>>]
    /\ parentOf = [p \in Pages |-> None] /\ index = [p \in Pages |-> Len(versions[p])]
    /\ step = [r \in Requests |-> "idle"] /\ work = [r \in Requests |-> None]
    /\ page = [r \in Requests |-> None] /\ to = [r \in Requests |-> None]
    /\ wrote = [r \in Requests |-> 0]
    /\ moved = FALSE /\ unclean = {}

Exists(p) == versions[p] # <<>>
Active == {r \in Requests : step[r] \notin {"idle", "done"}}
HubAwaits(r, call) == step' = [step EXCEPT ![r] = call]
Writers(p) == {r \in Active : page[r] = p /\ work[r] # "move"}

-----------------------------------------------------------------------------
\* requirePage and requireAccess, and for createPage the check of the parent:
\* pages are never deleted nor moved to another space, so that what these checks
\* found stays true.  A request that is refused changes nothing.
Start(r, o, p, x) ==
    /\ step[r] = "idle" /\ Cardinality(Active) < MaxInFlight
    /\ work' = [work EXCEPT ![r] = o] /\ page' = [page EXCEPT ![r] = p] /\ to' = [to EXCEPT ![r] = x]
    /\ UNCHANGED <<versions, parentOf, index, wrote>>

\* The id of a new page is the caller's, if it gives one, and may be in use.
BeginWrite(r) ==
    /\ \E p \in Pages :
         /\ Len(versions[p]) + Cardinality(Writers(p)) < MaxVersions
         /\ \/ \E x \in {None} \cup {q \in Pages : Exists(q) /\ SpaceOf[q] = SpaceOf[p]} : Start(r, "create", p, x)
            \/ Exists(p) /\ Start(r, "edit", p, None)
            \/ \E v \in DOMAIN versions[p] : Start(r, "restore", p, v)
    /\ HubAwaits(r, "write")
    /\ unclean' = unclean \cup IF Writers(page'[r]) # {} THEN {page'[r]} ELSE {}
    /\ UNCHANGED moved

\* setParent: another page of the same space, or null to detach the page.
BeginMove(r) ==
    /\ \E p \in {q \in Pages : Exists(q)} :
         \E x \in {None} \cup {q \in Pages : Exists(q) /\ SpaceOf[q] = SpaceOf[p]} : Start(r, "move", p, x)
    /\ HubAwaits(r, IF to'[r] = None THEN "place" ELSE "check")
    /\ moved' = (moved \/ \E q \in Active : work[q] = "move")
    /\ UNCHANGED unclean

-----------------------------------------------------------------------------
\* A page and its ancestors: where a walk along parentId gets, which is the least
\* set with the page that has the parent of each of its pages.
WithParentPages(S) == \A q \in S : parentOf[q] # None => parentOf[q] \in S
Lineage(p) == {q \in Pages : \A S \in SUBSET Pages : p \in S /\ WithParentPages(S) => q \in S}

\* Mutant of WouldCreateCycle: only a page that is made its own parent is refused.
WouldBeItsOwnParent(p, x) == p = x

\* wouldCreateCycle, on the pages listByProject has returned.
WouldCreateCycle(p, x) == p \in Lineage(x)

Check(r) ==
    /\ step[r] = "check"
    /\ HubAwaits(r, IF WouldCreateCycle(page[r], to[r]) THEN "done" ELSE "place")
    /\ UNCHANGED <<versions, parentOf, index, hubLocals, wrote, moved, unclean>>

\* pages.setParent, and the audit entry.
Place(r) ==
    /\ step[r] = "place"
    /\ parentOf' = [parentOf EXCEPT ![page[r]] = to[r]]
    /\ HubAwaits(r, "done")
    /\ UNCHANGED <<versions, index, hubLocals, wrote, moved, unclean>>

\* createPage and updateContent: the version after the head, in one write.
\* restoreVersion writes the content of the version it read.  The store keys pages
\* by their id: the creation of a page that is there is rejected (Reject).
WriteVersion(r) ==
    /\ step[r] = "write"
    /\ work[r] = "create" => ~ Exists(page[r])
    /\ LET p == page[r]
       IN  /\ versions' = [versions EXCEPT ![p] = Append(@, IF work[r] = "restore" THEN versions[p][to[r]] ELSE r)]
           /\ parentOf' = IF work[r] = "create" THEN [parentOf EXCEPT ![p] = to[r]] ELSE parentOf
           /\ wrote' = [wrote EXCEPT ![r] = Len(versions[p]) + 1]
    /\ HubAwaits(r, "audit")
    /\ UNCHANGED <<index, hubLocals, moved, unclean>>

\* Mutant of Audit: a restore is taken for a write of content that is indexed already.
AuditEndsRestore(r) ==
    /\ step[r] = "audit" /\ HubAwaits(r, IF work[r] = "restore" THEN "done" ELSE "emit")
    /\ UNCHANGED <<versions, parentOf, index, hubLocals, wrote, moved, unclean>>

\* The audit entry.
Audit(r) ==
    /\ step[r] = "audit" /\ HubAwaits(r, "emit")
    /\ UNCHANGED <<versions, parentOf, index, hubLocals, wrote, moved, unclean>>

\* emitIngestion, with the page the write returned.
Emit(r) ==
    /\ step[r] = "emit"
    /\ index' = [index EXCEPT ![page[r]] = wrote[r]]
    /\ HubAwaits(r, "done")
    /\ UNCHANGED <<versions, parentOf, hubLocals, wrote, moved, unclean>>

\* A call rejects.
Reject(r) ==
    /\ r \in Active /\ HubAwaits(r, "done")
    /\ unclean' = unclean \cup IF step[r] \in {"audit", "emit"} THEN {page[r]} ELSE {}
    /\ UNCHANGED <<versions, parentOf, index, hubLocals, wrote, moved>>

HubNext == \E r \in Requests :
    \/ BeginWrite(r) \/ BeginMove(r) \/ Check(r) \/ Place(r)
    \/ WriteVersion(r) \/ Audit(r) \/ Emit(r) \/ Reject(r)

HubSpec == HubInit /\ [][HubNext]_hubVars
-----------------------------------------------------------------------------
\* buildNavigationTree: the pages under a root, which are those it returns.
Shown == {p \in Pages : Exists(p) /\ \E q \in Lineage(p) : parentOf[q] = None}

\* As long as re-parents do not overlap, a page is always somewhere under a root
\* of its own space: the hierarchy has no cycle and no edge between spaces.
HierarchyIsAForest ==
    /\ ~ moved => Shown = {p \in Pages : Exists(p)}
    /\ \A p \in Pages : parentOf[p] # None => Exists(parentOf[p]) /\ SpaceOf[parentOf[p]] = SpaceOf[p]

\* Once the writes of a page are over, none of which overlapped another or broke
\* off after its write, what was last indexed of the page is its head version.
IndexShowsTheHead ==
    \A p \in Pages \ unclean : Writers(p) = {} => index[p] = Len(versions[p])

\* buildNavigationTree: the result always contains every supplied page exactly once.
NavigationShowsEveryPage == Shown = {p \in Pages : Exists(p)}
=============================================================================
