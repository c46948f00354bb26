------------------------------ MODULE Documents ------------------------------
(***************************************************************************)
(* The research documents of one owner (apps/app-web, server/documents.ts): *)
(* creation, deletion, the paged listing and the download tickets.  Each    *)
(* request is a transaction at READ COMMITTED; row level security hides the *)
(* documents of other owners, so they are left out.  Revisions after the    *)
(* first change nothing here: a ticket names a document.                    *)
(***************************************************************************)
EXTENDS Integers, Sequences, FiniteSets

CONSTANTS Documents,   \* document ids, ordered; a new document takes any free one
          Tickets, Redeemers,
          Limit,       \* limit of a page
          Resolution,  \* microseconds that a millisecond stands for
          MaxTime      \* bound: the clock

VARIABLES
    now,
    document,  \* at: none, stored, open (inserted), live; its created_at
    deleted,   \* research_document_tombstones
    ticket,    \* at: none, issued, redeemed, expired; its document
    redeem,    \* the redemptions under way
    listing,   \* one reader who follows the pages
    served     \* history: how often the bytes of a ticket were returned

vars == <<now, document, deleted, ticket, redeem, listing, served>>

NoCursor == [created |-> MaxTime + 1, id |-> 0]

Init ==
    /\ now = 0 /\ deleted = {}
    /\ document = [d \in Documents |-> [at |-> "none", created |-> 0]]
    /\ ticket = [t \in Tickets |-> [at |-> "none", of |-> 0]]
    /\ redeem = [r \in Redeemers |-> [at |-> "idle", ticket |-> "none"]]
    /\ listing = [at |-> "idle", before |-> NoCursor, pages |-> <<>>, owed |-> {}]
    /\ served = [t \in Tickets |-> 0]

\* Statements see committed rows; the where clauses leave tombstones out.
Visible == {d \in Documents : document[d].at = "live"} \ deleted

Tick == now < MaxTime /\ now' = now + 1 /\ UNCHANGED <<document, deleted, ticket, redeem, listing, served>>
-----------------------------------------------------------------------------
(* createDocument: the bytes, then a transaction for the two rows.          *)

StoreArtifact(d) ==
    /\ document[d].at = "none"
    /\ document' = [document EXCEPT ![d].at = "stored"]
    /\ UNCHANGED <<now, deleted, ticket, redeem, listing, served>>

\* created_at defaults to the start of the transaction.
InsertDocument(d) ==
    /\ document[d].at = "stored"
    /\ document' = [document EXCEPT ![d] = [at |-> "open", created |-> now]]
    /\ UNCHANGED <<now, deleted, ticket, redeem, listing, served>>

CommitDocument(d) ==
    /\ document[d].at = "open"
    /\ document' = [document EXCEPT ![d].at = "live"]
    /\ UNCHANGED <<now, deleted, ticket, redeem, listing, served>>

\* The transaction fails: the object stays behind without a row.
AbandonDocument(d) ==
    /\ document[d].at = "open"
    /\ document' = [document EXCEPT ![d] = [at |-> "abandoned", created |-> 0]]
    /\ UNCHANGED <<now, deleted, ticket, redeem, listing, served>>

\* tombstoneDocument; a second one finds the first.
TombstoneDocument(d) ==
    /\ document[d].at = "live"
    /\ deleted' = deleted \cup {d}
    /\ UNCHANGED <<now, document, ticket, redeem, listing, served>>
-----------------------------------------------------------------------------
(* listDocuments: a page per request, from the newest on.                   *)

Created(d) == [created |-> document[d].created, id |-> d]

Below(a, b) == a.created < b.created \/ (a.created = b.created /\ a.id < b.id)

\* Variant: the created_at of the display record.
Cursor_Millis(d) == [created |-> (document[d].created \div Resolution) * Resolution, id |-> d]

\* created_at_cursor: the full precision of the boundary row.
Cursor(d) == Created(d)

StartListing ==
    /\ listing.at = "idle"
    /\ listing' = [at |-> "paging", before |-> NoCursor, pages |-> <<>>, owed |-> Visible]
    /\ UNCHANGED <<now, document, deleted, ticket, redeem, served>>

Rest == {d \in Visible : Below(Created(d), listing.before)}

\* The rows that come before d in the order of the query, and the first Limit
\* rows of that order.
Ahead(d) == {e \in Rest : Below(Created(d), Created(e))}
Page == {d \in Rest : Cardinality(Ahead(d)) < Limit}
LastRow == CHOOSE d \in Page : \A e \in Page : ~Below(Created(e), Created(d))

\* nextBefore is null when the page is not full.
ListDocuments ==
    /\ listing.at = "paging"
    /\ listing' = [listing EXCEPT
          !.at = IF Cardinality(Page) = Limit THEN "paging" ELSE "complete",
          !.before = IF Cardinality(Page) = Limit THEN Cursor(LastRow) ELSE NoCursor,
          !.pages = Append(@, Page),
          !.owed = @ \ deleted]
    /\ UNCHANGED <<now, document, deleted, ticket, redeem, served>>
-----------------------------------------------------------------------------
(* issueDownloadTicket and redeemDownloadTicket.                            *)

IssueTicket(t) ==
    /\ ticket[t].at = "none"
    /\ \E d \in Visible : ticket' = [ticket EXCEPT ![t] = [at |-> "issued", of |-> d]]
    /\ UNCHANGED <<now, document, deleted, redeem, listing, served>>

ExpireTicket(t) ==
    /\ ticket[t].at = "issued"
    /\ ticket' = [ticket EXCEPT ![t].at = "expired"]
    /\ UNCHANGED <<now, document, deleted, redeem, listing, served>>

\* Variant: the where clause does not look at redeemed_at.
Redeemable_Again(t) == ticket[t].at \in {"issued", "redeemed"} /\ ticket[t].of \notin deleted

\* Not redeemed, not expired, not deleted in the meantime.
Redeemable(t) == ticket[t].at = "issued" /\ ticket[t].of \notin deleted

\* An open update holds the row: another waits for its end, then tests again.
RowFree(t) == \A r \in Redeemers : ~(redeem[r].at = "updated" /\ redeem[r].ticket = t)

\* The update; with no row the answer is null.
RedeemUpdate(r, t) ==
    /\ redeem[r].at = "idle" /\ ticket[t].at # "none" /\ RowFree(t) /\ Redeemable(t)
    /\ redeem' = [redeem EXCEPT ![r] = [at |-> "updated", ticket |-> t]]
    /\ UNCHANGED <<now, document, deleted, ticket, listing, served>>

RedeemCommit(r) ==
    /\ redeem[r].at = "updated"
    /\ ticket' = [ticket EXCEPT ![redeem[r].ticket].at = "redeemed"]
    /\ redeem' = [redeem EXCEPT ![r].at = "reading"]
    /\ UNCHANGED <<now, document, deleted, listing, served>>

\* The commit fails or the process dies: the row is as before.
RedeemRollback(r) ==
    /\ redeem[r].at = "updated"
    /\ redeem' = [redeem EXCEPT ![r] = [at |-> "idle", ticket |-> "none"]]
    /\ UNCHANGED <<now, document, deleted, ticket, listing, served>>

\* The bytes are read after the commit, and may not come: the ticket is spent.
ReadArtifact(r) ==
    /\ redeem[r].at = "reading"
    /\ \E got \in {0, 1} : served' = [served EXCEPT ![redeem[r].ticket] = @ + got]
    /\ redeem' = [redeem EXCEPT ![r] = [at |-> "idle", ticket |-> "none"]]
    /\ UNCHANGED <<now, document, deleted, ticket, listing>>

Next ==
    \/ Tick \/ StartListing \/ ListDocuments
    \/ \E d \in Documents : \/ StoreArtifact(d) \/ InsertDocument(d) \/ CommitDocument(d)
                            \/ AbandonDocument(d) \/ TombstoneDocument(d)
    \/ \E t \in Tickets : IssueTicket(t) \/ ExpireTicket(t) \/ \E r \in Redeemers : RedeemUpdate(r, t)
    \/ \E r \in Redeemers : RedeemCommit(r) \/ RedeemRollback(r) \/ ReadArtifact(r)

Spec == Init /\ [][Next]_vars
-----------------------------------------------------------------------------
\* Every variable has its type.
TypeOK ==
    /\ now \in 0..MaxTime /\ deleted \subseteq Documents
    /\ document \in [Documents -> [at : {"none", "stored", "open", "live", "abandoned"}, created : 0..MaxTime]]
    /\ ticket \in [Tickets -> [at : {"none", "issued", "redeemed", "expired"}, of : Documents \cup {0}]]
    /\ redeem \in [Redeemers -> [at : {"idle", "updated", "reading"}, ticket : Tickets \cup {"none"}]]
    /\ listing.at \in {"idle", "paging", "complete"} /\ listing.pages \in Seq(SUBSET Documents)

\* "pagination could skip or repeat rows": the pages of one listing together
\* hold every document that was there at its start and was not deleted before
\* its end, and hold none twice, whatever is created and deleted between two
\* pages and however close the documents were created.
PagesComplete ==
    /\ \A i, j \in 1..Len(listing.pages) : i # j => listing.pages[i] \cap listing.pages[j] = {}
    /\ listing.at = "complete" =>
           \A d \in listing.owed : \E i \in 1..Len(listing.pages) : d \in listing.pages[i]

\* "single-use": the bytes of a ticket are returned at most once, whatever
\* requests race for it, fail to commit or lose the bytes after the commit.
ServedOnce == \A t \in Tickets : served[t] <= 1
=============================================================================
