------------------------------ MODULE Catalog ------------------------------
(***************************************************************************)
(* The catalogs of the server (internal/mcpserver/catalogs.go, server.go)  *)
(* and the loop of the host that reads one page by page                    *)
(* (internal/host/demo.go listAllTools).                                   *)
(*                                                                         *)
(* A list request takes a snapshot of the catalog, sorts it and returns    *)
(* the entries from the cursor on; the cursor of the next page is an       *)
(* offset into the sorted snapshot.  The catalog may grow between two      *)
(* pages, and every entry behind a new one moves on.  An entry stands for  *)
(* its name or URI and is represented by its rank in the sorting order.    *)
(***************************************************************************)
EXTENDS Naturals, FiniteSets

CONSTANTS
  Entries,    \* the names and URIs that may be published
  Defaults,   \* what each list holds from the start
  PageSize    \* catalogPageSize

Lists == {"tools", "resources", "prompts"}

ASSUME CatalogAssumption ==
  /\ Entries \subseteq Nat /\ IsFiniteSet(Entries)
  /\ Defaults \in [Lists -> SUBSET Entries]
  /\ PageSize \in Nat \ {0}

VARIABLES
  published,  \* the registries of tools, resources and prompts
  listing     \* listAllTools

catalogVars == <<published, listing>>

\* offset: the decoded cursor of the next request; seen: seenCursors.  History:
\* start is the catalog at the first request, repeated what was listed twice.
Listing ==
  [at : {"idle", "paging", "listed", "failed"}, offset : Nat, seen : SUBSET Nat,
   listed : SUBSET Entries, repeated : SUBSET Entries, start : SUBSET Entries]

CatalogInit ==
  /\ published = Defaults
  /\ listing = [at |-> "idle", offset |-> 0, seen |-> {}, listed |-> {},
                repeated |-> {}, start |-> {}]

----------------------------------------------------------------------------
\* The index of an entry in the sorted snapshot of catalog c.
Position(c, e) == Cardinality({x \in c : x < e})

\* The snapshot from offset o on, one page of it.
Page(c, o) == {e \in c : o <= Position(c, e) /\ Position(c, e) < o + PageSize}

OutsideList(c, o) == o > Cardinality(c)

\* Is the page at offset o the last, which carries no cursor?
LastPage(c, o) == o + PageSize >= Cardinality(c)

\* A faulty variant, which no specification uses: one entry too far.
NextOffsetAfter(o) == o + PageSize + 1

NextOffset(o) == o + PageSize

\* Registration is one critical section; a duplicate is refused.  Publishing
\* the list change is the subject of module Subscriptions.
Register(k, e) ==
  /\ e \notin published[k]
  /\ published' = [published EXCEPT ![k] = @ \cup {e}]
  /\ UNCHANGED listing

\* One iteration of listAllTools: a tools/list request and what becomes of its answer.
ListPage ==
  LET c == published["tools"]
      o == listing.offset
      broken == OutsideList(c, o) \/ (~LastPage(c, o) /\ NextOffset(o) \in listing.seen)
  IN /\ listing.at \in {"idle", "paging"}
     /\ listing' =
          [at       |-> IF broken THEN "failed" ELSE IF LastPage(c, o) THEN "listed" ELSE "paging",
           offset   |-> NextOffset(o),
           seen     |-> listing.seen \cup {NextOffset(o)},
           listed   |-> listing.listed \cup Page(c, o),
           repeated |-> listing.repeated \cup (listing.listed \cap Page(c, o)),
           start    |-> IF listing.at = "idle" THEN c ELSE listing.start]
     /\ UNCHANGED published

CatalogNext == ListPage \/ \E k \in Lists, e \in Entries : Register(k, e)

CatalogSpec == CatalogInit /\ [][CatalogNext]_catalogVars

----------------------------------------------------------------------------
CatalogTypeOK == published \in [Lists -> SUBSET Entries] /\ listing \in Listing

\* A listing holds every tool that was registered when it began, however many
\* were registered while it went from page to page.
ListingComplete == listing.at = "listed" => listing.start \subseteq listing.listed

\* Offset cursors repeat entries, but only when a registration has moved them:
\* what is listed twice comes after a tool that was registered meanwhile.
RepeatsHaveACause ==
  \A e \in listing.repeated : \E x \in published["tools"] \ listing.start : x < e

\* The cursors this server hands out stay inside its catalog and never repeat,
\* so that the host's loop is not given up.
CursorsAreGood == listing.at # "failed"

ListingFaithful == ListingComplete /\ RepeatsHaveACause /\ CursorsAreGood

=============================================================================
