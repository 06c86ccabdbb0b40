--------------------------- MODULE CatalogProofs ---------------------------
(***************************************************************************)
(* Proofs about Catalog: the pages that a host reads contain the catalog   *)
(* it began with, and its loop ends, although the catalog grows.           *)
(*                                                                         *)
(* The argument is about positions.  A registration only moves entries to  *)
(* the back: an entry of the first catalog that is in front of the cursor  *)
(* has been listed, and one that has been listed is behind the cursor only *)
(* if a new entry has pushed it there.                                     *)
(***************************************************************************)
EXTENDS Catalog, FiniteSetTheorems, TLAPS

\* What is known of a listing between two pages, and what is left of it at the end.
InFront ==
  \A e \in listing.start :
    listing.at = "paging" /\ Position(published["tools"], e) < listing.offset => e \in listing.listed

Behind ==
  \A e \in listing.listed :
    listing.at = "paging" /\ Position(published["tools"], e) >= listing.offset =>
      \E x \in published["tools"] \ listing.start : x < e

CursorInside ==
  listing.at = "paging" =>
    listing.offset <= Cardinality(published["tools"]) /\ \A s \in listing.seen : s <= listing.offset

Untouched ==
  listing.at = "idle" =>
    listing.offset = 0 /\ listing.seen = {} /\ listing.listed = {} /\ listing.repeated = {}
    /\ listing.start = {}

CatalogInv ==
  /\ CatalogTypeOK /\ ListingFaithful
  /\ listing.start \subseteq published["tools"]
  /\ InFront /\ Behind /\ CursorInside /\ Untouched

----------------------------------------------------------------------------
\* Positions are natural numbers below the size of the catalog, and only grow.
LEMMA CatalogFinite ==
  ASSUME NEW c \in SUBSET Entries
  PROVE  IsFiniteSet(c) /\ Cardinality(c) \in Nat
BY CatalogAssumption, FS_Subset, FS_CardinalityType

LEMMA PositionType ==
  ASSUME NEW c \in SUBSET Entries, NEW e \in Entries
  PROVE  /\ Position(c, e) \in Nat
         /\ e \in c => Position(c, e) < Cardinality(c)
<1> DEFINE before == {x \in c : x < e}
<1>1. IsFiniteSet(c) /\ Cardinality(c) \in Nat /\ before \in SUBSET c
  BY CatalogFinite
<1>2. /\ Cardinality(before) \in Nat /\ Cardinality(before) <= Cardinality(c)
      /\ Cardinality(before) = Cardinality(c) => before = c
  BY <1>1, FS_Subset, FS_CardinalityType
<1>3. e \in c => before # c
  BY CatalogAssumption
<1>4. QED
  BY <1>1, <1>2, <1>3 DEF Position

LEMMA PositionGrows ==
  ASSUME NEW c \in SUBSET Entries, NEW n \in Entries, n \notin c, NEW e \in Entries
  PROVE  /\ Position(c, e) <= Position(c \cup {n}, e)
         /\ Position(c, e) # Position(c \cup {n}, e) => n < e
<1> DEFINE before == {x \in c : x < e}
           after == {x \in c \cup {n} : x < e}
<1>1. IsFiniteSet(after) /\ before \in SUBSET after
  BY CatalogFinite
<1>2. Cardinality(before) <= Cardinality(after)
  BY <1>1, FS_Subset
<1>3. before # after => n < e
  OBVIOUS
<1>4. QED
  BY <1>2, <1>3 DEF Position

----------------------------------------------------------------------------
LEMMA CatalogInvInit == CatalogInit => CatalogInv
<1> SUFFICES ASSUME CatalogInit PROVE CatalogInv
  OBVIOUS
<1>1. CatalogTypeOK
  BY CatalogAssumption DEF CatalogInit, CatalogTypeOK, Listing
<1>2. ListingFaithful
  BY DEF CatalogInit, ListingFaithful, ListingComplete, RepeatsHaveACause, CursorsAreGood
<1>3. QED
  BY <1>1, <1>2 DEF CatalogInit, CatalogInv, InFront, Behind, CursorInside, Untouched

\* A page that is served: inside the catalog, with a cursor not seen before.
LEMMA CatalogInvPage == CatalogInv /\ ListPage => CatalogInv'
<1> SUFFICES ASSUME CatalogInv, ListPage PROVE CatalogInv'
  OBVIOUS
<1> USE CatalogAssumption
<1> DEFINE c == published["tools"]
           o == listing.offset
<1>1. /\ c \in SUBSET Entries /\ o \in Nat /\ published' = published
      /\ IsFiniteSet(c) /\ Cardinality(c) \in Nat
      /\ listing \in Listing
  BY CatalogFinite DEF CatalogInv, CatalogTypeOK, Listing, Lists, ListPage
<1>2. o <= Cardinality(c) /\ \A s \in listing.seen : s \in Nat /\ s <= o
  BY <1>1 DEF CatalogInv, CursorInside, Untouched, ListPage, Listing
<1>3. ~OutsideList(c, o) /\ NextOffset(o) \in Nat /\ NextOffset(o) \notin listing.seen
      /\ NextOffset(o) = o + PageSize
  BY <1>1, <1>2 DEF OutsideList, NextOffset
<1>4. /\ listing'.at = IF LastPage(c, o) THEN "listed" ELSE "paging"
      /\ listing'.offset = o + PageSize
      /\ listing'.seen = listing.seen \cup {o + PageSize}
      /\ listing'.listed = listing.listed \cup Page(c, o)
      /\ listing'.repeated = listing.repeated \cup (listing.listed \cap Page(c, o))
      /\ listing'.start = IF listing.at = "idle" THEN c ELSE listing.start
  BY <1>1, <1>3 DEF ListPage
<1>5. CatalogTypeOK'
  <2>1. Page(c, o) \in SUBSET Entries
    BY <1>1 DEF Page
  <2>2. listing' \in Listing
    BY <1>1, <1>3, <2>1 DEF ListPage, Listing
  <2>3. QED
    BY <2>2 DEF CatalogInv, CatalogTypeOK, ListPage
<1>6. listing'.start \subseteq c
  BY <1>4 DEF CatalogInv
<1>7. \A e \in listing'.start : Position(c, e) < o + PageSize => e \in listing'.listed
  <2> SUFFICES ASSUME NEW e \in listing'.start, Position(c, e) < o + PageSize
               PROVE  e \in listing'.listed
    OBVIOUS
  <2>1. e \in c /\ Position(c, e) \in Nat
    BY <1>1, <1>6, PositionType
  <2>2. CASE o <= Position(c, e)
    BY <1>4, <2>1, <2>2 DEF Page
  <2>3. CASE Position(c, e) < o
    <3>1. listing.at = "paging" /\ e \in listing.start
      BY <1>1, <1>4, <2>1, <2>3 DEF CatalogInv, Untouched, ListPage
    <3>2. QED
      BY <1>4, <2>3, <3>1 DEF CatalogInv, InFront
  <2>4. QED
    BY <1>1, <2>1, <2>2, <2>3
<1>8. \A e \in listing'.listed :
        Position(c, e) >= o + PageSize => \E x \in c \ listing'.start : x < e
  <2> SUFFICES ASSUME NEW e \in listing'.listed, Position(c, e) >= o + PageSize
               PROVE  \E x \in c \ listing'.start : x < e
    OBVIOUS
  <2>1. Position(c, e) \in Nat
    BY <1>1, <1>5, PositionType DEF CatalogTypeOK, Listing
  <2>2. e \in listing.listed /\ Position(c, e) >= o
    BY <1>1, <1>4, <2>1 DEF Page
  <2>3. listing.at = "paging"
    BY <2>2 DEF CatalogInv, Untouched, ListPage
  <2>4. QED
    BY <1>4, <2>2, <2>3 DEF CatalogInv, Behind
<1>9. \A e \in listing'.repeated : \E x \in c \ listing'.start : x < e
  <2> SUFFICES ASSUME NEW e \in listing'.repeated PROVE \E x \in c \ listing'.start : x < e
    OBVIOUS
  <2>1. listing.at = "paging"
    BY <1>4 DEF CatalogInv, Untouched, ListPage
  <2>2. listing'.start = listing.start
    BY <1>4, <2>1
  <2>3. CASE e \in listing.repeated
    BY <2>2, <2>3 DEF CatalogInv, ListingFaithful, RepeatsHaveACause
  <2>4. CASE e \in listing.listed \cap Page(c, o)
    BY <1>1, <2>1, <2>2, <2>4, PositionType DEF CatalogInv, Behind, Page
  <2>5. QED
    BY <1>4, <2>3, <2>4
<1>10. listing'.at = "listed" => listing'.start \subseteq listing'.listed
  <2> SUFFICES ASSUME LastPage(c, o), NEW e \in listing'.start PROVE e \in listing'.listed
    BY <1>4
  <2>1. Position(c, e) \in Nat /\ Position(c, e) < Cardinality(c)
    BY <1>1, <1>6, PositionType
  <2>2. QED
    BY <1>1, <1>7, <2>1 DEF LastPage
<1>11. listing'.at = "paging" =>
         listing'.offset <= Cardinality(c) /\ \A s \in listing'.seen : s <= listing'.offset
  BY <1>1, <1>2, <1>4 DEF LastPage
<1>12. listing'.at # "idle" /\ listing'.at # "failed"
  BY <1>4
<1>13. ListingFaithful'
  BY <1>1, <1>9, <1>10, <1>12
     DEF ListingFaithful, ListingComplete, RepeatsHaveACause, CursorsAreGood
<1>14. InFront' /\ Behind' /\ CursorInside' /\ Untouched'
  BY <1>1, <1>4, <1>7, <1>8, <1>11, <1>12 DEF InFront, Behind, CursorInside, Untouched
<1>15. QED
  BY <1>1, <1>5, <1>6, <1>13, <1>14 DEF CatalogInv

\* A registration moves entries behind the cursor, never in front of it.
LEMMA CatalogInvRegister ==
  ASSUME CatalogInv, NEW k \in Lists, NEW n \in Entries, Register(k, n)
  PROVE  CatalogInv'
<1> USE CatalogAssumption
<1> DEFINE c == published["tools"]
<1>1. /\ c \in SUBSET Entries /\ listing \in Listing /\ listing' = listing
      /\ IsFiniteSet(c) /\ Cardinality(c) \in Nat
  BY CatalogFinite DEF CatalogInv, CatalogTypeOK, Lists, Register
<1>2. CatalogTypeOK'
  BY DEF CatalogInv, CatalogTypeOK, Register, Lists
<1>3. CASE k # "tools"
  <2>1. published'["tools"] = c
    BY <1>3 DEF CatalogInv, CatalogTypeOK, Register, Lists
  <2>2. QED
    BY <1>1, <1>2, <2>1 DEF CatalogInv, ListingFaithful, ListingComplete, RepeatsHaveACause,
                            CursorsAreGood, InFront, Behind, CursorInside, Untouched
<1>4. CASE k = "tools"
  <2>1. n \notin c /\ published'["tools"] = c \cup {n} /\ c \cup {n} \in SUBSET Entries
    BY <1>1, <1>4 DEF CatalogInv, CatalogTypeOK, Register, Lists
  <2>2. \A e \in Entries :
          /\ Position(c, e) \in Nat /\ Position(c \cup {n}, e) \in Nat
          /\ Position(c, e) <= Position(c \cup {n}, e)
          /\ Position(c, e) # Position(c \cup {n}, e) => n < e
    BY <1>1, <2>1, PositionType, PositionGrows
  <2>3. Cardinality(c \cup {n}) \in Nat /\ Cardinality(c) <= Cardinality(c \cup {n})
    BY <1>1, <2>1, CatalogFinite, FS_Subset
  <2>4. listing'.start \subseteq published'["tools"] /\ n \notin listing.start
    BY <1>1, <2>1 DEF CatalogInv
  <2>5. ListingFaithful'
    BY <1>1, <2>1 DEF CatalogInv, ListingFaithful, ListingComplete, RepeatsHaveACause, CursorsAreGood
  <2>6. InFront'
    <3> SUFFICES ASSUME NEW e \in listing.start, listing.at = "paging",
                        Position(c \cup {n}, e) < listing.offset
                 PROVE  e \in listing.listed
      BY <1>1, <2>1 DEF InFront
    <3>1. Position(c, e) < listing.offset
      BY <1>1, <2>2 DEF Listing
    <3>2. QED
      BY <3>1 DEF CatalogInv, InFront
  <2>7. Behind'
    <3> SUFFICES ASSUME NEW e \in listing.listed, listing.at = "paging",
                        Position(c \cup {n}, e) >= listing.offset
                 PROVE  \E x \in (c \cup {n}) \ listing.start : x < e
      BY <1>1, <2>1 DEF Behind
    <3>1. CASE Position(c, e) >= listing.offset
      BY <3>1 DEF CatalogInv, Behind
    <3>2. CASE Position(c, e) < listing.offset
      <4>1. e \in Entries /\ listing.offset \in Nat
        BY <1>1 DEF Listing
      <4>2. Position(c, e) # Position(c \cup {n}, e)
        BY <2>2, <3>2, <4>1
      <4>3. n < e
        BY <2>2, <4>1, <4>2
      <4>4. QED
        BY <2>4, <4>3
    <3>3. QED
      BY <1>1, <2>2, <3>1, <3>2 DEF Listing
  <2>8. CursorInside' /\ Untouched'
    BY <1>1, <2>1, <2>3 DEF CatalogInv, CursorInside, Untouched, Listing
  <2>9. QED
    BY <1>2, <2>4, <2>5, <2>6, <2>7, <2>8 DEF CatalogInv
<1>5. QED
  BY <1>3, <1>4

LEMMA CatalogInvStep == CatalogInv /\ [CatalogNext]_catalogVars => CatalogInv'
<1> SUFFICES ASSUME CatalogInv, [CatalogNext]_catalogVars PROVE CatalogInv'
  OBVIOUS
<1>1. CASE ListPage
  BY <1>1, CatalogInvPage
<1>2. ASSUME NEW k \in Lists, NEW e \in Entries, Register(k, e) PROVE CatalogInv'
  BY <1>2, CatalogInvRegister
<1>3. CASE UNCHANGED catalogVars
  BY <1>3 DEF catalogVars, CatalogInv, CatalogTypeOK, ListingFaithful, ListingComplete,
              RepeatsHaveACause, CursorsAreGood, InFront, Behind, CursorInside, Untouched
<1>4. QED
  BY <1>1, <1>2, <1>3 DEF CatalogNext

\* The invariant holds of every catalog and every listing.
LEMMA CatalogInvariant == CatalogSpec => []CatalogInv
BY CatalogInvInit, CatalogInvStep, PTL DEF CatalogSpec

\* Whatever is registered meanwhile, a listing ends, is complete and repeats an
\* entry only because of a registration, for every catalog and page size.
THEOREM ListingIsFaithful == CatalogSpec => []ListingFaithful
<1>1. CatalogInv => ListingFaithful
  BY DEF CatalogInv
<1>2. QED
  BY <1>1, CatalogInvariant, PTL

=============================================================================
