----------------------------- MODULE TypeFetcher -----------------------------
(***************************************************************************)
(* pg.TypeFetcher (internal/pg/type_fetcher.go): turns the type OIDs of a   *)
(* query's parameters and columns into type descriptions.  It resolves the  *)
(* OIDs kind by kind, one catalog query per kind, writing every type it     *)
(* finds into a cache that outlives the call.  A composite type built       *)
(* before the types of its columns gets placeholders, which a last pass     *)
(* replaces.                                                                *)
(*                                                                          *)
(* A Type value is represented by its OID.  That loses nothing: only the    *)
(* ColumnTypes slice of a composite ever holds a placeholder, the slice is  *)
(* shared by every copy of the CompositeType (in the cache, in the result,  *)
(* as an element of an array), and a composite is built once, so `holes`    *)
(* records for each composite which column types are still placeholders.    *)
(***************************************************************************)
EXTENDS FiniteSets, Naturals

CONSTANTS
  OID,    \* OIDs that queries may mention
  Kind,   \* what pg_type says of each
  Child,  \* columns of a composite, typelem of an array or of a base type
  Request \* the sets of OIDs a query asks for: its parameters, its columns

Kinds == {"known", "enum", "composite", "array", "other", "missing"}

ASSUME KindAssumption  == Kind \in [OID -> Kinds]
ASSUME ChildAssumption ==
  /\ Child \in [OID -> SUBSET OID]
  \* a column or an element refers to a row of pg_type
  /\ \A o \in OID : \A c \in Child[o] : Kind[c] # "missing"
  /\ \A o \in OID : Kind[o] \in {"enum", "missing"} => Child[o] = {}

ASSUME RequestAssumption == Request \subseteq SUBSET OID /\ {} \in Request

VARIABLES
  pc,        \* the pass FindTypesByOIDs is about to make
  cached,    \* typeCache.types
  holes,     \* <<c, o>>: composite c has a placeholder for its column type o
  req,       \* the oids argument
  types,     \* the map that will be returned
  uncached,  \* descendants that no pass has classified yet
  rows       \* result rows of FindCompositeTypes still to be built

vars == <<pc, cached, holes, req, types, uncached, rows>>

OfKind(S, k) == {o \in S : Kind[o] = k}
Closed(S)    == \A o \in S : Child[o] \subseteq S

(* The recursive query FindDescendantOIDs: the least closed set around S.   *)
FindDescendantOIDs == [S \in Request |->
  {o \in OID : \A C \in SUBSET OID : S \subseteq C /\ Closed(C) => o \in C}]

-----------------------------------------------------------------------------
(* newTypeCache: the well-known types are there from the start.             *)
Init ==
  /\ pc = "returned"
  /\ cached = OfKind(OID, "known") /\ holes = {}
  /\ req = {} /\ types = {} /\ uncached = {} /\ rows = {}

(* Mutant of FastPath: one cached OID is enough to answer from the cache.   *)
FastPathPartial(oids) ==
  /\ pc = "returned" /\ oids \cap cached # {}
  /\ req' = oids /\ types' = oids \cap cached
  /\ UNCHANGED <<pc, cached, holes, uncached, rows>>

(* The fast path of FindTypesByOIDs: nothing is uncached.                   *)
FastPath(oids) ==
  /\ pc = "returned" /\ oids \subseteq cached
  /\ req' = oids /\ types' = oids
  /\ UNCHANGED <<pc, cached, holes, uncached, rows>>

(* Mutant of Lookup: only the OIDs of the query, not their descendants.     *)
LookupShallow(oids) ==
  /\ pc = "returned" /\ ~(oids \subseteq cached)
  /\ req' = oids
  /\ types' = oids \cap cached /\ uncached' = oids \ cached
  /\ pc' = "enums"
  /\ UNCHANGED <<cached, holes, rows>>

(* Otherwise every descendant is looked up in the cache.                    *)
Lookup(oids) ==
  LET all == FindDescendantOIDs[oids]
  IN /\ pc = "returned" /\ ~(oids \subseteq cached)
     /\ req' = oids /\ pc' = "enums"
     /\ types' = all \cap cached /\ uncached' = all \ cached
     /\ UNCHANGED <<cached, holes, rows>>

(* The types a pass has found go to the result and to the cache.            *)
Classify(found) ==
  /\ types' = types \cup found
  /\ cached' = cached \cup found
  /\ uncached' = uncached \ found

(* Mutant of FindEnumTypes: arrays are looked for before composites.        *)
EnumsThenArrays ==
  /\ pc = "enums" /\ pc' = "arrays"
  /\ Classify(OfKind(uncached, "enum"))
  /\ UNCHANGED <<holes, req, rows>>

FindEnumTypes ==
  /\ pc = "enums" /\ pc' = "composites"
  /\ Classify(OfKind(uncached, "enum"))
  /\ rows' = OfKind(uncached, "composite")
  /\ UNCHANGED <<holes, req>>

(* findCompositeTypes, one row, in whatever order the database returns      *)
(* them.  The composite enters the cache at once, so that a later row can   *)
(* refer to it.                                                             *)
BuildComposite(c) ==
  /\ pc = "composites" /\ c \in rows
  /\ holes' = holes \cup {<<c, o>> : o \in Child[c] \ cached}
  /\ cached' = cached \cup {c}
  /\ rows' = rows \ {c}
  /\ UNCHANGED <<pc, req, types, uncached>>

FindCompositeTypes ==
  /\ pc = "composites" /\ rows = {} /\ pc' = "arrays"
  /\ Classify(OfKind(uncached, "composite"))
  /\ UNCHANGED <<holes, req, rows>>

(* findArrayTypes fails as a whole when one element type is not cached.     *)
FindArrayTypes ==
  LET arrays == OfKind(uncached, "array")
      ok     == \A a \in arrays : Child[a] \subseteq cached
  IN /\ pc = "arrays" /\ pc' = IF ok THEN "unknowns" ELSE "noElem"
     /\ Classify(IF ok THEN arrays ELSE {})
     /\ UNCHANGED <<holes, req, rows>>

FindUnknownTypes ==
  /\ pc = "unknowns" /\ pc' = "resolve"
  /\ Classify({o \in uncached : Kind[o] # "missing"})
  /\ UNCHANGED <<holes, req, rows>>

(* resolvePlaceholderTypes, then the check that nothing is unclassified.    *)
(* Every composite below a result is itself in the result, so the walk      *)
(* meets each of its placeholders; the first that has no known type fails.  *)
Unresolved == {h \in holes : h[1] \in types /\ h[2] \notin types}

(* Mutant of ResolvePlaceholderTypes: only the composites the query itself  *)
(* asked for are walked.                                                    *)
ResolveRequested ==
  /\ pc = "resolve"
  /\ holes' = {h \in holes : h[1] \notin req \/ h[2] \notin types}
  /\ pc' = IF uncached # {} THEN "unclassified" ELSE "returned"
  /\ UNCHANGED <<cached, req, types, uncached, rows>>

ResolvePlaceholderTypes ==
  /\ pc = "resolve"
  /\ holes' = {h \in holes : h[1] \notin types \/ h[2] \notin types}
  /\ pc' = IF Unresolved # {} THEN "placeholder"
           ELSE IF uncached # {} THEN "unclassified" ELSE "returned"
  /\ UNCHANGED <<cached, req, types, uncached, rows>>

(* A catalog query fails.  parseQueries gives up on the first error, so no  *)
(* call follows a failed one.                                               *)
QueryFails ==
  /\ pc \in {"enums", "composites", "arrays", "unknowns"} /\ pc' = "query"
  /\ UNCHANGED <<cached, holes, req, types, uncached, rows>>

Failures == {"noElem", "placeholder", "unclassified", "query"}
GaveUp   == pc \in Failures /\ UNCHANGED vars

Call == \E oids \in Request : FastPath(oids) \/ Lookup(oids)

Next ==
  \/ Call
  \/ FindEnumTypes \/ (\E c \in rows : BuildComposite(c)) \/ FindCompositeTypes
  \/ FindArrayTypes \/ FindUnknownTypes \/ ResolvePlaceholderTypes
  \/ QueryFails \/ GaveUp

Spec == Init /\ [][Next]_vars

-----------------------------------------------------------------------------
(* Shapes, and: every OID is either in the result or still to be found, and *)
(* what is in the result is in the cache.                                   *)
TypeOK ==
  /\ pc \in {"returned", "enums", "composites", "arrays", "unknowns", "resolve"} \cup Failures
  /\ cached \subseteq OID /\ types \subseteq OID /\ uncached \subseteq OID
  /\ req \subseteq OID /\ rows \subseteq OID
  /\ holes \subseteq OID \X OID
  /\ types \subseteq cached /\ types \cap uncached = {} /\ rows \subseteq uncached

(* "The returned map contains every unique OID in oids unless there's an    *)
(* error": through the fast path or through the passes, whatever earlier    *)
(* calls left in the cache.                                                 *)
ReturnsRequested == pc = "returned" => req \subseteq types

(* Between calls the cache is sound: a cached composite or array has all    *)
(* its parts in the cache, and no placeholder survives.  So nothing that a  *)
(* caller can reach from a result is missing or a placeholder, although     *)
(* composites are cached before their columns are known and the fast path   *)
(* hands cache entries out unchecked.                                       *)
CacheSound ==
  pc = "returned" =>
    /\ holes = {}
    /\ \A o \in cached : Kind[o] \in {"composite", "array"} => Child[o] \subseteq cached

(* The error path of resolvePlaceholderTypes is dead: once every pass ran,  *)
(* each placeholder stands for a type in the result.                        *)
PlaceholdersResolvable == pc # "placeholder"

(* An array is refused only for an element that neither the well-known      *)
(* types nor the enum and composite passes cover, whatever the row order.   *)
ArrayElemFound ==
  pc = "noElem" =>
    \E a \in OfKind(uncached, "array") : \E e \in Child[a] : Kind[e] \in {"array", "other"}

(* What the passes look up in the cache is there: a placeholder always, the *)
(* element of an array unless no pass before findArrayTypes covers its kind.*)
LookupsSucceed == PlaceholdersResolvable /\ ArrayElemFound

-----------------------------------------------------------------------------
(* The inductive invariant.  During a call the result and what is left to   *)
(* classify make up the descendants of the request; a composite built early *)
(* has its columns among them, and so does every placeholder.               *)
Passes == {"enums", "composites", "arrays", "unknowns", "resolve"}

IInv ==
  /\ TypeOK
  /\ OfKind(OID, "known") \subseteq cached
  /\ pc \in Passes \cup {"returned"} => req \in Request
  /\ pc \in Passes =>
       /\ types \cup uncached = FindDescendantOIDs[req]
       /\ \A h \in holes : h[1] \in FindDescendantOIDs[req] /\ h[2] \in Child[h[1]]
       /\ \A o \in cached : Kind[o] = "composite" =>
            Child[o] \subseteq cached \cup FindDescendantOIDs[req]
       /\ \A o \in cached : Kind[o] = "array" => Child[o] \subseteq cached
  /\ pc \in {"enums", "arrays", "unknowns", "resolve"} => rows = {}
  /\ pc \notin {"enums"} \cup Failures => OfKind(uncached, "enum") = {}
  /\ pc = "composites" => OfKind(rows, "composite") = rows
  /\ pc \notin {"enums", "composites"} \cup Failures => OfKind(uncached, "composite") = {}
  /\ pc \in {"unknowns", "resolve"} => OfKind(uncached, "array") = {}
  /\ pc = "resolve" => OfKind(uncached, "missing") = uncached
  /\ pc = "returned" => uncached = {} /\ rows = {} /\ req \subseteq types
  /\ CacheSound /\ PlaceholdersResolvable /\ ArrayElemFound
=============================================================================
