-------------------------- MODULE TypeFetcher_proofs --------------------------
(***************************************************************************)
(* The type cache is sound for every catalog and every sequence of calls.   *)
(* IInv is inductive; it carries, through the passes, that the result and   *)
(* what is left to classify make up the closed set of descendants.          *)
(***************************************************************************)
EXTENDS TypeFetcher, TLAPS

(* FindDescendantOIDs contains the request and is closed under columns and  *)
(* elements, whatever the catalog.                                          *)
LEMMA DescendantsClosed ==
  ASSUME NEW S \in Request
  PROVE  /\ S \subseteq FindDescendantOIDs[S]
         /\ FindDescendantOIDs[S] \subseteq OID
         /\ \A o \in FindDescendantOIDs[S] : Child[o] \subseteq FindDescendantOIDs[S]
<1> DEFINE D == {o \in OID : \A C \in SUBSET OID : S \subseteq C /\ Closed(C) => o \in C}
<1>1. FindDescendantOIDs[S] = D
  BY DEF FindDescendantOIDs
<1>2. S \subseteq D
  BY RequestAssumption
<1>3. ASSUME NEW o \in D, NEW c \in Child[o]
      PROVE  c \in D
  <2>1. c \in OID
    BY ChildAssumption
  <2>2. ASSUME NEW C \in SUBSET OID, S \subseteq C, Closed(C)
        PROVE  c \in C
    BY <2>2 DEF Closed
  <2> QED BY <2>1, <2>2
<1> QED BY <1>1, <1>2, <1>3

(* The state of a new TypeFetcher satisfies the invariant.                  *)
LEMMA InitIInv == Init => IInv
BY RequestAssumption, ChildAssumption, KindAssumption
   DEF Init, IInv, TypeOK, OfKind, Passes, Failures, CacheSound,
       PlaceholdersResolvable, ArrayElemFound, Kinds

(* Every pass of FindTypesByOIDs preserves the invariant.                   *)
LEMMA NextIInv == IInv /\ [Next]_vars => IInv'
<1> SUFFICES ASSUME IInv, [Next]_vars PROVE IInv'
  OBVIOUS
<1> USE DEF IInv, TypeOK, OfKind, Passes, Failures, CacheSound,
            PlaceholdersResolvable, ArrayElemFound
<1>1. ASSUME NEW oids \in Request, FastPath(oids) PROVE IInv'
  BY <1>1, RequestAssumption DEF FastPath
<1>2. ASSUME NEW oids \in Request, Lookup(oids) PROVE IInv'
  <2>1. /\ FindDescendantOIDs[oids] \subseteq OID
        /\ oids \subseteq FindDescendantOIDs[oids]
    BY DescendantsClosed
  <2> QED BY <1>2, <2>1, RequestAssumption DEF Lookup
<1>3. CASE FindEnumTypes
  BY <1>3 DEF FindEnumTypes, Classify
<1>4. ASSUME NEW c \in rows, BuildComposite(c) PROVE IInv'
  <2>1. c \in FindDescendantOIDs[req] /\ c \in OID /\ Kind[c] = "composite"
    BY <1>4 DEF BuildComposite
  <2>2. Child[c] \subseteq FindDescendantOIDs[req] /\ Child[c] \subseteq OID
    BY <1>4, <2>1, DescendantsClosed, ChildAssumption DEF BuildComposite
  <2> QED BY <1>4, <2>1, <2>2 DEF BuildComposite
<1>5. CASE FindCompositeTypes
  <2>1. \A o \in uncached : o \in OID /\ Child[o] \subseteq FindDescendantOIDs[req]
    BY <1>5, DescendantsClosed DEF FindCompositeTypes
  <2> QED BY <1>5, <2>1 DEF FindCompositeTypes, Classify
<1>6. CASE FindArrayTypes
  <2> DEFINE ok == \A a \in OfKind(uncached, "array") : Child[a] \subseteq cached
  <2>1. \A o \in uncached : o \in OID /\ Child[o] \subseteq FindDescendantOIDs[req]
    BY <1>6, DescendantsClosed DEF FindArrayTypes
  <2>2. CASE ok
    BY <1>6, <2>1, <2>2 DEF FindArrayTypes, Classify
  <2>3. CASE ~ok
    <3>1. PICK a \in OfKind(uncached, "array") : \E e \in Child[a] : e \notin cached
      BY <2>3
    <3> PICK e \in Child[a] : e \notin cached
      BY <3>1
    <3>2. e \in uncached /\ e \in OID /\ a \in OID
      BY <1>6, <2>1, <3>1 DEF FindArrayTypes
    <3>3. Kind[e] \in {"array", "other"}
      BY <1>6, <3>1, <3>2, KindAssumption, ChildAssumption DEF FindArrayTypes, Kinds
    <3>4. pc' = "noElem" /\ UNCHANGED <<cached, holes, req, types, uncached, rows>>
      BY <1>6, <2>3 DEF FindArrayTypes, Classify
    <3>5. ArrayElemFound'
      BY <3>1, <3>3, <3>4
    <3> QED BY <3>4, <3>5
  <2> QED BY <2>2, <2>3
<1>7. CASE FindUnknownTypes
  BY <1>7 DEF FindUnknownTypes, Classify
<1>8. CASE ResolvePlaceholderTypes
  <2>1. /\ req \in Request /\ types \cup uncached = FindDescendantOIDs[req]
        /\ \A o \in uncached : Kind[o] = "missing"
    BY <1>8 DEF ResolvePlaceholderTypes
  <2>2. /\ req \subseteq FindDescendantOIDs[req]
        /\ \A o \in FindDescendantOIDs[req] : o \in OID /\ Child[o] \subseteq FindDescendantOIDs[req]
    BY <2>1, DescendantsClosed
  <2>3. ASSUME NEW h \in holes PROVE h[1] \in types /\ h[2] \in types
    <3>1. h[1] \in FindDescendantOIDs[req] /\ h[2] \in Child[h[1]]
      BY <1>8 DEF ResolvePlaceholderTypes
    <3>2. h[2] \in FindDescendantOIDs[req] /\ Kind[h[2]] # "missing" /\ Kind[h[1]] # "missing"
      BY <3>1, <2>2, ChildAssumption
    <3> QED BY <3>1, <3>2, <2>1
  <2>4. holes' = {} /\ Unresolved = {}
    BY <1>8, <2>3 DEF ResolvePlaceholderTypes, Unresolved
  <2>5. pc' = "unclassified" \/ (pc' = "returned" /\ uncached = {})
    BY <1>8, <2>4 DEF ResolvePlaceholderTypes
  <2>6. TypeOK' /\ ArrayElemFound' /\ PlaceholdersResolvable'
    BY <1>8, <2>4, <2>5 DEF ResolvePlaceholderTypes
  <2>7. CASE pc' = "unclassified"
    BY <1>8, <2>4, <2>6, <2>7 DEF ResolvePlaceholderTypes
  <2>8. CASE pc' = "returned" /\ uncached = {}
    BY <1>8, <2>1, <2>2, <2>4, <2>6, <2>8 DEF ResolvePlaceholderTypes
  <2> QED BY <2>5, <2>7, <2>8
<1>9. CASE QueryFails
  BY <1>9 DEF QueryFails
<1>10. CASE UNCHANGED vars
  BY <1>10 DEF vars
<1> QED BY <1>1, <1>2, <1>3, <1>4, <1>5, <1>6, <1>7, <1>8, <1>9, <1>10
        DEF Next, Call, GaveUp

(* The invariant holds in every state of every behaviour.                   *)
THEOREM IInvHolds == Spec => []IInv
BY InitIInv, NextIInv, PTL DEF Spec

(* The state keeps its shape: a type is in the result or still to be found, *)
(* and what is in the result is in the cache.                               *)
THEOREM TypeCorrect == Spec => []TypeOK
<1>1. IInv => TypeOK
  BY DEF IInv
<1> QED BY <1>1, IInvHolds, PTL

(* Between calls no placeholder survives in the cache and every cached      *)
(* composite or array has all its parts cached.                             *)
THEOREM CacheAlwaysSound == Spec => []CacheSound
<1>1. IInv => CacheSound
  BY DEF IInv
<1> QED BY <1>1, IInvHolds, PTL

(* The map FindTypesByOIDs returns has every OID it was asked for.          *)
THEOREM RequestedAlwaysReturned == Spec => []ReturnsRequested
<1>1. IInv => ReturnsRequested
  BY DEF IInv, ReturnsRequested
<1> QED BY <1>1, IInvHolds, PTL

(* resolvePlaceholderTypes never fails.                                     *)
THEOREM PlaceholdersAlwaysResolvable == Spec => []PlaceholdersResolvable
<1>1. IInv => PlaceholdersResolvable
  BY DEF IInv
<1> QED BY <1>1, IInvHolds, PTL

(* findArrayTypes refuses an array only for an element of a kind that no    *)
(* earlier pass covers.                                                     *)
THEOREM ArrayElemAlwaysFound == Spec => []ArrayElemFound
<1>1. IInv => ArrayElemFound
  BY DEF IInv
<1> QED BY <1>1, IInvHolds, PTL

(* No pass of FindTypesByOIDs misses in the cache what another pass owes it.*)
THEOREM LookupsAlwaysSucceed == Spec => []LookupsSucceed
<1>1. PlaceholdersResolvable /\ ArrayElemFound => LookupsSucceed
  BY DEF LookupsSucceed
<1> QED BY <1>1, PlaceholdersAlwaysResolvable, ArrayElemAlwaysFound, PTL
=============================================================================
