---------------------------- MODULE RecordsProofs ----------------------------
(***************************************************************************)
(* Theorems about what is kept beside orders and the pages that show it:   *)
(* addresses, reviews and requests, the checkout page, browsing, the tree  *)
(* of the catalog, its attributes, and opening hours; for any rows, drafts,*)
(* reads, clerks and handlers in flight.                                   *)
(***************************************************************************)
EXTENDS Addresses, Feedback, CheckoutPage, Browse, CategoryTree, Attributes, Opening,
        FiniteSetTheorems, TLAPS

-----------------------------------------------------------------------------
(* Addresses.                                                              *)

\* Handlers that make their row, or the newest, a default without taking it
\* from the others: they read that their row was the default.
Makers == {d \in Drafts : /\ draft[d].pc \in {"update", "remove"} /\ draft[d].wasDefault
                          /\ draft[d].pc = "update" => draft[d].wants = "default"}

\* Rows that are a default, or may become one beside others.
Claimed == Defaults \cup {i \in KeptAddresses : \E d \in Makers : draft[d].row = i}

\* What a handler that is alone has read still holds.
ReadHolds(q) ==
  /\ q.pc = "create" => (KeptAddresses = {} => q.wants = "default")
  /\ q.pc \in {"update", "remove"} =>
       q.row \in KeptAddresses /\ (q.wasDefault <=> address[q.row] = "default")

DraftsApart ==
  ~raced => /\ \A d, e \in Drafts : draft[d].pc # "idle" /\ draft[e].pc # "idle" => d = e
            /\ \A d \in Drafts : ReadHolds(draft[d])
            /\ \A i, j \in Defaults : i = j
            /\ KeptAddresses # {} /\ ~unset => Defaults # {}

ClaimedBounded == Drafts # {} => Cardinality(Claimed) <= Cardinality(Drafts)

AddressInv == AddressTypeOK /\ DraftsApart /\ ClaimedBounded

LEMMA RowsAreFinite ==
  ASSUME NEW S, S \subseteq AddressIds
  PROVE  IsFiniteSet(S) /\ Cardinality(S) \in Nat
  <1>1. IsFiniteSet(AddressIds)
    BY FS_Interval, AddressAssumption DEF AddressIds
  <1> QED
    BY <1>1, FS_Subset, FS_CardinalityType

LEMMA DraftsCount == IsFiniteSet(Drafts) /\ Cardinality(Drafts) \in Nat
  BY FS_CardinalityType, AddressAssumption

LEMMA ClaimedType == ASSUME AddressTypeOK PROVE Claimed \subseteq AddressIds
  BY DEF Claimed, Defaults, KeptAddresses

\* With fewer claimed rows, the bound is kept.
LEMMA ClaimedShrinks ==
  ASSUME AddressTypeOK, ClaimedBounded, Claimed' \subseteq Claimed
  PROVE  ClaimedBounded'
  <1>1. Cardinality(Claimed') <= Cardinality(Claimed)
    BY ClaimedType, RowsAreFinite, FS_Subset
  <1>2. Claimed' \subseteq AddressIds
    BY ClaimedType
  <1> QED
    BY <1>1, <1>2, ClaimedType, RowsAreFinite, DraftsCount DEF ClaimedBounded

\* A handler that takes the default from the others leaves one claimed row for
\* itself and one for each of the others.
LEMMA ClaimedByTheOthers ==
  ASSUME NEW d \in Drafts, NEW i \in AddressIds, NEW q \in [Drafts -> AddressIds],
         NEW S, NEW M \in SUBSET (Drafts \ {d}), S \subseteq {i} \cup {q[e] : e \in M}
  PROVE  Cardinality(S) <= Cardinality(Drafts)
  <1> DEFINE T == {q[e] : e \in M}
             f == [e \in M |-> q[e]]
  <1>1. IsFiniteSet(M) /\ Cardinality(M) \in Nat /\ Cardinality(M) + 1 <= Cardinality(Drafts)
    <2>1. /\ IsFiniteSet(Drafts \ {d})
          /\ Cardinality(Drafts \ {d}) = Cardinality(Drafts) - 1
      BY AddressAssumption, FS_RemoveElement
    <2>2. IsFiniteSet(M) /\ Cardinality(M) <= Cardinality(Drafts \ {d})
      BY <2>1, FS_Subset
    <2> QED
      BY <2>1, <2>2, DraftsCount, FS_CardinalityType
  <1>2. IsFiniteSet(T) /\ Cardinality(T) <= Cardinality(M)
    <2>1. f \in Surjection(M, T)
      BY DEF Surjection
    <2> QED
      BY <1>1, <2>1, FS_Surjection
  <1> HIDE DEF T
  <1>3. /\ IsFiniteSet(T \cup {i}) /\ Cardinality(T \cup {i}) <= Cardinality(T) + 1
        /\ Cardinality(T) \in Nat
    <2>1. Cardinality(T) \in Nat
      BY <1>2, FS_CardinalityType
    <2>2. /\ IsFiniteSet(T \cup {i})
          /\ Cardinality(T \cup {i}) = IF i \in T THEN Cardinality(T) ELSE Cardinality(T) + 1
      BY <1>2, FS_AddElement
    <2> QED
      BY <2>1, <2>2
  <1>4. IsFiniteSet(S) /\ Cardinality(S) <= Cardinality(T \cup {i})
    <2>1. S \subseteq T \cup {i}
      BY DEF T
    <2> QED
      BY <1>3, <2>1, FS_Subset
  <1>5. Cardinality(S) \in Nat
    BY <1>4, FS_CardinalityType
  <1> QED
    BY <1>1, <1>2, <1>3, <1>4, <1>5, DraftsCount, FS_CardinalityType

LEMMA AddressInitInv == AddressInit => AddressInv
  <1> SUFFICES ASSUME AddressInit PROVE AddressInv
    OBVIOUS
  <1>1. AddressTypeOK
    <2>1. NoDraft \in DraftRows
      BY AddressAssumption DEF NoDraft, DraftRows
    <2>2. \A d \in Drafts : draft[d].pc = "idle"
      BY DEF AddressInit, NoDraft
    <2> QED
      BY <2>1, <2>2 DEF AddressInit, AddressTypeOK, AddressRows
  <1>2. KeptAddresses = {} /\ Defaults = {} /\ Claimed = {}
    BY DEF AddressInit, Claimed, Defaults, KeptAddresses
  <1>3. DraftsApart
    BY <1>2 DEF AddressInit, DraftsApart, ReadHolds, NoDraft
  <1>4. ClaimedBounded
    BY <1>2, FS_EmptySet, DraftsCount DEF ClaimedBounded
  <1> QED
    BY <1>1, <1>3, <1>4 DEF AddressInv

LEMMA StartKeepsRows ==
  ASSUME AddressTypeOK, NEW d \in Drafts, NEW q \in DraftRows, StartDraft(d, q),
         q.pc \in {"update", "remove"} => q.row \in KeptAddresses
  PROVE  /\ AddressTypeOK'
         /\ KeptAddresses' = KeptAddresses /\ Defaults' = Defaults
  <1> USE DEF StartDraft
  <1>1. draft' \in [Drafts -> DraftRows] /\ raced' \in BOOLEAN
    BY DEF AddressTypeOK
  <1>2. \A e \in Drafts : draft'[e] = IF e = d THEN q ELSE draft[e]
    BY DEF AddressTypeOK
  <1> QED
    BY <1>1, <1>2 DEF AddressTypeOK, KeptAddresses, Defaults

\* A handler that starts claims no other row, and knows the rows when it is alone.
LEMMA DraftStarting ==
  ASSUME AddressInv, NEW d \in Drafts, NEW q \in DraftRows, StartDraft(d, q),
         q.pc # "idle", ReadHolds(q)
  PROVE  AddressInv'
  <1> USE DEF AddressInv
  <1>1. q.pc \in {"update", "remove"} => q.row \in KeptAddresses
    BY DEF ReadHolds
  <1>2. AddressTypeOK' /\ KeptAddresses' = KeptAddresses /\ Defaults' = Defaults
    BY <1>1, StartKeepsRows
  <1>3. /\ \A e \in Drafts : draft'[e] = IF e = d THEN q ELSE draft[e]
        /\ address' = address /\ unset' = unset
        /\ raced' = (raced \/ \E e \in Drafts \ {d} : draft[e].pc # "idle")
    BY DEF StartDraft, AddressTypeOK
  <1>4. DraftsApart'
    <2> SUFFICES ASSUME ~raced' PROVE DraftsApart'
      BY DEF DraftsApart
    <2>1. ~raced /\ \A e \in Drafts \ {d} : draft[e].pc = "idle"
      BY <1>3
    <2>2. \A e, f \in Drafts : draft'[e].pc # "idle" /\ draft'[f].pc # "idle" => e = f
      BY <1>3, <2>1
    <2>3. \A e \in Drafts : ReadHolds(draft[e])'
      BY <1>2, <1>3, <2>1 DEF ReadHolds
    <2> QED
      BY <1>2, <1>3, <2>1, <2>2, <2>3 DEF DraftsApart
  <1>5. Claimed' \subseteq Claimed
    <2>1. \A e \in Makers' : e \in Makers \/ draft'[e].row \in Defaults
      BY <1>3 DEF Makers, ReadHolds, Defaults, KeptAddresses
    <2>2. \A e \in Makers' : e \in Makers => draft'[e].row = draft[e].row \/ draft'[e].row \in Defaults
      BY <1>3, <2>1 DEF Makers, StartDraft
    <2> QED
      BY <1>2, <2>1, <2>2 DEF Claimed
  <1>6. ClaimedBounded'
    BY <1>5, ClaimedShrinks
  <1> QED
    BY <1>2, <1>4, <1>6

\* What the end of a handler leaves of the others.
LEMMA DraftEnded ==
  ASSUME AddressTypeOK, NEW d \in Drafts, EndDraft(d), address' \in [AddressIds -> AddressRows],
         \A i \in AddressIds : address[i] # "none" => address'[i] # "none",
         unset' \in BOOLEAN, raced' = raced
  PROVE  /\ AddressTypeOK'
         /\ \A e \in Drafts : draft'[e] = IF e = d THEN NoDraft ELSE draft[e]
         /\ Makers' = Makers \ {d}
  <1>1. NoDraft \in DraftRows /\ NoDraft.pc = "idle"
    BY AddressAssumption DEF NoDraft, DraftRows
  <1>2. \A e \in Drafts : draft'[e] = IF e = d THEN NoDraft ELSE draft[e]
    BY DEF EndDraft, AddressTypeOK
  <1>3. draft' \in [Drafts -> DraftRows]
    BY <1>1 DEF EndDraft, AddressTypeOK
  <1> QED
    BY <1>1, <1>2, <1>3 DEF AddressTypeOK, Makers

\* A handler that ends: the others were idle when it was alone.
LEMMA DraftEnding ==
  ASSUME AddressInv, NEW d \in Drafts, draft[d].pc # "idle", EndDraft(d),
         address' \in [AddressIds -> AddressRows],
         \A i \in AddressIds : address[i] # "none" => address'[i] # "none",
         unset' \in BOOLEAN, raced' = raced,
         ~raced => /\ \A i, j \in Defaults' : i = j
                   /\ KeptAddresses' # {} /\ ~unset' => Defaults' # {},
         ClaimedBounded'
  PROVE  AddressInv'
  <1> USE DEF AddressInv
  <1>1. /\ AddressTypeOK'
        /\ \A e \in Drafts : draft'[e] = IF e = d THEN NoDraft ELSE draft[e]
    BY DraftEnded
  <1>2. DraftsApart'
    <2> SUFFICES ASSUME ~raced PROVE DraftsApart'
      BY DEF DraftsApart
    <2>1. \A e \in Drafts : draft'[e].pc = "idle"
      BY <1>1 DEF DraftsApart, NoDraft
    <2>2. \A e \in Drafts : ReadHolds(draft[e])'
      BY <2>1 DEF ReadHolds
    <2> QED
      BY <2>1, <2>2 DEF DraftsApart
  <1> QED
    BY <1>1, <1>2

\* One row is made the default and the others no longer are: whoever wrote it,
\* only the other handlers may make defaults beside it.
LEMMA OneMade ==
  ASSUME AddressInv, NEW d \in Drafts, NEW i \in AddressIds, EndDraft(d),
         draft[d].pc # "idle", unset' = FALSE, raced' = raced,
         address' = [Undefaulted EXCEPT ![i] = "default"],
         i \in KeptAddresses \/ address[i] = "none"
  PROVE  AddressInv'
  <1> USE DEF AddressInv
  <1>1. \A j \in AddressIds : /\ Undefaulted[j] \in AddressRows
                              /\ Undefaulted[j] # "default"
                              /\ address[j] # "none" => Undefaulted[j] # "none"
    BY DEF Undefaulted, AddressTypeOK, AddressRows
  <1>2. \A j \in AddressIds : address'[j] = IF j = i THEN "default" ELSE Undefaulted[j]
    BY DEF Undefaulted
  <1>3. address' \in [AddressIds -> AddressRows]
    BY <1>1, <1>2 DEF Undefaulted, AddressRows
  <1>4. \A j \in AddressIds : address[j] # "none" => address'[j] # "none"
    BY <1>1, <1>2
  <1>5. Defaults' = {i}
    BY <1>1, <1>2 DEF Defaults
  <1>6. ClaimedBounded'
    <2> DEFINE M == Makers \ {d}
               q == [e \in Drafts |-> IF draft[e].row \in AddressIds THEN draft[e].row ELSE i]
    <2>1. Makers' = M /\ \A e \in M : draft'[e] = draft[e]
      BY <1>3, <1>4, DraftEnded DEF Makers
    <2>2. q \in [Drafts -> AddressIds] /\ \A e \in M : q[e] = draft[e].row
      BY DEF AddressTypeOK, Makers
    <2>4. M \in SUBSET (Drafts \ {d})
      BY DEF Makers
    <2> HIDE DEF M, q
    <2>3. Claimed' \subseteq {i} \cup {q[e] : e \in M}
      <3> SUFFICES ASSUME NEW j \in Claimed', j # i
                   PROVE  \E e \in M : q[e] = j
        OBVIOUS
      <3>1. j \notin Defaults'
        BY <1>5
      <3>2. PICK e \in Makers' : draft'[e].row = j
        BY <3>1 DEF Claimed
      <3> QED
        BY <2>1, <2>2, <3>2
    <2>5. Cardinality(Claimed') <= Cardinality(Drafts)
      BY <2>2, <2>3, <2>4, ClaimedByTheOthers
    <2> QED
      BY <2>5 DEF ClaimedBounded
  <1> QED
    BY <1>3, <1>4, <1>5, <1>6, DraftEnding

\* A write that makes no row a default but one that it has claimed itself.
LEMMA NoneMade ==
  ASSUME AddressInv, NEW d \in Drafts, EndDraft(d),
         draft[d].pc # "idle", unset' \in BOOLEAN, raced' = raced,
         address' \in [AddressIds -> AddressRows],
         \A i \in AddressIds : address[i] # "none" => address'[i] # "none",
         Defaults' \subseteq Claimed,
         \A i \in KeptAddresses' : address[i] # "gone",
         ~raced => /\ \A i, j \in Defaults' : i = j
                   /\ KeptAddresses' # {} /\ ~unset' => Defaults' # {}
  PROVE  AddressInv'
  <1> USE DEF AddressInv
  <1>1. /\ \A e \in Drafts : draft'[e] = IF e = d THEN NoDraft ELSE draft[e]
        /\ Makers' = Makers \ {d}
    BY DraftEnded
  <1>2. \A e \in Makers' : draft'[e].row = draft[e].row /\ address[draft[e].row] # "none"
    BY <1>1 DEF Makers, AddressTypeOK
  <1>3. \A i \in KeptAddresses' : address[i] # "none" => i \in KeptAddresses
    BY DEF KeptAddresses, AddressTypeOK, AddressRows
  <1>4. ASSUME NEW i \in KeptAddresses', NEW e \in Makers', draft'[e].row = i
        PROVE  i \in Claimed
    <2>1. e \in Makers /\ draft[e].row = i /\ address[i] # "none"
      BY <1>1, <1>2, <1>4
    <2> QED
      BY <1>3, <2>1 DEF Claimed
  <1>5. Claimed' \subseteq Claimed
    BY <1>4 DEF Claimed
  <1> QED
    BY <1>5, DraftEnding, ClaimedShrinks

\* A finite set of numbers has a greatest one.
LEMMA NewestThere ==
  ASSUME NEW S, S \subseteq AddressIds, S # {}
  PROVE  NewestOf(S) # {}
  <1> DEFINE T == {{j \in S : j > i} : i \in S}
  <1>1. IsFiniteSet(S)
    BY RowsAreFinite
  <1>2. T \subseteq FiniteSubsetsOf(S) /\ T # {}
    <2>1. ASSUME NEW A \in T PROVE A \in FiniteSubsetsOf(S)
      <3>1. A \in SUBSET S
        OBVIOUS
      <3> HIDE DEF T
      <3> QED
        BY <1>1, <3>1, FS_Subset DEF FiniteSubsetsOf
    <2> QED
      BY <2>1
  <1>3. IsWellFoundedOn(StrictSubsetOrdering(S), FiniteSubsetsOf(S))
    BY FS_StrictSubsetOrderingWellFounded
  <1>4. PICK A \in T : \A B \in T : ~(<<B, A>> \in StrictSubsetOrdering(S))
    <2> HIDE DEF T
    <2> QED
      BY <1>2, <1>3, WFMin
  <1>5. PICK i \in S : A = {j \in S : j > i}
    BY <1>4
  <1>6. \A j \in S : j \in Int
    BY DEF AddressIds
  <1>7. ASSUME NEW j \in S, j > i PROVE FALSE
    <2> DEFINE B == {k \in S : k > j}
    <2>1. B \subseteq A /\ B # A /\ A \subseteq S /\ B \subseteq S
      <3>1. j \in A /\ j \notin B
        BY <1>5, <1>6, <1>7
      <3> QED
        BY <1>5, <1>6, <1>7, <3>1
    <2>2. B \in T
      OBVIOUS
    <2> HIDE DEF B
    <2> QED
      BY <1>4, <2>1, <2>2 DEF StrictSubsetOrdering
  <1>8. i \in NewestOf(S)
    BY <1>6, <1>7 DEF NewestOf
  <1> QED
    BY <1>8

LEMMA AtMostOne ==
  ASSUME NEW S, \A i, j \in S : i = j
  PROVE  IsFiniteSet(S) /\ Cardinality(S) <= 1
  <1>1. CASE S = {}
    BY <1>1, FS_EmptySet
  <1>2. ASSUME NEW i \in S PROVE IsFiniteSet(S) /\ Cardinality(S) <= 1
    <2>1. S = {i}
      OBVIOUS
    <2>2. IsFiniteSet({i}) /\ Cardinality({i}) = 1
      BY FS_Singleton
    <2>3. IsFiniteSet(S) /\ Cardinality(S) = 1
      BY <2>1, <2>2
    <2> QED
      BY <2>3
  <1> QED
    BY <1>1, <1>2

\* One claimed row goes, at most one comes.
LEMMA ClaimedMoves ==
  ASSUME AddressTypeOK, ClaimedBounded, NEW r \in Claimed, NEW N,
         \A i, j \in N : i = j, Claimed' \subseteq (Claimed \ {r}) \cup N
  PROVE  ClaimedBounded'
  <1>1. /\ IsFiniteSet(Claimed) /\ Cardinality(Claimed) \in Nat
        /\ IsFiniteSet(Claimed \ {r}) /\ Cardinality(Claimed \ {r}) = Cardinality(Claimed) - 1
    BY ClaimedType, RowsAreFinite, FS_RemoveElement
  <1>2. CASE N = {}
    <2>1. Claimed' \subseteq Claimed
      BY <1>2
    <2> QED
      BY <2>1, ClaimedShrinks
  <1>3. ASSUME NEW n \in N PROVE ClaimedBounded'
    <2> DEFINE S == (Claimed \ {r}) \cup {n}
    <2>1. Claimed' \subseteq S
      OBVIOUS
    <2>2. IsFiniteSet(S) /\ Cardinality(S) <= Cardinality(Claimed)
      <3> DEFINE C == Claimed \ {r}
      <3>1. /\ IsFiniteSet(C \cup {n})
            /\ Cardinality(C \cup {n}) = IF n \in C THEN Cardinality(C) ELSE Cardinality(C) + 1
        BY <1>1, FS_AddElement
      <3>2. Cardinality(C) = Cardinality(Claimed) - 1
        BY <1>1
      <3> HIDE DEF C
      <3>3. Cardinality(C \cup {n}) <= Cardinality(Claimed)
        BY <1>1, <3>1, <3>2
      <3> QED
        BY <3>1, <3>3 DEF C
    <2>3. IsFiniteSet(Claimed') /\ Cardinality(Claimed') <= Cardinality(S)
      BY <2>1, <2>2, FS_Subset
    <2>4. Cardinality(S) \in Nat /\ Cardinality(Claimed') \in Nat
      BY <2>2, <2>3, FS_CardinalityType
    <2> HIDE DEF S
    <2> QED
      BY <1>1, <2>2, <2>3, <2>4, DraftsCount DEF ClaimedBounded
  <1> QED
    BY <1>2, <1>3

LEMMA NoDraftType == NoDraft \in DraftRows
  BY AddressAssumption DEF NoDraft, DraftRows

LEMMA AddressStep ==
  ASSUME AddressInv, [AddressNext]_addressVars
  PROVE  AddressInv'
  <1> USE DEF AddressInv
  <1>1. ASSUME NEW d \in Drafts, NEW w \in {"default", "plain"}, CreateAddress(d, w)
        PROVE  AddressInv'
    <2> DEFINE v == IF KeptAddresses = {} THEN "default" ELSE w
               q == [NoDraft EXCEPT !.pc = "create", !.wants = v]
    <2>1. StartDraft(d, q)
      BY <1>1 DEF CreateAddress
    <2>2. v \in {"nothing", "default", "plain"} /\ (KeptAddresses = {} => v = "default")
      OBVIOUS
    <2> HIDE DEF v
    <2>3. q \in DraftRows /\ q.pc = "create" /\ q.wants = v
      BY <2>2, NoDraftType DEF DraftRows
    <2>4. ReadHolds(q)
      BY <2>2, <2>3 DEF ReadHolds
    <2> HIDE DEF q
    <2> QED
      BY <2>1, <2>3, <2>4, DraftStarting
  <1>2. ASSUME NEW d \in Drafts, NEW i \in AddressIds, RemoveAddress(d, i)
        PROVE  AddressInv'
    <2> DEFINE v == address[i] = "default"
               q == [NoDraft EXCEPT !.pc = "remove", !.row = i, !.wasDefault = v]
    <2>1. StartDraft(d, q) /\ i \in KeptAddresses
      BY <1>2 DEF RemoveAddress
    <2>2. v \in BOOLEAN /\ (v <=> address[i] = "default") /\ i \in 0..MaxAddresses
      BY AddressAssumption DEF AddressIds
    <2> HIDE DEF v
    <2>3. q \in DraftRows /\ q.pc = "remove" /\ q.row = i /\ q.wasDefault = v
      BY <2>2, NoDraftType DEF DraftRows
    <2>4. ReadHolds(q)
      BY <2>1, <2>2, <2>3 DEF ReadHolds
    <2> HIDE DEF q
    <2> QED
      BY <2>1, <2>3, <2>4, DraftStarting
  <1>3. ASSUME NEW d \in Drafts, NEW i \in AddressIds, NEW w \in {"nothing", "default", "plain"},
               UpdateAddress(d, i, w)
        PROVE  AddressInv'
    <2> DEFINE q == [pc |-> "update", row |-> i, wasDefault |-> address[i] = "default",
                     wants |-> w]
    <2>0. /\ q \in DraftRows /\ q.pc = "update" /\ q.row = i
          /\ q.wasDefault = (address[i] = "default")
      BY AddressAssumption DEF DraftRows, AddressIds
    <2>1. q \in DraftRows /\ q.pc = "update" /\ ReadHolds(q)
      BY <1>3, <2>0 DEF ReadHolds, UpdateAddress
    <2>2. StartDraft(d, q)
      BY <1>3 DEF UpdateAddress
    <2> HIDE DEF q
    <2> QED
      BY <2>1, <2>2, DraftStarting
  <1>4. ASSUME NEW d \in Drafts, CreateAddressCommit(d) PROVE AddressInv'
    <2>1. PICK i \in AddressIds :
            /\ address[i] = "none"
            /\ address' = IF draft[d].wants = "default"
                          THEN [Undefaulted EXCEPT ![i] = "default"]
                          ELSE [address EXCEPT ![i] = "plain"]
      BY <1>4 DEF CreateAddressCommit
    <2>2. /\ draft[d].pc = "create" /\ EndDraft(d) /\ raced' = raced
          /\ unset' = (unset /\ draft[d].wants # "default")
      BY <1>4 DEF CreateAddressCommit
    <2>3. CASE draft[d].wants = "default"
      BY <2>1, <2>2, <2>3, OneMade
    <2>4. CASE draft[d].wants # "default"
      <3>1. \A j \in AddressIds : address'[j] = IF j = i THEN "plain" ELSE address[j]
        BY <2>1, <2>4 DEF AddressTypeOK
      <3>2. address' \in [AddressIds -> AddressRows]
        BY <2>1, <2>4 DEF AddressTypeOK, AddressRows
      <3>3. Defaults' = Defaults /\ KeptAddresses' = KeptAddresses \cup {i}
        BY <2>1, <3>1 DEF Defaults, KeptAddresses
      <3>4. \A j \in KeptAddresses' : address[j] # "gone"
        BY <2>1, <3>3 DEF KeptAddresses
      <3>5. \A j \in AddressIds : address[j] # "none" => address'[j] # "none"
        BY <3>1
      <3>6. ~raced => KeptAddresses # {}
        BY <2>2, <2>4 DEF DraftsApart, ReadHolds
      <3>7. unset' = unset /\ unset \in BOOLEAN
        BY <2>2, <2>4 DEF AddressTypeOK
      <3>8. ~raced => /\ \A j, k \in Defaults' : j = k
                      /\ KeptAddresses' # {} /\ ~unset' => Defaults' # {}
        BY <3>3, <3>6, <3>7 DEF DraftsApart
      <3>9. Defaults' \subseteq Claimed
        BY <3>3 DEF Claimed
      <3> QED
        BY <2>2, <3>2, <3>4, <3>5, <3>7, <3>8, <3>9, NoneMade
    <2> QED
      BY <2>3, <2>4
  <1>5. ASSUME NEW d \in Drafts, UpdateAddressCommit(d) PROVE AddressInv'
    <2> DEFINE q == draft[d]
    <2>1. q.pc = "update" /\ EndDraft(d) /\ raced' = raced
      BY <1>5 DEF UpdateAddressCommit
    <2>2. CASE address' = address /\ unset' = unset
      <3>1. Defaults' = Defaults /\ KeptAddresses' = KeptAddresses
        BY <2>2 DEF Defaults, KeptAddresses
      <3> QED
        BY <2>1, <2>2, <3>1, NoneMade DEF DraftsApart, Claimed, AddressTypeOK, KeptAddresses
    <2>3. ASSUME q.row \in KeptAddresses, address' = UpdatedRows(q),
                 unset' = (q.wants # "default" /\ (unset \/ (q.wasDefault /\ q.wants = "plain")))
          PROVE  AddressInv'
      <3>1. q.row \in AddressIds /\ q.wants \in {"nothing", "default", "plain"}
            /\ q.wasDefault \in BOOLEAN /\ unset \in BOOLEAN
        BY <2>1 DEF AddressTypeOK, DraftRows
      <3>2. CASE q.wants = "nothing"
        <4>1. address' = address
          BY <2>3, <3>2 DEF UpdatedRows
        <4>2. unset' = unset
          BY <2>3, <3>1, <3>2
        <4> QED
          BY <2>2, <4>1, <4>2
      <3>3. CASE q.wants = "default" /\ ~q.wasDefault
        <4>1. address' = [Undefaulted EXCEPT ![q.row] = "default"] /\ unset' = FALSE
          BY <2>3, <3>3 DEF UpdatedRows
        <4> QED
          BY <2>1, <2>3, <3>1, <4>1, OneMade
      <3>4. CASE q.wants = "plain" \/ (q.wants = "default" /\ q.wasDefault)
        <4>1. address' = [address EXCEPT ![q.row] = q.wants]
          BY <2>3, <3>4 DEF UpdatedRows
        <4>2. \A j \in AddressIds : address'[j] = IF j = q.row THEN q.wants ELSE address[j]
          BY <4>1 DEF AddressTypeOK
        <4>3. address' \in [AddressIds -> AddressRows]
          BY <3>1, <3>4, <4>1 DEF AddressTypeOK, AddressRows
        <4>4. \A j \in AddressIds : address[j] # "none" => address'[j] # "none"
          BY <3>4, <4>2
        <4>5. KeptAddresses' = KeptAddresses
          BY <2>3, <3>4, <4>2 DEF KeptAddresses
        <4>6. Defaults' = IF q.wants = "plain" THEN Defaults \ {q.row} ELSE Defaults \cup {q.row}
          BY <3>1, <3>4, <4>2 DEF Defaults
        <4>7. Defaults' \subseteq Claimed
          <5>1. q.wants = "default" => d \in Makers
            BY <2>1, <3>4 DEF Makers
          <5> QED
            BY <2>3, <3>1, <3>4, <4>6, <5>1 DEF Claimed
        <4>8. ASSUME ~raced
              PROVE  /\ \A j, k \in Defaults' : j = k
                     /\ KeptAddresses' # {} /\ ~unset' => Defaults' # {}
          <5>1. q.wasDefault <=> q.row \in Defaults
            BY <2>1, <3>1, <4>8 DEF DraftsApart, ReadHolds, Defaults
          <5>2. CASE q.wants = "default"
            BY <3>4, <4>6, <5>1, <5>2, <4>8 DEF DraftsApart
          <5>3. CASE q.wants = "plain" /\ q.wasDefault
            BY <2>3, <4>6, <5>3, <4>8 DEF DraftsApart
          <5>4. CASE q.wants = "plain" /\ ~q.wasDefault
            <6>1. Defaults' = Defaults
              BY <4>6, <5>1, <5>4
            <6>2. unset' = unset
              BY <2>3, <3>1, <5>4
            <6> QED
              BY <4>5, <4>8, <6>1, <6>2 DEF DraftsApart
          <5> QED
            BY <3>1, <3>4, <5>2, <5>3, <5>4
        <4>9. \A j \in KeptAddresses' : address[j] # "gone"
          BY <4>5 DEF KeptAddresses
        <4>10. unset' \in BOOLEAN
          BY <2>3
        <4> QED
          BY <2>1, <4>3, <4>4, <4>7, <4>8, <4>9, <4>10, NoneMade
      <3>5. \/ q.wants = "nothing"
            \/ q.wants = "default" /\ ~q.wasDefault
            \/ q.wants = "plain" \/ (q.wants = "default" /\ q.wasDefault)
        BY <3>1
      <3> QED
        BY <3>2, <3>3, <3>4, <3>5
    <2> QED
      BY <1>5, <2>2, <2>3 DEF UpdateAddressCommit
  <1>6. ASSUME NEW d \in Drafts, RemoveAddressCommit(d) PROVE AddressInv'
    <2> DEFINE q == draft[d]
               newest == NewestOf(KeptAddresses \ {q.row})
    <2>1. q.pc = "remove" /\ EndDraft(d) /\ raced' = raced /\ unset' = unset
      BY <1>6 DEF RemoveAddressCommit
    <2>2. CASE address' = address
      <3>1. Defaults' = Defaults /\ KeptAddresses' = KeptAddresses
        BY <2>2 DEF Defaults, KeptAddresses
      <3> QED
        BY <2>1, <2>2, <3>1, NoneMade DEF DraftsApart, Claimed, AddressTypeOK, KeptAddresses
    <2>3. ASSUME q.row \in KeptAddresses, address' = Removed(q)
          PROVE  AddressInv'
      <3>0. q.row \in AddressIds /\ q.wasDefault \in BOOLEAN /\ unset \in BOOLEAN
        BY <2>1 DEF AddressTypeOK, DraftRows
      <3>1. \A j \in AddressIds :
              address'[j] = IF j = q.row THEN "gone"
                            ELSE IF q.wasDefault /\ j \in newest THEN "default" ELSE address[j]
        BY <2>3 DEF Removed
      <3>2. newest \subseteq KeptAddresses \ {q.row} /\ \A j, k \in newest : j = k
        BY DEF NewestOf, KeptAddresses, AddressIds
      <3> HIDE DEF newest
      <3>3. address' \in [AddressIds -> AddressRows]
        BY <2>3, <3>0 DEF Removed, AddressTypeOK, AddressRows
      <3>4. \A j \in AddressIds : address[j] # "none" => address'[j] # "none"
        BY <3>1
      <3>5. KeptAddresses' = KeptAddresses \ {q.row}
        BY <3>1, <3>2 DEF KeptAddresses
      <3>6. Defaults' = IF q.wasDefault THEN (Defaults \ {q.row}) \cup newest
                        ELSE Defaults \ {q.row}
        BY <3>0, <3>1, <3>2 DEF Defaults, KeptAddresses
      <3>7. ASSUME ~raced
            PROVE  /\ \A j, k \in Defaults' : j = k
                   /\ KeptAddresses' # {} /\ ~unset' => Defaults' # {}
        <4>1. q.wasDefault <=> q.row \in Defaults
          BY <2>1, <3>0, <3>7 DEF DraftsApart, ReadHolds, Defaults
        <4>2. CASE q.wasDefault
          <5>1. Defaults' = newest
            BY <3>6, <3>7, <4>1, <4>2 DEF DraftsApart
          <5>2. KeptAddresses' # {} => newest # {}
            BY <3>5, NewestThere DEF newest, KeptAddresses
          <5> QED
            BY <3>2, <5>1, <5>2
        <4>3. CASE ~q.wasDefault
          <5>1. Defaults' = Defaults
            BY <3>6, <4>1, <4>3
          <5> QED
            BY <2>1, <3>5, <3>7, <5>1 DEF DraftsApart
        <4> QED
          BY <3>0, <4>2, <4>3
      <3>8. ClaimedBounded'
        <4>1. Claimed' \subseteq (Claimed \ {q.row}) \cup newest
          <5>1. /\ Makers' = Makers \ {d}
                /\ \A e \in Makers' : draft'[e] = draft[e]
            BY <2>1, <3>0, <3>3, <3>4, DraftEnded DEF Makers
          <5>2. q.row \notin Claimed'
            BY <3>5, <3>6, <3>2 DEF Claimed
          <5>3. Claimed' \subseteq Claimed \cup newest
            BY <3>5, <3>6, <5>1 DEF Claimed
          <5> QED
            BY <5>2, <5>3
        <4>2. CASE q.wasDefault
          <5>1. q.row \in Claimed
            BY <2>1, <2>3, <4>2 DEF Claimed, Makers
          <5> QED
            BY <3>2, <4>1, <5>1, ClaimedMoves DEF newest
        <4>3. CASE ~q.wasDefault
          <5>1. Claimed' \subseteq Claimed
            <6>1. /\ Makers' = Makers \ {d}
                  /\ \A e \in Makers' : draft'[e] = draft[e]
              BY <2>1, <3>0, <3>3, <3>4, DraftEnded DEF Makers
            <6> QED
              BY <3>5, <3>6, <4>3, <6>1 DEF Claimed
          <5> QED
            BY <5>1, ClaimedShrinks
        <4> QED
          BY <3>0, <4>2, <4>3
      <3> QED
        BY <2>1, <3>0, <3>3, <3>4, <3>7, <3>8, DraftEnding
    <2> QED
      BY <1>6, <2>2, <2>3 DEF RemoveAddressCommit
  <1>7. ASSUME NEW d \in Drafts, DraftDies(d) PROVE AddressInv'
    <2>1. Defaults' = Defaults /\ KeptAddresses' = KeptAddresses
      BY <1>7 DEF DraftDies, Defaults, KeptAddresses
    <2> QED
      BY <1>7, <2>1, NoneMade DEF DraftDies, DraftsApart, Claimed, AddressTypeOK, KeptAddresses
  <1>8. CASE UNCHANGED addressVars
    <2>1. Defaults' = Defaults /\ KeptAddresses' = KeptAddresses /\ Claimed' = Claimed
      BY <1>8 DEF addressVars, Defaults, KeptAddresses, Claimed, Makers
    <2> QED
      BY <1>8, <2>1
      DEF addressVars, AddressTypeOK, DraftsApart, ReadHolds, ClaimedBounded
  <1> QED
    BY <1>1, <1>2, <1>3, <1>4, <1>5, <1>6, <1>7, <1>8 DEF AddressNext

LEMMA DefaultsFollow == AddressInv => DefaultsBounded /\ OneDefault
  <1> SUFFICES ASSUME AddressInv PROVE DefaultsBounded /\ OneDefault
    OBVIOUS
  <1>1. Defaults \subseteq Claimed /\ Claimed \subseteq AddressIds /\ Defaults \subseteq AddressIds
    BY ClaimedType DEF AddressInv, Claimed, Defaults
  <1>2. /\ Cardinality(Defaults) <= Cardinality(Claimed)
        /\ Cardinality(Claimed) \in Nat /\ Cardinality(Defaults) \in Nat
        /\ IsFiniteSet(Defaults)
    BY <1>1, RowsAreFinite, FS_Subset
  <1>3. DefaultsBounded
    BY <1>2, DraftsCount DEF AddressInv, ClaimedBounded, DefaultsBounded
  <1>4. ASSUME \A i, j \in Defaults : i = j PROVE Cardinality(Defaults) <= 1
    BY <1>2, <1>4, AtMostOne
  <1>5. OneDefault
    BY <1>4 DEF AddressInv, DraftsApart, OneDefault
  <1> QED
    BY <1>3, <1>5

\* However handlers overlap, defaults are bounded; while they do not, there is
\* one (Addresses.DefaultsBounded, Addresses.OneDefault).
THEOREM DefaultsAreKept == AddressSpec => [](DefaultsBounded /\ OneDefault)
  BY DefaultsFollow, AddressInitInv, AddressStep, PTL DEF AddressSpec

-----------------------------------------------------------------------------
(* Feedback.                                                               *)

ReviewPcs == {"review", "aggregate", "update"}
Writers == {x \in Forms : form[x].pc \in ReviewPcs}

\* Committed reviews and those in flight are reviews that were begun, and who
\* is about to write the rating has counted what will be committed with it.
RatingHolds ==
  /\ reviews + Cardinality(Writers) <= begun.review
  /\ rating = reviews
  /\ \A x \in Forms : form[x].pc = "update" => form[x].count = reviews + 1

FormTypes ==
  /\ reviews \in 0..MaxReviews /\ rating \in 0..MaxReviews
  /\ wish \in [Wishes -> WishRows]
  /\ form \in [Forms -> FormRows]
  /\ begun \in [review : 0..MaxReviews, press : 0..MaxPresses]
  /\ latest \in [Kinds -> {"none", "press", "fulfil"}]
  /\ crowded \in BOOLEAN

\* A row keeps its kind, and a handler that has one knows it.
WishesHold ==
  /\ \A n \in Wishes : wish[n].kind = "none" => wish[n] = NoWish
  /\ \A m, n \in RowsOf("store") : m = n
  /\ \A x \in Forms : form[x].pc \in {"bump", "fulfil"} =>
       form[x].row \in Wishes /\ wish[form[x].row].kind = form[x].kind

\* As long as handlers are alone, the one in flight knows all rows of its kind.
FormsApart ==
  ~crowded =>
    /\ \A x, y \in Forms : form[x].pc # "idle" /\ form[y].pc # "idle" => x = y
    /\ \A k \in Kinds : \A m, n \in RowsOf(k) : m = n
    /\ \A k \in Kinds : \A n \in RowsOf(k) : Fulfilled(n) <=> latest[k] = "fulfil"
    /\ \A x \in Forms : form[x].pc = "press" => RowsOf(form[x].kind) = {}

FeedbackInv == FormTypes /\ RatingHolds /\ WishesHold /\ FormsApart

LEMMA FormsCount ==
  ASSUME NEW S, S \subseteq Forms
  PROVE  IsFiniteSet(S) /\ Cardinality(S) \in Nat
  BY FeedbackAssumption, FS_Subset, FS_CardinalityType

LEMMA NoFormType == NoForm \in FormRows /\ NoForm.pc = "idle"
  BY FeedbackAssumption DEF NoForm, FormRows, Kinds

LEMMA FeedbackInitInv == FeedbackInit => FeedbackInv
  <1> SUFFICES ASSUME FeedbackInit PROVE FeedbackInv
    OBVIOUS
  <1>1. \A x \in Forms : form[x] = NoForm /\ form[x].pc = "idle"
    BY NoFormType DEF FeedbackInit
  <1>2. \A k \in Kinds : RowsOf(k) = {}
    BY DEF FeedbackInit, RowsOf, NoWish, Kinds
  <1>3. FormTypes
    <2>1. NoWish \in WishRows
      BY DEF NoWish, WishRows
    <2>2. wish \in [Wishes -> WishRows] /\ form \in [Forms -> FormRows]
      BY <2>1, NoFormType DEF FeedbackInit
    <2>3. /\ reviews \in 0..MaxReviews /\ rating \in 0..MaxReviews
          /\ begun \in [review : 0..MaxReviews, press : 0..MaxPresses]
      BY FeedbackAssumption DEF FeedbackInit
    <2>4. latest \in [Kinds -> {"none", "press", "fulfil"}] /\ crowded \in BOOLEAN
      BY DEF FeedbackInit
    <2> QED
      BY <2>2, <2>3, <2>4 DEF FormTypes
  <1>4. RatingHolds
    <2>1. Writers = {}
      BY <1>1 DEF Writers, ReviewPcs
    <2>2. Cardinality({}) = 0
      BY FS_EmptySet
    <2> QED
      BY <1>1, <2>1, <2>2, FeedbackAssumption DEF FeedbackInit, RatingHolds
  <1>5. WishesHold
    BY <1>1, <1>2 DEF FeedbackInit, WishesHold, Kinds
  <1>6. FormsApart
    BY <1>1, <1>2 DEF FormsApart
  <1> QED
    BY <1>3, <1>4, <1>5, <1>6 DEF FeedbackInv

\* The slots after a step of one handler.
LEMMA OneForm ==
  ASSUME FormTypes, NEW x \in Forms, NEW q \in FormRows, form' = [form EXCEPT ![x] = q]
  PROVE  /\ form' \in [Forms -> FormRows]
         /\ \A y \in Forms : form'[y] = IF y = x THEN q ELSE form[y]
         /\ Writers' = IF q.pc \in ReviewPcs THEN Writers \cup {x} ELSE Writers \ {x}
  <1>1. \A y \in Forms : form'[y] = IF y = x THEN q ELSE form[y]
    BY DEF FormTypes
  <1> QED
    BY <1>1 DEF FormTypes, Writers

\* A start: the requests are as they were, the handler is alone or crowds.
LEMMA FormStarts ==
  ASSUME FeedbackInv, NEW x \in Forms, NEW q \in FormRows, StartForm(x, q),
         q.pc \in {"review", "bump", "press", "fulfil"},
         q.pc \in {"bump", "fulfil"} => q.row \in RowsOf(q.kind),
         q.pc = "press" => RowsOf(q.kind) = {},
         begun' \in [review : 0..MaxReviews, press : 0..MaxPresses],
         IF q.pc = "review" THEN begun'.review = begun.review + 1
                            ELSE begun'.review = begun.review
  PROVE  FeedbackInv'
  <1> USE DEF FeedbackInv
  <1>1. /\ form[x].pc = "idle" /\ form' = [form EXCEPT ![x] = q]
        /\ crowded' = (crowded \/ \E y \in Forms \ {x} : form[y].pc # "idle")
        /\ UNCHANGED <<reviews, rating, wish, latest>>
    BY DEF StartForm
  <1>2. /\ form' \in [Forms -> FormRows]
        /\ \A y \in Forms : form'[y] = IF y = x THEN q ELSE form[y]
        /\ Writers' = IF q.pc \in ReviewPcs THEN Writers \cup {x} ELSE Writers \ {x}
    BY <1>1, OneForm
  <1>3. FormTypes'
    BY <1>1, <1>2 DEF FormTypes
  <1>4. \A k \in Kinds : RowsOf(k)' = RowsOf(k)
    BY <1>1 DEF RowsOf
  <1>5. RatingHolds'
    <2>1. x \notin Writers /\ Writers \subseteq Forms
      BY <1>1 DEF Writers, ReviewPcs
    <2>2. /\ IsFiniteSet(Writers) /\ Cardinality(Writers) \in Nat
          /\ Cardinality(Writers \cup {x}) = Cardinality(Writers) + 1
      BY <2>1, FormsCount, FS_AddElement
    <2>3. /\ q.pc = "review" => Writers' = Writers \cup {x}
          /\ q.pc # "review" => Writers' = Writers
      BY <1>2, <2>1 DEF ReviewPcs
    <2>4. reviews + Cardinality(Writers') <= begun'.review
      <3>1. reviews \in Nat /\ begun.review \in Nat
        BY FeedbackAssumption DEF FormTypes
      <3>2. CASE q.pc = "review"
        <4>1. Cardinality(Writers') = Cardinality(Writers) + 1
          BY <2>2, <2>3, <3>2
        <4>2. reviews + Cardinality(Writers) <= begun.review /\ begun'.review = begun.review + 1
          BY <3>2 DEF RatingHolds
        <4> QED
          BY <2>2, <3>1, <4>1, <4>2
      <3>3. CASE q.pc # "review"
        BY <2>2, <2>3, <3>1, <3>3 DEF RatingHolds
      <3> QED
        BY <3>2, <3>3
    <2>5. \A y \in Forms : form'[y].pc = "update" => form'[y].count = reviews + 1
      BY <1>2 DEF RatingHolds
    <2> QED
      BY <1>1, <2>4, <2>5 DEF RatingHolds
  <1>6. WishesHold'
    BY <1>1, <1>2, <1>4 DEF WishesHold, RowsOf, Kinds
  <1>7. FormsApart'
    <2> SUFFICES ASSUME ~crowded' PROVE FormsApart'
      BY DEF FormsApart
    <2>1. ~crowded /\ \A y \in Forms \ {x} : form[y].pc = "idle"
      BY <1>1
    <2>2. \A y, z \in Forms : form'[y].pc # "idle" /\ form'[z].pc # "idle" => y = z
      BY <1>2, <2>1
    <2>3. \A y \in Forms : form'[y].pc = "press" =>
            {n \in Wishes : wish'[n].kind = form'[y].kind} = {}
      <3> SUFFICES ASSUME NEW y \in Forms, form'[y].pc = "press"
                   PROVE  {n \in Wishes : wish'[n].kind = form'[y].kind} = {}
        OBVIOUS
      <3>1. y = x /\ form'[y] = q
        BY <1>2, <2>1
      <3>2. {n \in Wishes : wish[n].kind = q.kind} = {}
        BY <3>1 DEF RowsOf
      <3> QED
        BY <1>1, <3>1, <3>2
    <2>4. \A k \in Kinds : /\ \A m, n \in RowsOf(k)' : m = n
                           /\ \A n \in RowsOf(k)' : Fulfilled(n)' <=> latest'[k] = "fulfil"
      BY <1>1, <1>4, <2>1 DEF FormsApart, Fulfilled
    <2>5. \A y \in Forms : form'[y].pc = "press" => RowsOf(form[y].kind)' = {}
      BY <2>3 DEF RowsOf
    <2> QED
      BY <2>2, <2>4, <2>5 DEF FormsApart
  <1> QED
    BY <1>3, <1>5, <1>6, <1>7

\* A handler ends: the reviews are as they were, and so is the order of rows.
LEMMA FormQuits ==
  ASSUME FeedbackInv, NEW x \in Forms, EndForm(x),
         UNCHANGED <<reviews, rating, begun, crowded>>,
         wish' \in [Wishes -> WishRows], latest' \in [Kinds -> {"none", "press", "fulfil"}],
         \A n \in Wishes : wish[n].kind # "none" => wish'[n].kind = wish[n].kind,
         \A n \in Wishes : wish'[n].kind = "none" => wish'[n] = NoWish,
         \A m, n \in RowsOf("store")' : m = n,
         ~crowded /\ (\A y \in Forms \ {x} : form[y].pc = "idle") =>
           \A k \in Kinds : /\ \A m, n \in RowsOf(k)' : m = n
                            /\ \A n \in RowsOf(k)' : Fulfilled(n)' <=> latest'[k] = "fulfil",
         ~crowded => \A y \in Forms \ {x} : form[y].pc = "idle"
  PROVE  FeedbackInv'
  <1> USE DEF FeedbackInv
  <1>1. /\ form' \in [Forms -> FormRows]
        /\ \A y \in Forms : form'[y] = IF y = x THEN NoForm ELSE form[y]
        /\ Writers' = Writers \ {x}
    BY NoFormType, OneForm DEF EndForm, ReviewPcs
  <1>2. FormTypes'
    BY <1>1 DEF FormTypes
  <1>3. RatingHolds'
    <2>1. Writers \subseteq Forms /\ Writers' \subseteq Writers
      BY <1>1 DEF Writers
    <2>2. /\ IsFiniteSet(Writers) /\ Cardinality(Writers) \in Nat
          /\ Cardinality(Writers') \in Nat /\ Cardinality(Writers') <= Cardinality(Writers)
      BY <2>1, FormsCount, FS_Subset
    <2>3. reviews \in Nat /\ begun.review \in Nat
      BY FeedbackAssumption DEF FormTypes
    <2>4. reviews + Cardinality(Writers') <= begun.review
      <3>1. reviews + Cardinality(Writers) <= begun.review
        BY DEF RatingHolds
      <3> QED
        BY <2>2, <2>3, <3>1
    <2>5. \A y \in Forms : form'[y].pc = "update" => form'[y].count = reviews + 1
      BY <1>1, NoFormType DEF RatingHolds
    <2> QED
      BY <2>4, <2>5 DEF RatingHolds
  <1>4. WishesHold'
    <2>1. \A y \in Forms : form'[y].pc \in {"bump", "fulfil"} =>
            form[y].pc \in {"bump", "fulfil"} /\ form'[y] = form[y]
      BY <1>1, NoFormType
    <2>2. \A y \in Forms : form'[y].pc \in {"bump", "fulfil"} =>
            form'[y].row \in Wishes /\ wish'[form'[y].row].kind = form'[y].kind
      <3> SUFFICES ASSUME NEW y \in Forms, form'[y].pc \in {"bump", "fulfil"}
                   PROVE  form'[y].row \in Wishes /\ wish'[form'[y].row].kind = form'[y].kind
        OBVIOUS
      <3>1. form'[y] = form[y] /\ form[y].row \in Wishes /\ wish[form[y].row].kind = form[y].kind
        BY <2>1 DEF WishesHold
      <3>2. form[y].kind # "none"
        BY DEF FormTypes, FormRows, Kinds
      <3> QED
        BY <3>1, <3>2
    <2> QED
      BY <2>2 DEF WishesHold
  <1>5. FormsApart'
    <2> SUFFICES ASSUME ~crowded PROVE FormsApart'
      BY DEF FormsApart
    <2>1. \A y \in Forms : form'[y].pc = "idle"
      BY <1>1, NoFormType
    <2> QED
      BY <2>1 DEF FormsApart
  <1> QED
    BY <1>2, <1>3, <1>4, <1>5

\* A reviewer moves on: he stays a writer.
LEMMA WriterGoesOn ==
  ASSUME FeedbackInv, NEW x \in Forms, NEW q \in FormRows,
         form[x].pc \in ReviewPcs, q.pc \in ReviewPcs, form' = [form EXCEPT ![x] = q],
         q.pc = "update" => q.count = reviews + 1,
         UNCHANGED <<reviews, rating, wish, begun, latest, crowded>>
  PROVE  FeedbackInv'
  <1> USE DEF FeedbackInv
  <1>1. /\ form' \in [Forms -> FormRows]
        /\ \A y \in Forms : form'[y] = IF y = x THEN q ELSE form[y]
        /\ Writers' = Writers \cup {x}
    BY OneForm
  <1>2. Writers' = Writers
    BY <1>1 DEF Writers
  <1>3. FormTypes'
    BY <1>1 DEF FormTypes
  <1>4. RatingHolds'
    <2>1. reviews' + Cardinality(Writers') <= begun'.review
      BY <1>2 DEF RatingHolds
    <2> QED
      BY <1>1, <2>1 DEF RatingHolds
  <1>5. \A k \in Kinds : RowsOf(k)' = RowsOf(k)
    BY DEF RowsOf
  <1>6. WishesHold'
    BY <1>1, <1>5 DEF WishesHold, ReviewPcs, RowsOf, Kinds
  <1>7. FormsApart'
    <2> SUFFICES ASSUME ~crowded PROVE FormsApart'
      BY DEF FormsApart
    <2>1. \A y, z \in Forms : form'[y].pc # "idle" /\ form'[z].pc # "idle" => y = z
      BY <1>1 DEF FormsApart, ReviewPcs
    <2>2. \A y \in Forms : form'[y].pc = "press" => form'[y] = form[y]
      BY <1>1 DEF ReviewPcs
    <2>3. \A y \in Forms : form'[y].pc = "press" =>
            {n \in Wishes : wish'[n].kind = form'[y].kind} = {}
      BY <2>2 DEF FormsApart, RowsOf
    <2> QED
      BY <1>5, <2>1, <2>3 DEF FormsApart, Fulfilled, RowsOf
  <1> QED
    BY <1>3, <1>4, <1>6, <1>7

LEMMA WriterCounts ==
  ASSUME FeedbackInv, NEW x \in Forms, form[x].pc \in ReviewPcs
  PROVE  /\ reviews + 1 <= MaxReviews
         /\ IsFiniteSet(Writers) /\ Cardinality(Writers) \in Nat
         /\ Cardinality(Writers \ {x}) = Cardinality(Writers) - 1
  <1>1. x \in Writers /\ Writers \subseteq Forms
    BY DEF Writers
  <1>2. /\ IsFiniteSet(Writers) /\ Cardinality(Writers) \in Nat
        /\ IsFiniteSet(Writers \ {x}) /\ Cardinality(Writers \ {x}) = Cardinality(Writers) - 1
    BY <1>1, FormsCount, FS_RemoveElement
  <1>3. Cardinality(Writers \ {x}) \in Nat
    BY <1>2, FS_CardinalityType
  <1>4. reviews \in Nat /\ begun.review \in Nat /\ begun.review <= MaxReviews
    BY FeedbackAssumption DEF FeedbackInv, FormTypes
  <1>5. reviews + Cardinality(Writers) <= begun.review
    BY DEF FeedbackInv, RatingHolds
  <1> QED
    BY <1>2, <1>3, <1>4, <1>5, FeedbackAssumption

LEMMA FeedbackStep ==
  ASSUME FeedbackInv, [FeedbackNext]_feedbackVars
  PROVE  FeedbackInv'
  <1> USE DEF FeedbackInv
  <1>1. ASSUME NEW x \in Forms, WriteReview(x) PROVE FeedbackInv'
    <2> DEFINE q == [NoForm EXCEPT !.pc = "review"]
    <2>1. q \in FormRows /\ q.pc = "review"
      BY NoFormType DEF FormRows
    <2>2. /\ begun' \in [review : 0..MaxReviews, press : 0..MaxPresses]
          /\ begun'.review = begun.review + 1 /\ StartForm(x, q)
      BY <1>1, FeedbackAssumption DEF WriteReview, FormTypes
    <2> HIDE DEF q
    <2> QED
      BY <2>1, <2>2, FormStarts
  <1>2. ASSUME NEW x \in Forms, InsertReview(x) PROVE FeedbackInv'
    <2> DEFINE q == [form[x] EXCEPT !.pc = "aggregate"]
    <2>1. q \in FormRows /\ q.pc = "aggregate" /\ form' = [form EXCEPT ![x] = q]
      BY <1>2 DEF InsertReview, FormTypes, FormRows
    <2> HIDE DEF q
    <2> QED
      BY <1>2, <2>1, WriterGoesOn DEF InsertReview, ReviewPcs
  <1>3. ASSUME NEW x \in Forms, Aggregate(x) PROVE FeedbackInv'
    <2> DEFINE c == reviews + 1
               q == [form[x] EXCEPT !.pc = "update", !.count = c]
    <2>1. c \in 0..MaxReviews
      <3>1. form[x].pc \in ReviewPcs
        BY <1>3 DEF Aggregate, ReviewPcs
      <3>2. reviews + 1 <= MaxReviews
        BY <3>1, WriterCounts
      <3>3. reviews \in Nat
        BY FeedbackAssumption DEF FormTypes
      <3> QED
        BY <3>2, <3>3, FeedbackAssumption
    <2>2. form' = [form EXCEPT ![x] = q]
      BY <1>3 DEF Aggregate
    <2>3. c = reviews + 1
      OBVIOUS
    <2> HIDE DEF c
    <2>4. q \in FormRows /\ q.pc = "update" /\ q.count = c
      BY <2>1 DEF FormTypes, FormRows
    <2> HIDE DEF q
    <2> QED
      BY <1>3, <2>2, <2>3, <2>4, WriterGoesOn DEF Aggregate, ReviewPcs
  <1>4. ASSUME NEW x \in Forms, UpdateRating(x) PROVE FeedbackInv'
    <2>1. /\ form' \in [Forms -> FormRows]
          /\ \A y \in Forms : form'[y] = IF y = x THEN NoForm ELSE form[y]
          /\ Writers' = Writers \ {x}
      BY <1>4, NoFormType, OneForm DEF UpdateRating, EndForm, ReviewPcs
    <2>2. /\ form[x].pc = "update" /\ form[x].count = reviews + 1
          /\ reviews' = reviews + 1 /\ rating' = reviews + 1
          /\ \A y \in Forms \ {x} : form[y].pc # "update"
          /\ UNCHANGED <<wish, begun, latest, crowded>>
      BY <1>4 DEF UpdateRating, RatingHolds
    <2>3. /\ reviews + 1 <= MaxReviews
          /\ Cardinality(Writers) \in Nat
          /\ Cardinality(Writers \ {x}) = Cardinality(Writers) - 1
      BY <2>2, WriterCounts DEF ReviewPcs
    <2>4. FormTypes'
      <3>1. reviews + 1 \in 0..MaxReviews
        BY <2>3, FeedbackAssumption DEF FormTypes
      <3> QED
        BY <2>1, <2>2, <3>1 DEF FormTypes
    <2>5. RatingHolds'
      <3>1. reviews \in Nat /\ begun.review \in Nat /\ reviews + Cardinality(Writers) <= begun.review
        BY FeedbackAssumption DEF FormTypes, RatingHolds
      <3>2. reviews + 1 + Cardinality(Writers') <= begun.review
        BY <2>1, <2>3, <3>1
      <3>3. \A y \in Forms : form'[y].pc # "update"
        BY <2>1, <2>2, NoFormType
      <3> QED
        BY <2>2, <3>2, <3>3 DEF RatingHolds
    <2>6. \A k \in Kinds : RowsOf(k)' = RowsOf(k)
      BY <2>2 DEF RowsOf
    <2>7. WishesHold'
      BY <2>1, <2>2, <2>6, NoFormType DEF WishesHold, RowsOf, Kinds
    <2>8. FormsApart'
      <3> SUFFICES ASSUME ~crowded PROVE FormsApart'
        BY <2>2 DEF FormsApart
      <3>1. \A y \in Forms : form'[y].pc = "idle"
        BY <2>1, <2>2, NoFormType DEF FormsApart
      <3> QED
        BY <2>2, <2>6, <3>1 DEF FormsApart, Fulfilled
    <2> QED
      BY <2>4, <2>5, <2>7, <2>8
  <1>5. ASSUME NEW x \in Forms, NEW k \in Kinds, RequestProduct(x, k) PROVE FeedbackInv'
    <2>1. /\ begun' \in [review : 0..MaxReviews, press : 0..MaxPresses]
          /\ begun'.review = begun.review
      <3>1. begun.press < MaxPresses /\ begun' = [begun EXCEPT !.press = @ + 1]
        BY <1>5 DEF RequestProduct
      <3> QED
        BY <3>1, FeedbackAssumption DEF FormTypes
    <2>2. CASE RowsOf(k) = {}
      <3> DEFINE q == [NoForm EXCEPT !.pc = "press", !.kind = k]
      <3>1. q \in FormRows /\ q.pc = "press" /\ q.kind = k
        BY NoFormType DEF FormRows
      <3>2. StartForm(x, q)
        BY <1>5, <2>2 DEF RequestProduct
      <3> HIDE DEF q
      <3> QED
        BY <2>1, <2>2, <3>1, <3>2, FormStarts
    <2>3. CASE RowsOf(k) # {}
      <3>1. PICK n \in RowsOf(k) :
              StartForm(x, [NoForm EXCEPT !.pc = "bump", !.kind = k, !.row = n])
        BY <1>5, <2>3 DEF RequestProduct
      <3> DEFINE q == [NoForm EXCEPT !.pc = "bump", !.kind = k, !.row = n]
      <3>2. q \in FormRows /\ q.pc = "bump" /\ q.kind = k /\ q.row = n
        BY NoFormType DEF FormRows, RowsOf
      <3>3. StartForm(x, q)
        BY <3>1
      <3> HIDE DEF q
      <3> QED
        BY <2>1, <3>1, <3>2, <3>3, FormStarts
    <2> QED
      BY <2>2, <2>3
  <1>6. ASSUME NEW x \in Forms, NEW n \in Wishes, MarkFulfilled(x, n) PROVE FeedbackInv'
    <2> DEFINE k == wish[n].kind
               q == [NoForm EXCEPT !.pc = "fulfil", !.kind = k, !.row = n]
    <2>1. k \in Kinds /\ n \in RowsOf(k)
      <3>1. k # "none"
        BY <1>6 DEF MarkFulfilled, WishesHold
      <3>2. k \in Kinds
        BY <3>1 DEF FormTypes, WishRows
      <3> QED
        BY <3>2 DEF RowsOf
    <2>2. StartForm(x, q) /\ begun' = begun
      BY <1>6 DEF MarkFulfilled
    <2> HIDE DEF k
    <2>3. q \in FormRows /\ q.pc = "fulfil" /\ q.kind = k /\ q.row = n
      BY <2>1, NoFormType DEF FormRows
    <2>4. /\ begun' \in [review : 0..MaxReviews, press : 0..MaxPresses]
          /\ begun'.review = begun.review
      BY <2>2 DEF FormTypes
    <2> HIDE DEF q
    <2> QED
      BY <2>1, <2>2, <2>3, <2>4, FormStarts
  \* The row of a handler gets another status.
  <1>7. ASSUME NEW x \in Forms, NEW s \in {"NEW", "FULFILLED"}, NEW a \in {"press", "fulfil"},
               form[x].pc \in {"bump", "fulfil"},
               s = "FULFILLED" <=> a = "fulfil",
               wish' = [wish EXCEPT ![form[x].row].status = s],
               latest' = [latest EXCEPT ![form[x].kind] = a],
               EndForm(x), UNCHANGED <<reviews, rating, begun, crowded>>
        PROVE  FeedbackInv'
    <2> DEFINE r == form[x].row
               k == form[x].kind
    <2>1. r \in Wishes /\ wish[r].kind = k /\ k \in Kinds
      BY <1>7 DEF WishesHold, FormTypes, FormRows
    <2>2. wish' = [wish EXCEPT ![r].status = s] /\ latest' = [latest EXCEPT ![k] = a]
      BY <1>7
    <2>3. \A y \in Forms \ {x} : ~crowded => form[y].pc = "idle"
      BY <1>7 DEF FormsApart
    <2> HIDE DEF r, k
    <2>4. \A n \in Wishes : /\ wish'[n] \in WishRows /\ wish'[n].kind = wish[n].kind
                            /\ n # r => wish'[n] = wish[n]
                            /\ n = r => wish'[n].status = s
      BY <2>1, <2>2 DEF FormTypes, WishRows
    <2>5. wish' \in [Wishes -> WishRows]
      BY <2>2, <2>4 DEF FormTypes
    <2>6. latest' \in [Kinds -> {"none", "press", "fulfil"}]
      BY <2>2 DEF FormTypes
    <2>7. \A l \in Kinds : latest'[l] = IF l = k THEN a ELSE latest[l]
      BY <2>2 DEF FormTypes
    <2>8. \A l : RowsOf(l)' = RowsOf(l)
      BY <2>4 DEF RowsOf
    <2>9. \A n \in Wishes : wish'[n].kind = "none" => wish'[n] = NoWish
      BY <2>1, <2>4 DEF WishesHold, Kinds
    <2>10. ~crowded => \A l \in Kinds : \A n \in RowsOf(l) : Fulfilled(n)' <=> latest'[l] = "fulfil"
      <3> SUFFICES ASSUME ~crowded, NEW l \in Kinds, NEW n \in RowsOf(l)
                   PROVE  Fulfilled(n)' <=> latest'[l] = "fulfil"
        OBVIOUS
      <3>1. CASE n = r
        <4>1. l = k
          BY <2>1, <3>1 DEF RowsOf
        <4> QED
          BY <1>7, <2>4, <2>7, <3>1, <4>1 DEF Fulfilled, RowsOf
      <3>2. CASE n # r
        <4>1. l # k
          BY <2>1, <3>2 DEF FormsApart, RowsOf
        <4> QED
          BY <2>4, <2>7, <3>2, <4>1 DEF FormsApart, Fulfilled, RowsOf
      <3> QED
        BY <3>1, <3>2
    <2>11. \A m, n \in RowsOf("store")' : m = n
      BY <2>8 DEF WishesHold
    <2>12. ~crowded => \A l \in Kinds :
             /\ \A m, n \in RowsOf(l)' : m = n
             /\ \A n \in RowsOf(l)' : Fulfilled(n)' <=> latest'[l] = "fulfil"
      BY <2>8, <2>10 DEF FormsApart
    <2> QED
      BY <1>7, <2>3, <2>4, <2>5, <2>6, <2>9, <2>11, <2>12, FormQuits
  <1>8. ASSUME NEW x \in Forms, Bump(x) PROVE FeedbackInv'
    BY <1>7, <1>8 DEF Bump
  <1>9. ASSUME NEW x \in Forms, Fulfil(x) PROVE FeedbackInv'
    BY <1>7, <1>9 DEF Fulfil
  <1>10. ASSUME NEW x \in Forms, EndForm(x),
                UNCHANGED <<reviews, rating, wish, begun, latest, crowded>>,
                form[x].pc # "idle"
         PROVE  FeedbackInv'
    <2>1. \A k : RowsOf(k)' = RowsOf(k)
      BY <1>10 DEF RowsOf
    <2>2. \A n \in Wishes : Fulfilled(n)' = Fulfilled(n)
      BY <1>10 DEF Fulfilled
    <2>3. ~crowded => /\ \A y \in Forms \ {x} : form[y].pc = "idle"
                      /\ \A k \in Kinds :
                           /\ \A m, n \in RowsOf(k)' : m = n
                           /\ \A n \in RowsOf(k)' : Fulfilled(n)' <=> latest'[k] = "fulfil"
      BY <1>10, <2>1, <2>2 DEF FormsApart, RowsOf
    <2> QED
      BY <1>10, <2>1, <2>3, FormQuits DEF FormTypes, WishesHold
  <1>11. ASSUME NEW x \in Forms, CreateWish(x) PROVE FeedbackInv'
    <2> DEFINE k == form[x].kind
    <2>1. /\ form[x].pc = "press" /\ k \in Kinds /\ EndForm(x)
          /\ UNCHANGED <<reviews, rating, begun, crowded>>
      BY <1>11 DEF CreateWish, FormTypes, FormRows
    <2>2. CASE k = "store" /\ RowsOf("store") # {}
      <3>1. UNCHANGED <<wish, latest>>
        BY <1>11, <2>2 DEF CreateWish
      <3> QED
        BY <1>10, <2>1, <3>1
    <2>3. CASE ~(k = "store" /\ RowsOf("store") # {})
      <3>1. PICK n \in Wishes : wish[n] = NoWish /\ wish' = [wish EXCEPT ![n].kind = k]
        BY <1>11, <2>3 DEF CreateWish
      <3>2. latest' = [latest EXCEPT ![k] = "press"]
        BY <1>11, <2>3 DEF CreateWish
      <3>3. ~crowded => RowsOf(k) = {} /\ \A y \in Forms \ {x} : form[y].pc = "idle"
        BY <2>1 DEF FormsApart
      <3> HIDE DEF k
      <3>4. \A m \in Wishes : /\ wish'[m] \in WishRows
                              /\ m # n => wish'[m] = wish[m]
                              /\ m = n => wish'[m].kind = k /\ wish'[m].status = "NEW"
        BY <2>1, <3>1 DEF FormTypes, WishRows, NoWish
      <3>5. wish' \in [Wishes -> WishRows]
        BY <3>1, <3>4 DEF FormTypes
      <3>6. /\ latest' \in [Kinds -> {"none", "press", "fulfil"}]
            /\ \A l \in Kinds : latest'[l] = IF l = k THEN "press" ELSE latest[l]
        BY <3>2 DEF FormTypes
      <3>7. wish[n].kind = "none"
        BY <3>1 DEF NoWish
      <3>8. \A l \in Kinds : RowsOf(l)' = IF l = k THEN RowsOf(l) \cup {n} ELSE RowsOf(l)
        BY <2>1, <3>4, <3>7 DEF RowsOf, Kinds
      <3>9. \A m \in Wishes : wish'[m].kind = "none" => wish'[m] = NoWish
        BY <2>1, <3>4 DEF WishesHold, Kinds
      <3>10. \A l, m \in RowsOf("store")' : l = m
        BY <2>3, <3>8 DEF WishesHold, Kinds
      <3>11. ~crowded => \A l \in Kinds :
               /\ \A m, o \in RowsOf(l)' : m = o
               /\ \A m \in RowsOf(l)' : Fulfilled(m)' <=> latest'[l] = "fulfil"
        <4> SUFFICES ASSUME ~crowded, NEW l \in Kinds
                     PROVE  /\ \A m, o \in RowsOf(l)' : m = o
                            /\ \A m \in RowsOf(l)' : Fulfilled(m)' <=> latest'[l] = "fulfil"
          OBVIOUS
        <4>1. CASE l = k
          <5>1. RowsOf(l)' = {n}
            BY <3>3, <3>8, <4>1
          <5>2. wish'[n].status = "NEW" /\ latest'[l] = "press"
            BY <3>4, <3>6, <4>1
          <5> QED
            BY <5>1, <5>2 DEF Fulfilled
        <4>2. CASE l # k
          <5>1. RowsOf(l)' = RowsOf(l) /\ latest'[l] = latest[l]
            BY <3>6, <3>8, <4>2
          <5>2. \A m \in RowsOf(l) : wish'[m] = wish[m]
            BY <3>4, <3>7 DEF RowsOf, Kinds
          <5> QED
            BY <5>1, <5>2 DEF FormsApart, Fulfilled
        <4> QED
          BY <4>1, <4>2
      <3>12. \A m \in Wishes : wish[m].kind # "none" => wish'[m].kind = wish[m].kind
        BY <3>4, <3>7
      <3> QED
        BY <2>1, <3>3, <3>5, <3>6, <3>9, <3>10, <3>11, <3>12, FormQuits
    <2> QED
      BY <2>2, <2>3
  <1>12. ASSUME NEW x \in Forms, FormDies(x) PROVE FeedbackInv'
    BY <1>10, <1>12 DEF FormDies
  <1>13. CASE UNCHANGED feedbackVars
    <2>1. Writers' = Writers /\ (\A k : RowsOf(k)' = RowsOf(k))
      BY <1>13 DEF feedbackVars, Writers, RowsOf
    <2> QED
      BY <1>13, <2>1 DEF feedbackVars, FormTypes, RatingHolds, WishesHold, FormsApart, Fulfilled, RowsOf
  <1> QED
    BY <1>1, <1>2, <1>3, <1>4, <1>5, <1>6, <1>8, <1>9, <1>11, <1>12, <1>13 DEF FeedbackNext

LEMMA FeedbackFollows == FeedbackInv => FeedbackTypeOK /\ RatingIsExact /\ RequestsStand
  <1> SUFFICES ASSUME FeedbackInv PROVE FeedbackTypeOK /\ RatingIsExact /\ RequestsStand
    OBVIOUS
  <1>1. FeedbackTypeOK
    <2>1. Cardinality(RowsOf("store")) <= 1
      BY AtMostOne DEF FeedbackInv, WishesHold
    <2> QED
      BY <2>1 DEF FeedbackInv, FormTypes, FeedbackTypeOK
  <1>2. RequestsStand
    <2> SUFFICES ASSUME ~crowded, NEW k \in Kinds
                 PROVE  /\ Cardinality(RowsOf(k)) <= 1
                        /\ \A n \in RowsOf(k) : Fulfilled(n) <=> latest[k] = "fulfil"
      BY DEF RequestsStand
    <2>1. \A m, n \in RowsOf(k) : m = n
      BY DEF FeedbackInv, FormsApart
    <2> QED
      BY <2>1, AtMostOne DEF FeedbackInv, FormsApart
  <1> QED
    BY <1>1, <1>2 DEF FeedbackInv, RatingHolds, RatingIsExact

\* Rows of a kind, and handlers that are about to add one.
Askers(k) == {x \in Forms : form[x].pc = "press" /\ form[x].kind = k}
WishesBounded ==
  \A k \in Kinds : Cardinality(RowsOf(k)) + Cardinality(Askers(k)) <= Cardinality(Forms)

LEMMA WishCount ==
  ASSUME NEW k \in Kinds
  PROVE  /\ IsFiniteSet(RowsOf(k)) /\ Cardinality(RowsOf(k)) \in Nat
         /\ IsFiniteSet(Askers(k)) /\ Cardinality(Askers(k)) \in Nat
         /\ Cardinality(Askers(k)) <= Cardinality(Forms) /\ Cardinality(Forms) \in Nat
  <1>1. RowsOf(k) \subseteq Wishes /\ IsFiniteSet(Wishes)
    BY FeedbackAssumption, FS_Interval DEF RowsOf, Wishes
  <1>2. Askers(k) \subseteq Forms
    BY DEF Askers
  <1> QED
    BY <1>1, <1>2, FeedbackAssumption, FS_Subset, FS_CardinalityType

LEMMA WishesInit == FeedbackInit => WishesBounded
  <1> SUFFICES ASSUME FeedbackInit, NEW k \in Kinds
               PROVE  Cardinality(RowsOf(k)) + Cardinality(Askers(k)) <= Cardinality(Forms)
    BY DEF WishesBounded
  <1>1. RowsOf(k) = {} /\ Askers(k) = {}
    BY DEF FeedbackInit, RowsOf, Askers, NoWish, NoForm, Kinds
  <1>2. Cardinality({}) = 0
    BY FS_EmptySet
  <1> QED
    BY <1>1, <1>2, WishCount

\* A step adds no row of a kind and nobody who will, or it is a press that finds
\* no row, or a handler becomes the row it was about to add.
LEMMA WishSteps ==
  ASSUME FeedbackInv, [FeedbackNext]_feedbackVars, NEW k \in Kinds
  PROVE  \/ RowsOf(k)' = RowsOf(k) /\ Askers(k)' \subseteq Askers(k)
         \/ RowsOf(k)' = RowsOf(k) /\ RowsOf(k) = {}
         \/ \E x \in Askers(k), n \in Wishes :
              RowsOf(k)' = RowsOf(k) \cup {n} /\ Askers(k)' = Askers(k) \ {x}
  <1> DEFINE Quiet == RowsOf(k)' = RowsOf(k) /\ Askers(k)' \subseteq Askers(k)
  <1> USE DEF FeedbackInv
  <1>0. form \in [Forms -> FormRows] /\ wish \in [Wishes -> WishRows]
    BY DEF FormTypes
  <1>1. ASSUME NEW x \in Forms, WriteReview(x) \/ InsertReview(x) \/ Aggregate(x)
        PROVE  Quiet
    <2>1. wish' = wish
      BY <1>1 DEF WriteReview, InsertReview, Aggregate, StartForm
    <2>2. form'[x].pc # "press" /\ \A y \in Forms \ {x} : form'[y] = form[y]
      BY <1>0, <1>1 DEF WriteReview, InsertReview, Aggregate, StartForm, NoForm, FormRows
    <2> QED
      BY <2>1, <2>2 DEF RowsOf, Askers
  <1>2. ASSUME NEW x \in Forms, UpdateRating(x) \/ FormDies(x) PROVE Quiet
    BY <1>0, <1>2 DEF UpdateRating, FormDies, EndForm, NoForm, RowsOf, Askers
  <1>3. ASSUME NEW x \in Forms, NEW l \in Kinds, RequestProduct(x, l)
        PROVE  Quiet \/ (RowsOf(k)' = RowsOf(k) /\ RowsOf(k) = {})
    <2>1. RowsOf(k)' = RowsOf(k)
      BY <1>3 DEF RequestProduct, StartForm, RowsOf
    <2>2. CASE RowsOf(l) # {} \/ l # k
      BY <1>0, <1>3, <2>1, <2>2 DEF RequestProduct, StartForm, NoForm, Askers
    <2> QED
      BY <2>1, <2>2
  <1>4. ASSUME NEW x \in Forms, NEW n \in Wishes, MarkFulfilled(x, n) PROVE Quiet
    BY <1>0, <1>4 DEF MarkFulfilled, StartForm, NoForm, RowsOf, Askers
  <1>5. ASSUME NEW x \in Forms, Bump(x) \/ Fulfil(x) PROVE Quiet
    <2>1. \A n \in Wishes : wish'[n].kind = wish[n].kind
      BY <1>0, <1>5 DEF Bump, Fulfil, WishRows
    <2> QED
      BY <1>0, <1>5, <2>1 DEF Bump, Fulfil, EndForm, NoForm, RowsOf, Askers
  <1>6. ASSUME NEW x \in Forms, CreateWish(x)
        PROVE  \/ Quiet
               \/ \E y \in Askers(k), n \in Wishes :
                    RowsOf(k)' = RowsOf(k) \cup {n} /\ Askers(k)' = Askers(k) \ {y}
    <2> DEFINE l == form[x].kind
    <2>1. l \in Kinds /\ form[x].pc = "press" /\ form' = [form EXCEPT ![x] = NoForm]
      BY <1>0, <1>6 DEF CreateWish, EndForm, FormRows
    <2>2. Askers(k)' = Askers(k) \ {x}
      BY <1>0, <2>1 DEF Askers, NoForm
    <2>3. CASE wish' = wish
      BY <2>2, <2>3 DEF RowsOf
    <2>4. CASE wish' # wish
      <3>1. PICK n \in Wishes : wish[n] = NoWish /\ wish' = [wish EXCEPT ![n].kind = l]
        BY <1>6, <2>4 DEF CreateWish
      <3> HIDE DEF l
      <3>2. RowsOf(k)' = IF k = l THEN RowsOf(k) \cup {n} ELSE RowsOf(k)
        BY <1>0, <2>1, <3>1 DEF RowsOf, NoWish, WishRows, Kinds
      <3>3. k = l => x \in Askers(k)
        BY <2>1 DEF Askers, l
      <3> QED
        BY <2>2, <3>2, <3>3
    <2> QED
      BY <2>3, <2>4
  <1>7. CASE UNCHANGED feedbackVars
    BY <1>7 DEF feedbackVars, RowsOf, Askers
  <1> QED
    BY <1>1, <1>2, <1>3, <1>4, <1>5, <1>6, <1>7 DEF FeedbackNext

LEMMA WishesStep ==
  ASSUME FeedbackInv, WishesBounded, [FeedbackNext]_feedbackVars
  PROVE  WishesBounded'
  <1> SUFFICES ASSUME NEW k \in Kinds
               PROVE  Cardinality(RowsOf(k)') + Cardinality(Askers(k)') <= Cardinality(Forms)
    BY DEF WishesBounded
  <1>1. Cardinality(RowsOf(k)) + Cardinality(Askers(k)) <= Cardinality(Forms)
    BY DEF WishesBounded
  <1>0. /\ IsFiniteSet(RowsOf(k)) /\ Cardinality(RowsOf(k)) \in Nat
        /\ IsFiniteSet(Askers(k)) /\ Cardinality(Askers(k)) \in Nat
        /\ Cardinality(Askers(k)) <= Cardinality(Forms) /\ Cardinality(Forms) \in Nat
    BY WishCount
  <1>2. CASE RowsOf(k)' = RowsOf(k) /\ Askers(k)' \subseteq Askers(k)
    <2>1. Cardinality(Askers(k)') <= Cardinality(Askers(k)) /\ Cardinality(Askers(k)') \in Nat
      BY <1>2, <1>0, FS_Subset, FS_CardinalityType
    <2> QED
      BY <1>1, <1>2, <2>1, <1>0
  <1>3. CASE RowsOf(k)' = RowsOf(k) /\ RowsOf(k) = {}
    <2>1. Askers(k)' \subseteq Forms
      BY DEF Askers
    <2>2. Cardinality(Askers(k)') <= Cardinality(Forms) /\ Cardinality(Askers(k)') \in Nat
      BY <2>1, FeedbackAssumption, FS_Subset, FS_CardinalityType
    <2>3. Cardinality(RowsOf(k)') = 0
      BY <1>3, FS_EmptySet
    <2> QED
      BY <2>2, <2>3, <1>0
  <1>4. ASSUME NEW x \in Askers(k), NEW n \in Wishes,
               RowsOf(k)' = RowsOf(k) \cup {n}, Askers(k)' = Askers(k) \ {x}
        PROVE  Cardinality(RowsOf(k)') + Cardinality(Askers(k)') <= Cardinality(Forms)
    <2>1. /\ Cardinality(RowsOf(k)') \in Nat
          /\ Cardinality(RowsOf(k)') <= Cardinality(RowsOf(k)) + 1
      <3>1. /\ IsFiniteSet(RowsOf(k) \cup {n})
            /\ \/ Cardinality(RowsOf(k) \cup {n}) = Cardinality(RowsOf(k))
               \/ Cardinality(RowsOf(k) \cup {n}) = Cardinality(RowsOf(k)) + 1
        BY <1>0, FS_AddElement
      <3>2. Cardinality(RowsOf(k) \cup {n}) \in Nat
        BY <3>1, FS_CardinalityType
      <3> QED
        BY <1>0, <1>4, <3>1, <3>2
    <2>2. Cardinality(Askers(k)') = Cardinality(Askers(k)) - 1
      BY <1>4, <1>0, FS_RemoveElement
    <2>3. Cardinality(Askers(k)') \in Nat
      BY <1>0, <1>4, FS_RemoveElement, FS_CardinalityType
    <2> HIDE DEF RowsOf, Askers
    <2> QED
      BY <1>1, <2>1, <2>2, <2>3, <1>0
  <1> QED
    BY <1>2, <1>3, <1>4, WishSteps

LEMMA WishesFollow == WishesBounded => RequestsBounded
  <1> SUFFICES ASSUME WishesBounded, NEW k \in Kinds
               PROVE  Cardinality(RowsOf(k)) <= Cardinality(Forms)
    BY DEF RequestsBounded
  <1> QED
    BY WishCount DEF WishesBounded

\* However reviews and presses overlap and die: the stored rating is that of the
\* reviews there are, a store is asked for once, and rows that ask for any store
\* are no more than handlers that overlap.  Where none overlap there is one row,
\* and it is open until the seller closes it (Feedback.FeedbackTypeOK,
\* Feedback.RatingIsExact, Feedback.RequestsBounded, Feedback.RequestsStand).
THEOREM FeedbackIsKept ==
  FeedbackSpec => [](FeedbackTypeOK /\ RatingIsExact /\ RequestsBounded /\ RequestsStand)
  BY FeedbackFollows, FeedbackInitInv, FeedbackStep, WishesInit, WishesStep, WishesFollow, PTL
     DEF FeedbackSpec

-----------------------------------------------------------------------------
(* The checkout page.                                                      *)

\* What is ordered and what is in the cart was added, and so is what a checkout
\* has read; a quote request that counts is for the chosen address and keeps the
\* page loading.
PageInv ==
  /\ PageTypeOK
  /\ ordered + cart <= added
  /\ submit.pc = "read" => ordered + submit.pieces <= added
  /\ \A q \in asks : q.live => q.address = selected /\ loading
  /\ QuoteIsForSelected

LEMMA PageInitInv == PageInit => PageInv
  <1> SUFFICES ASSUME PageInit PROVE PageInv
    OBVIOUS
  <1>1. PageTypeOK
    <2>1. answer \in [CartCalls -> -2..MaxPieces]
      BY PageAssumption DEF PageInit, NoAnswer
    <2>2. submit \in [pc : {"idle", "asked", "read", "done"}, pieces : 0..MaxPieces]
      BY PageAssumption DEF PageInit
    <2>3. cart \in 0..MaxPieces /\ added \in 0..MaxPieces /\ ordered \in Nat /\ shown \in -1..MaxPieces
      BY PageAssumption DEF PageInit
    <2>4. asks = {} /\ loading \in BOOLEAN /\ selected = NoAddress /\ quote = NoAddress
      BY DEF PageInit
    <2> QED
      BY <2>1, <2>2, <2>3, <2>4 DEF PageTypeOK
  <1> QED
    BY <1>1 DEF PageInit, PageInv, QuoteIsForSelected

\* The quote's effect leaves one request that counts, for the address given.
LEMMA Requoted ==
  ASSUME PageInv, NEW a \in Addresses \cup {NoAddress}, NEW n \in Int, Requote(a, n),
         selected' = a
  PROVE  /\ quote' \in Addresses \cup {NoAddress} /\ loading' \in BOOLEAN
         /\ asks' \subseteq Requests
         /\ \A q, r \in asks' : q.live /\ r.live => q = r
         /\ \A q \in asks' : q.live => q.address = selected' /\ loading'
         /\ QuoteIsForSelected'
  <1> DEFINE cancelled == {[q EXCEPT !.live = FALSE] : q \in asks}
  <1>1. cancelled \subseteq Requests /\ \A q \in cancelled : q.live = FALSE
    BY DEF PageInv, PageTypeOK, Requests
  <1>2. CASE a = NoAddress \/ n <= 0
    <2>1. asks' = cancelled /\ quote' = NoAddress /\ loading' = loading
      BY <1>2 DEF Requote
    <2> HIDE DEF cancelled
    <2> QED
      BY <1>1, <2>1 DEF PageInv, PageTypeOK, QuoteIsForSelected
  <1>3. CASE ~(a = NoAddress \/ n <= 0)
    <2> DEFINE q0 == [address |-> a, live |-> TRUE]
    <2>1. asks' = cancelled \cup {q0} /\ quote' = quote /\ loading' = TRUE
      BY <1>3 DEF Requote
    <2>2. q0 \in Requests /\ q0.address = a
      BY <1>3 DEF Requests
    <2> HIDE DEF cancelled, q0
    <2> QED
      BY <1>1, <2>1, <2>2 DEF PageInv, PageTypeOK, QuoteIsForSelected
  <1> QED
    BY <1>2, <1>3

LEMMA PageStep ==
  ASSUME PageInv, [PageNext]_pageVars
  PROVE  PageInv'
  <1> USE PageAssumption DEF PageInv, PageTypeOK
  <1>0. \A k \in CartCalls : \A n \in 0..MaxPieces :
          Replied(k, n) => answer' \in [CartCalls -> -2..MaxPieces]
    BY DEF Replied, Lost
  <1>1. ASSUME NEW k \in CartCalls, FetchCart(k) PROVE PageInv'
    BY <1>0, <1>1 DEF FetchCart, quoteVars, QuoteIsForSelected
  <1>2. ASSUME NEW k \in CartCalls, AddPiece(k) PROVE PageInv'
    <2>1. cart + 1 \in 0..MaxPieces /\ added + 1 \in 0..MaxPieces
      BY <1>2 DEF AddPiece
    <2> QED
      BY <1>0, <1>2, <2>1 DEF AddPiece, quoteVars, QuoteIsForSelected
  <1>3. ASSUME NEW k \in CartCalls, RemovePiece(k) PROVE PageInv'
    <2>1. cart - 1 \in 0..MaxPieces
      BY <1>3 DEF RemovePiece
    <2> QED
      BY <1>0, <1>3, <2>1 DEF RemovePiece, quoteVars, QuoteIsForSelected
  <1>4. ASSUME NEW k \in CartCalls, CartAnswered(k) PROVE PageInv'
    <2>1. shown' \in -1..MaxPieces
      BY <1>4 DEF CartAnswered, Free, NoAnswer, Lost
    <2>2. answer' \in [CartCalls -> -2..MaxPieces]
      BY <1>4 DEF CartAnswered, NoAnswer
    <2>3. selected' = selected /\ UNCHANGED <<cart, added, ordered, submit>>
      BY <1>4 DEF CartAnswered
    <2>4. CASE UNCHANGED <<quote, loading, asks>>
      BY <2>1, <2>2, <2>3, <2>4 DEF QuoteIsForSelected
    <2>5. CASE Requote(selected, shown')
      <3>1. /\ quote' \in Addresses \cup {NoAddress} /\ loading' \in BOOLEAN
            /\ asks' \subseteq Requests
            /\ \A q, r \in asks' : q.live /\ r.live => q = r
            /\ \A q \in asks' : q.live => q.address = selected' /\ loading'
            /\ QuoteIsForSelected'
        BY <2>1, <2>3, <2>5, Requoted
      <3> QED
        BY <2>1, <2>2, <2>3, <3>1
    <2> QED
      BY <1>4, <2>4, <2>5 DEF CartAnswered
  <1>5. ASSUME NEW a \in Addresses, SelectAddress(a) PROVE PageInv'
    <2>1. selected' = a /\ UNCHANGED <<cart, added, ordered, shown, answer, submit>>
      BY <1>5 DEF SelectAddress
    <2>2. /\ quote' \in Addresses \cup {NoAddress} /\ loading' \in BOOLEAN
          /\ asks' \subseteq Requests
          /\ \A q, r \in asks' : q.live /\ r.live => q = r
          /\ \A q \in asks' : q.live => q.address = selected' /\ loading'
          /\ QuoteIsForSelected'
      BY <1>5, <2>1, Requoted DEF SelectAddress
    <2> QED
      BY <2>1, <2>2
  <1>6. ASSUME NEW q \in asks, QuoteAnswered(q) PROVE PageInv'
    <2>1. /\ asks' = asks \ {q} /\ q \in Requests
          /\ UNCHANGED <<cart, added, ordered, shown, answer, selected, submit>>
      BY <1>6 DEF QuoteAnswered
    <2>2. CASE q.live
      <3>1. quote' \in {q.address, NoAddress} /\ loading' = FALSE
        BY <1>6, <2>2 DEF QuoteAnswered
      <3>2. q.address \in Addresses /\ q.address = selected /\ \A r \in asks' : ~r.live
        BY <2>1, <2>2 DEF Requests
      <3>3. QuoteIsForSelected'
        BY <2>1, <3>1, <3>2 DEF QuoteIsForSelected
      <3> QED
        BY <2>1, <3>1, <3>2, <3>3
    <2>3. CASE ~q.live
      BY <1>6, <2>1, <2>3 DEF QuoteAnswered, QuoteIsForSelected
    <2> QED
      BY <2>2, <2>3
  <1>7. CASE OnSubmit
    BY <1>7 DEF OnSubmit, quoteVars, QuoteIsForSelected
  <1>8. CASE CheckoutReads
    BY <1>8 DEF CheckoutReads, quoteVars, QuoteIsForSelected
  <1>9. CASE CheckoutCommits
    BY <1>9 DEF CheckoutCommits, quoteVars, QuoteIsForSelected
  <1>10. CASE Submitted
    BY <1>10 DEF Submitted, quoteVars, QuoteIsForSelected
  <1>11. CASE UNCHANGED pageVars
    BY <1>11 DEF pageVars, quoteVars, QuoteIsForSelected
  <1> QED
    BY <1>1, <1>2, <1>3, <1>4, <1>5, <1>6, <1>7, <1>8, <1>9, <1>10, <1>11 DEF PageNext

LEMMA PageFollows == PageInv => PageTypeOK /\ PageIsTrue
  BY DEF PageInv, PageIsTrue, OrderedOnce

\* A finished quote is for the chosen address, and no piece is ordered twice
\* (CheckoutPage.PageTypeOK, CheckoutPage.PageIsTrue).
THEOREM PageStaysTrue == PageSpec => [](PageTypeOK /\ PageIsTrue)
  BY PageFollows, PageInitInv, PageStep, PTL DEF PageSpec

-----------------------------------------------------------------------------
(* Browsing.                                                               *)

LookingAt == {k \in Looks : look[k] # Unread}

\* As long as reads of a page do not cross, there is one, for the location the
\* page was last read for, and without one the data is what was read for it.
LooksApart ==
  /\ read = Unread => seen = Unread /\ LookingAt = {}
  /\ ~crossing =>
       /\ \A j, k \in LookingAt : j = k
       /\ \A k \in LookingAt : look[k] = read /\ reading
       /\ LookingAt = {} /\ read # Unread /\ ~failed => seen = read

\* The list that is asked for is the one there is, unless it is known to be behind.
ListHolds == lookup.out /\ ~behind => lookup.list = saved

BrowseInv == BrowseTypeOK /\ ListHolds /\ LocationIsSaved /\ LooksApart

LEMMA BrowsePageFields ==
  \A p \in BrowsePages : /\ p.hides \in BOOLEAN /\ p.says \in BOOLEAN /\ p.offers \in BOOLEAN
                         /\ p.hides => p.says
  <1>1. /\ HomePage.hides = FALSE /\ HomePage.says = FALSE /\ HomePage.offers = FALSE
        /\ CategoryPage.hides = FALSE /\ CategoryPage.says = TRUE /\ CategoryPage.offers = FALSE
        /\ StorePage.hides = FALSE /\ StorePage.says = TRUE /\ StorePage.offers = FALSE
        /\ ProductPage.hides = TRUE /\ ProductPage.says = TRUE /\ ProductPage.offers = TRUE
    BY DEF HomePage, CategoryPage, StorePage, ProductPage
  <1> QED
    BY <1>1, Zenon DEF BrowsePages

LEMMA BrowseInitInv == BrowseInit => BrowseInv
  <1> SUFFICES ASSUME BrowseInit PROVE BrowseInv
    OBVIOUS
  <1>1. lookup = NoLookup /\ NoLookup.out = FALSE /\ due = TRUE /\ read = Unread /\ seen = Unread
    BY DEF BrowseInit, NoLookup
  <1>2. NoLookup \in [out : BOOLEAN, list : SUBSET Places, usual : Places \cup {Nowhere}]
    BY DEF NoLookup
  <1>3. LookingAt = {}
    BY DEF BrowseInit, LookingAt
  <1>4. usual \in saved \cup {Nowhere}
    BY DEF BrowseInit
  <1>5. look \in [Looks -> Places \cup {Nowhere, Unread}]
    BY DEF BrowseInit
  <1>6. BrowseTypeOK
    BY <1>1, <1>2, <1>4, <1>5 DEF BrowseInit, BrowseTypeOK, BrowsePages
  <1> QED
    BY <1>1, <1>3, <1>6 DEF BrowseInv, ListHolds, LocationIsSaved, LooksApart

\* A step that leaves the page as it is.
LEMMA PageKept ==
  ASSUME BrowseInv, UNCHANGED pageKept
  PROVE  LooksApart'
  BY DEF pageKept, BrowseInv, LooksApart, LookingAt

\* A step that leaves the location as it is.
LEMMA PlaceKept ==
  ASSUME BrowseInv, UNCHANGED placeKept
  PROVE  ListHolds' /\ LocationIsSaved'
  BY DEF placeKept, BrowseInv, ListHolds, LocationIsSaved

LEMMA BrowseStep ==
  ASSUME BrowseInv, [BrowseNext]_browseVars
  PROVE  BrowseInv'
  <1> USE DEF BrowseInv
  <1>0. NoLookup \in [out : BOOLEAN, list : SUBSET Places, usual : Places \cup {Nowhere}]
        /\ NoLookup.out = FALSE
    BY DEF NoLookup
  <1>1. CASE EnsureLocation
    <2>1. /\ due' = FALSE /\ behind' = FALSE /\ UNCHANGED <<saved, usual, location, pageKept>>
          /\ lookup' = [out |-> TRUE, list |-> saved, usual |-> usual]
      BY <1>1 DEF EnsureLocation
    <2>2. /\ lookup' \in [out : BOOLEAN, list : SUBSET Places, usual : Places \cup {Nowhere}]
          /\ lookup'.out /\ lookup'.list = saved
      BY <2>1 DEF BrowseTypeOK
    <2>3. BrowseTypeOK'
      BY <2>1, <2>2 DEF BrowseTypeOK, pageKept
    <2>4. ListHolds' /\ LocationIsSaved'
      BY <2>1, <2>2 DEF ListHolds, LocationIsSaved
    <2> QED
      BY <2>1, <2>3, <2>4, PageKept
  <1>2. CASE ListAnswered
    <2>1. /\ lookup.out /\ lookup' = NoLookup /\ due' = (due \/ location' # location)
          /\ UNCHANGED <<saved, usual, behind, pageKept>>
      BY <1>2 DEF ListAnswered
    <2>2. location' \in IF lookup.list = {} THEN {location} ELSE lookup.list
      BY <1>2 DEF ListAnswered, Targets
    <2>3. lookup.list \subseteq Places
      BY DEF BrowseTypeOK
    <2>4. BrowseTypeOK'
      <3>1. location' \in Places \cup {Nowhere} /\ due' \in BOOLEAN
        BY <2>1, <2>2, <2>3 DEF BrowseTypeOK
      <3> QED
        BY <1>0, <2>1, <3>1 DEF BrowseTypeOK, pageKept
    <2>5. ListHolds'
      BY <1>0, <2>1 DEF ListHolds
    <2>6. LocationIsSaved'
      BY <2>1, <2>2 DEF ListHolds, LocationIsSaved
    <2> QED
      BY <2>1, <2>4, <2>5, <2>6, PageKept
  <1>3. CASE ListLost
    <2>1. /\ lookup' = NoLookup /\ behind' = TRUE
          /\ UNCHANGED <<saved, usual, location, due, pageKept>>
      BY <1>3 DEF ListLost
    <2>2. BrowseTypeOK'
      BY <1>0, <2>1 DEF BrowseTypeOK, pageKept
    <2> QED
      BY <2>1, <2>2, PageKept DEF ListHolds, LocationIsSaved
  <1>4. ASSUME NEW p \in Places, NEW def \in BOOLEAN, SaveAddress(p, def) PROVE BrowseInv'
    <2>1. /\ saved' = saved \cup {p} /\ usual' \in {p, usual} /\ location' = p
          /\ due' = TRUE /\ lookup' = NoLookup /\ UNCHANGED <<behind, pageKept>>
      BY <1>4 DEF SaveAddress
    <2>2. BrowseTypeOK'
      BY <1>0, <2>1 DEF BrowseTypeOK, pageKept
    <2> QED
      BY <1>0, <2>1, <2>2, PageKept DEF ListHolds, LocationIsSaved
  <1>5. ASSUME NEW p \in Places, DeleteAddress(p) PROVE BrowseInv'
    <2>1. /\ saved' = saved \ {p} /\ behind' = TRUE
          /\ UNCHANGED <<location, due, lookup, pageKept>>
      BY <1>5 DEF DeleteAddress
    <2>2. usual' \in saved' \cup {Nowhere}
      BY <1>5 DEF DeleteAddress, BrowseTypeOK
    <2>3. BrowseTypeOK'
      BY <2>1, <2>2 DEF BrowseTypeOK, pageKept
    <2> QED
      BY <2>1, <2>3, PageKept DEF ListHolds, LocationIsSaved
  <1>6. ASSUME NEW p \in BrowsePages, OpenPage(p) PROVE BrowseInv'
    <2>1. /\ page' = p /\ due' = TRUE /\ lookup' = NoLookup /\ read' = Unread
          /\ look' = [k \in Looks |-> Unread] /\ seen' = Unread
          /\ reading' = TRUE /\ failed' = FALSE /\ picked' = FALSE /\ chosen' = NoMeal
          /\ crossing' = FALSE /\ UNCHANGED <<saved, usual, location, behind>>
      BY <1>6 DEF OpenPage
    <2>2. LookingAt' = {}
      BY <2>1 DEF LookingAt
    <2>3. look' \in [Looks -> Places \cup {Nowhere, Unread}]
      BY <2>1
    <2>4. BrowseTypeOK'
      BY <1>0, <2>1, <2>3 DEF BrowseTypeOK
    <2> QED
      BY <1>0, <2>1, <2>2, <2>4 DEF ListHolds, LocationIsSaved, LooksApart
  <1>7. ASSUME NEW k \in Looks, ReadPage(k) PROVE BrowseInv'
    <2>1. /\ look[k] = Unread /\ read' = location
          /\ look' = [look EXCEPT ![k] = location] /\ reading' = TRUE /\ failed' = FALSE
          /\ crossing' = (crossing \/ \E j \in Looks : look[j] # Unread)
          /\ UNCHANGED <<placeKept, page, seen, picked, chosen>>
      BY <1>7 DEF ReadPage
    <2>2. location \in Places \cup {Nowhere} /\ location # Unread
      BY BrowseAssumption DEF BrowseTypeOK
    <2>3. \A j \in Looks : look'[j] = IF j = k THEN location ELSE look[j]
      BY <2>1 DEF BrowseTypeOK
    <2>4. crossing' \in BOOLEAN /\ (~crossing' => ~crossing /\ LookingAt = {})
      BY <2>1 DEF BrowseTypeOK, LookingAt
    <2>5. LookingAt' = LookingAt \cup {k}
      BY <2>2, <2>3 DEF LookingAt
    <2>6. look' \in [Looks -> Places \cup {Nowhere, Unread}]
      BY <2>1, <2>2 DEF BrowseTypeOK
    <2>7. BrowseTypeOK'
      BY <2>1, <2>2, <2>4, <2>6 DEF BrowseTypeOK, placeKept
    <2>8. LooksApart'
      BY <2>1, <2>2, <2>3, <2>4, <2>5 DEF LooksApart
    <2> QED
      BY <2>1, <2>7, <2>8, PlaceKept
  <1>8. ASSUME NEW k \in Looks, look[k] # Unread, look' = [look EXCEPT ![k] = Unread],
               UNCHANGED <<placeKept, page, read, crossing>>,
               reading' = FALSE, failed' \in BOOLEAN, picked' \in BOOLEAN,
               chosen' \in Meals \cup {NoMeal},
               \/ seen' = look[k] /\ failed' = failed
               \/ seen' = seen /\ failed' = TRUE
        PROVE  BrowseInv'
    <2>1. \A j \in Looks : look'[j] = IF j = k THEN Unread ELSE look[j]
      BY <1>8 DEF BrowseTypeOK
    <2>2. LookingAt' = LookingAt \ {k} /\ k \in LookingAt
      BY <1>8, <2>1 DEF LookingAt
    <2>3. /\ look' \in [Looks -> Places \cup {Nowhere, Unread}]
          /\ seen' \in Places \cup {Nowhere, Unread}
      BY <1>8 DEF BrowseTypeOK
    <2>4. BrowseTypeOK'
      BY <1>8, <2>3 DEF BrowseTypeOK, placeKept
    <2>5. LooksApart'
      <3>1. read # Unread
        BY <2>2 DEF LooksApart
      <3>2. ~crossing => LookingAt' = {} /\ look[k] = read
        BY <2>2 DEF LooksApart
      <3> QED
        BY <1>8, <3>1, <3>2 DEF LooksApart
    <2> QED
      BY <1>8, <2>4, <2>5, PlaceKept
  <1>9. ASSUME NEW k \in Looks, PageAnswered(k) PROVE BrowseInv'
    <2>1. picked' \in BOOLEAN
      BY <1>9, BrowsePageFields DEF PageAnswered, BrowseTypeOK
    <2>2. chosen' \in Meals \cup {NoMeal}
      BY <1>9 DEF PageAnswered, BrowseTypeOK, Buyable
    <2>3. failed' = failed /\ failed \in BOOLEAN
      BY <1>9 DEF PageAnswered, BrowseTypeOK
    <2> QED
      BY <1>8, <1>9, <2>1, <2>2, <2>3 DEF PageAnswered
  <1>10. ASSUME NEW k \in Looks, PageLost(k) PROVE BrowseInv'
    <2>1. picked' \in BOOLEAN /\ chosen' \in Meals \cup {NoMeal}
      BY <1>10 DEF PageLost, BrowseTypeOK
    <2> QED
      BY <1>8, <1>10, <2>1 DEF PageLost
  <1>11. ASSUME NEW m \in Meals, ChooseMeal(m) PROVE BrowseInv'
    <2>1. /\ chosen' = m
          /\ UNCHANGED <<placeKept, page, read, look, seen, reading, failed, picked, crossing>>
      BY <1>11 DEF ChooseMeal
    <2>2. BrowseTypeOK'
      BY <2>1 DEF BrowseTypeOK, placeKept
    <2>3. LooksApart'
      BY <2>1 DEF LooksApart, LookingAt
    <2> QED
      BY <2>1, <2>2, <2>3, PlaceKept
  <1>12. CASE UNCHANGED browseVars
    <2>1. UNCHANGED pageKept /\ UNCHANGED placeKept
      BY <1>12 DEF browseVars, pageKept, placeKept
    <2>2. BrowseTypeOK'
      BY <1>12 DEF browseVars, BrowseTypeOK
    <2> QED
      BY <2>1, <2>2, PageKept, PlaceKept
  <1> QED
    BY <1>1, <1>2, <1>3, <1>4, <1>5, <1>6, <1>7, <1>9, <1>10, <1>11, <1>12 DEF BrowseNext

LEMMA BrowsingFollows ==
  BrowseInv => BrowseTypeOK /\ LocationIsSaved /\ PageIsForHere /\ NothingForElsewhere
  <1> SUFFICES ASSUME BrowseInv
               PROVE  BrowseTypeOK /\ LocationIsSaved /\ PageIsForHere /\ NothingForElsewhere
    OBVIOUS
  <1>1. read = location => read # Unread
    BY BrowseAssumption DEF BrowseInv, BrowseTypeOK
  <1>2. page.says \in BOOLEAN /\ (page.hides => page.says)
    BY BrowsePageFields DEF BrowseInv, BrowseTypeOK
  <1>3. PageIsForHere
    BY <1>1, <1>2 DEF BrowseInv, LooksApart, LookingAt, PageIsForHere, Displayed
  <1>4. NothingForElsewhere
    <2> SUFFICES ASSUME ~crossing, page.hides, Displayed, read = location PROVE seen = location
      BY DEF NothingForElsewhere
    <2>1. ~reading /\ ~failed
      BY <1>2 DEF Displayed
    <2>2. LookingAt = {}
      BY <2>1 DEF BrowseInv, LooksApart
    <2> QED
      BY <1>1, <2>1, <2>2 DEF BrowseInv, LooksApart
  <1> QED
    BY <1>3, <1>4 DEF BrowseInv

\* In whatever order answers come, the location is an address of the customer
\* once his list was read.  As long as the reads of a page do not cross, it shows
\* what is brought there, and offers nothing that was read for another place
\* (Browse.BrowseTypeOK, Browse.LocationIsSaved, Browse.PageIsForHere,
\* Browse.NothingForElsewhere).
THEOREM BrowsingStands ==
  BrowseSpec => [](BrowseTypeOK /\ LocationIsSaved /\ PageIsForHere /\ NothingForElsewhere)
  BY BrowsingFollows, BrowseInitInv, BrowseStep, PTL DEF BrowseSpec

-----------------------------------------------------------------------------
(* The category tree.                                                      *)

\* What a walk has passed: categories other than the moved one that hang from
\* each other and, at last, from the cursor.
Passed(q, V) ==
  /\ V \subseteq Existing \ {q.self}
  /\ q.target \in V \cup {q.cursor}
  /\ \A c \in V : parent[c] \in V \cup {q.cursor}

WalkHolds(q) ==
  q.pc \in {"walk", "move"} =>
    /\ q.self \in Existing /\ q.cursor \in Existing \cup {Top}
    /\ \E V \in SUBSET Existing : Passed(q, V)
    /\ q.pc = "move" /\ ~cut => q.cursor = Top

\* Categories that only lead to each other.
Closed(s) == s \subseteq Existing /\ s # {} /\ \A c \in s : parent[c] \in s

ClerksApart ==
  ~jumbled => /\ \A h, i \in Clerks : clerk[h].pc # "idle" /\ clerk[i].pc # "idle" => h = i
              /\ \A h \in Clerks : WalkHolds(clerk[h])

HandlersKnow ==
  \A h \in Clerks : clerk[h].pc # "idle" => clerk[h].self \in Categories

TreeInv == TreeTypeOK /\ HandlersKnow /\ ClerksApart /\ TreeHasNoCycle

LEMMA NoneClosed ==
  TreeHasNoCycle <=> (~jumbled /\ ~cut => \A s : ~Closed(s))
  BY DEF TreeHasNoCycle, Closed

LEMMA NoClerkType == NoClerk \in ClerkRows /\ NoClerk.pc = "idle"
  BY TreeAssumption DEF NoClerk, ClerkRows

LEMMA TreeInitInv == TreeInit => TreeInv
  <1> SUFFICES ASSUME TreeInit PROVE TreeInv
    OBVIOUS
  <1>1. Existing = {} /\ \A h \in Clerks : clerk[h] = NoClerk
    BY DEF TreeInit, Existing
  <1>2. TreeTypeOK
    <2>1. parent \in [Categories -> Categories \cup {Top, Absent}]
      BY DEF TreeInit
    <2>2. clerk \in [Clerks -> ClerkRows]
      BY NoClerkType DEF TreeInit
    <2> QED
      BY <1>1, <2>1, <2>2 DEF TreeInit, TreeTypeOK
  <1>3. HandlersKnow /\ ClerksApart
    BY <1>1, NoClerkType DEF HandlersKnow, ClerksApart, WalkHolds
  <1>4. TreeHasNoCycle
    BY <1>1 DEF TreeHasNoCycle
  <1> QED
    BY <1>2, <1>3, <1>4 DEF TreeInv

\* One handler moves and the tree stays.
LEMMA ClerkGoes ==
  ASSUME TreeInv, NEW h \in Clerks, NEW q \in ClerkRows, clerk' = [clerk EXCEPT ![h] = q],
         UNCHANGED <<parent, stocked>>, cut' \in BOOLEAN, jumbled' \in BOOLEAN,
         cut => cut', jumbled => jumbled',
         q.pc # "idle" => q.self \in Categories,
         ~jumbled' => WalkHolds(q)',
         ~jumbled' => /\ cut' = cut \/ q.pc = "move"
                      /\ q.pc # "idle" => \A i \in Clerks \ {h} : clerk[i].pc = "idle"
  PROVE  TreeInv'
  <1> USE DEF TreeInv
  <1>1. /\ clerk' \in [Clerks -> ClerkRows]
        /\ \A i \in Clerks : clerk'[i] = IF i = h THEN q ELSE clerk[i]
    BY DEF TreeTypeOK
  <1>2. Existing' = Existing
    BY DEF Existing
  <1>3. TreeTypeOK' /\ HandlersKnow'
    BY <1>1, <1>2 DEF TreeTypeOK, HandlersKnow
  <1>4. TreeHasNoCycle'
    BY <1>2 DEF TreeHasNoCycle, TreeTypeOK
  <1>5. ClerksApart'
    <2> SUFFICES ASSUME ~jumbled' PROVE ClerksApart'
      BY DEF ClerksApart
    <2>1. ~jumbled
      BY DEF TreeTypeOK
    <2>2. \A i, j \in Clerks : clerk'[i].pc # "idle" /\ clerk'[j].pc # "idle" => i = j
      BY <1>1, <2>1 DEF ClerksApart
    <2>3. \A i \in Clerks : WalkHolds(clerk[i])'
      <3> SUFFICES ASSUME NEW i \in Clerks PROVE WalkHolds(clerk[i])'
        OBVIOUS
      <3>1. CASE i = h
        BY <1>1, <3>1 DEF WalkHolds, Passed
      <3>2. CASE i # h /\ clerk[i].pc = "idle"
        BY <1>1, <3>2 DEF WalkHolds
      <3>3. CASE i # h /\ clerk[i].pc # "idle"
        <4>1. q.pc = "idle" /\ cut' = cut
          BY <3>3
        <4> QED
          BY <1>1, <1>2, <2>1, <3>3, <4>1 DEF ClerksApart, WalkHolds, Passed
      <3> QED
        BY <3>1, <3>2, <3>3
    <2> QED
      BY <2>2, <2>3 DEF ClerksApart
  <1> QED
    BY <1>3, <1>4, <1>5

\* A handler ends, and the tree may change by its last step.
LEMMA ClerkEnds ==
  ASSUME TreeInv, NEW h \in Clerks, EndClerk(h), clerk[h].pc # "idle",
         UNCHANGED <<stocked, cut, jumbled>>,
         parent' \in [Categories -> Categories \cup {Top, Absent}],
         \A c \in Existing' : parent'[c] \in Existing' \cup {Top},
         stocked \subseteq Existing',
         ~jumbled /\ ~cut => \A s : ~Closed(s)'
  PROVE  TreeInv'
  <1> USE DEF TreeInv
  <1>1. /\ clerk' \in [Clerks -> ClerkRows]
        /\ \A i \in Clerks : clerk'[i] = IF i = h THEN NoClerk ELSE clerk[i]
    BY NoClerkType DEF TreeTypeOK, EndClerk
  <1>2. TreeTypeOK' /\ HandlersKnow'
    BY <1>1, NoClerkType DEF TreeTypeOK, HandlersKnow
  <1>3. ClerksApart'
    <2> SUFFICES ASSUME ~jumbled PROVE ClerksApart'
      BY DEF ClerksApart
    <2>1. \A i \in Clerks : clerk'[i].pc = "idle"
      BY <1>1, NoClerkType DEF ClerksApart
    <2> QED
      BY <2>1 DEF ClerksApart, WalkHolds
  <1>4. TreeHasNoCycle'
    BY DEF TreeHasNoCycle, Closed
  <1> QED
    BY <1>2, <1>3, <1>4

LEMMA TreeStep ==
  ASSUME TreeInv, [TreeNext]_treeVars
  PROVE  TreeInv'
  <1> USE DEF TreeInv
  <1>1. ASSUME NEW h \in Clerks, NEW c \in Categories, RemoveCategory(h, c) PROVE TreeInv'
    <2> DEFINE q == [NoClerk EXCEPT !.pc = "delete", !.self = c]
    <2>1. q \in ClerkRows /\ q.pc = "delete" /\ q.self = c
      BY NoClerkType DEF ClerkRows
    <2>2. StartClerk(h, q)
      BY <1>1 DEF RemoveCategory
    <2>3. q.pc \notin {"walk", "move", "idle"} /\ q.self \in Categories
      BY <2>1
    <2> HIDE DEF q
    <2>4. /\ clerk[h].pc = "idle" /\ clerk' = [clerk EXCEPT ![h] = q]
          /\ jumbled' = (jumbled \/ \E i \in Clerks \ {h} : clerk[i].pc # "idle")
          /\ UNCHANGED <<parent, stocked, cut>>
      BY <2>2 DEF StartClerk
    <2>5. jumbled' \in BOOLEAN /\ (jumbled => jumbled') /\ cut' \in BOOLEAN
      BY <2>4 DEF TreeTypeOK
    <2>6. WalkHolds(q)'
      BY <2>3 DEF WalkHolds
    <2> QED
      BY <2>1, <2>3, <2>4, <2>5, <2>6, ClerkGoes
  <1>2. ASSUME NEW h \in Clerks, NEW c \in Categories, NEW p \in Categories \cup {Top},
               UpdateParent(h, c, p)
        PROVE  TreeInv'
    <2> DEFINE a == IF p = Top THEN "move" ELSE "walk"
               q == [pc |-> a, self |-> c, target |-> p, cursor |-> p, steps |-> 0]
    <2>1. /\ StartClerk(h, q) /\ c \in Existing /\ p \in (Existing \cup {Top}) \ {c}
          /\ a \in {"walk", "move"} /\ (a = "move" => p = Top)
      BY <1>2 DEF UpdateParent
    <2> HIDE DEF a
    <2>2. /\ q \in ClerkRows /\ q.pc = a /\ q.self = c /\ q.target = p /\ q.cursor = p
      BY <2>1, TreeAssumption DEF ClerkRows
    <2> HIDE DEF q
    <2>3. /\ clerk[h].pc = "idle" /\ clerk' = [clerk EXCEPT ![h] = q]
          /\ jumbled' = (jumbled \/ \E i \in Clerks \ {h} : clerk[i].pc # "idle")
          /\ UNCHANGED <<parent, stocked, cut>>
      BY <2>1 DEF StartClerk
    <2>4. jumbled' \in BOOLEAN /\ (jumbled => jumbled') /\ cut' \in BOOLEAN
      BY <2>3 DEF TreeTypeOK
    <2>5. WalkHolds(q)'
      <3>1. Passed(q, {})'
        BY <2>2 DEF Passed
      <3>2. Existing' = Existing
        BY <2>3 DEF Existing
      <3> QED
        BY <2>1, <2>2, <3>1, <3>2 DEF WalkHolds
    <2> QED
      BY <2>1, <2>2, <2>3, <2>4, <2>5, ClerkGoes
  <1>3. ASSUME NEW h \in Clerks, clerk[h].pc # "idle", EndClerk(h),
               UNCHANGED <<parent, stocked, cut, jumbled>>
        PROVE  TreeInv'
    <2>1. Existing' = Existing /\ \A s : Closed(s)' <=> Closed(s)
      BY <1>3 DEF Existing, Closed
    <2> QED
      BY <1>3, <2>1, ClerkEnds, NoneClosed DEF TreeTypeOK
  <1>4. ASSUME NEW h \in Clerks, WalkStep(h) PROVE TreeInv'
    <2> DEFINE q == clerk[h]
               at == IF q.cursor \in Existing THEN parent[q.cursor] ELSE Top
               n == q.steps + 1
               r == [q EXCEPT !.cursor = at, !.steps = n]
    <2>0. q \in ClerkRows
      BY DEF TreeTypeOK
    <2>1. q.pc = "walk" /\ UNCHANGED <<parent, stocked, cut, jumbled>> /\ Existing' = Existing
      BY <1>4 DEF WalkStep, Existing
    <2>2. CASE q.cursor = q.self
      BY <1>3, <1>4, <2>1, <2>2 DEF WalkStep
    <2>3. CASE q.cursor # q.self
      <3>1. clerk' = [clerk EXCEPT ![h] = r]
        BY <1>4, <2>3 DEF WalkStep
      <3>2. n \in 0..WalkLimit /\ at \in Categories \cup {Top, Absent} /\ q.cursor # Top
        BY <1>4, <2>0, TreeAssumption DEF WalkStep, ClerkRows, TreeTypeOK, Existing
      <3>3. q.cursor \in Existing => at = parent[q.cursor] /\ at \in Existing \cup {Top}
        BY DEF TreeTypeOK
      <3> HIDE DEF at, n
      <3>4. /\ r \in ClerkRows /\ r.pc = "walk" /\ r.self = q.self /\ r.target = q.target
            /\ r.cursor = at
        BY <2>0, <2>1, <3>2 DEF ClerkRows
      <3> HIDE DEF r, q
      <3>5. PICK s \in ClerkRows :
              /\ clerk' = [clerk EXCEPT ![h] = s] /\ s.pc = "walk" /\ s.self = q.self
              /\ s.target = q.target /\ s.cursor = at
        BY <3>1, <3>4
      <3>6. s.self \in Categories
        BY <2>1, <3>5 DEF HandlersKnow, q
      <3>7. ASSUME ~jumbled PROVE WalkHolds(s)'
        <4>1. WalkHolds(q)
          BY <3>7 DEF ClerksApart, q
        <4>2. q.self \in Existing /\ q.cursor \in Existing
          BY <2>1, <3>2, <4>1 DEF WalkHolds
        <4>3. PICK V \in SUBSET Existing : Passed(q, V)
          BY <2>1, <4>1 DEF WalkHolds
        <4>4. PICK W \in SUBSET Existing : W = V \cup {q.cursor}
          BY <4>2
        <4>5. Passed(s, W)'
          BY <2>1, <2>3, <3>3, <3>5, <4>2, <4>3, <4>4 DEF Passed
        <4> QED
          BY <2>1, <3>3, <3>5, <4>2, <4>5 DEF WalkHolds
      <3>8. ~jumbled => \A i \in Clerks \ {h} : clerk[i].pc = "idle"
        BY <2>1 DEF ClerksApart, q
      <3> QED
        BY <2>1, <3>5, <3>6, <3>7, <3>8, ClerkGoes DEF TreeTypeOK
    <2> QED
      BY <2>2, <2>3
  <1>5. ASSUME NEW h \in Clerks, WalkDone(h) PROVE TreeInv'
    <2> DEFINE q == clerk[h]
               r == [q EXCEPT !.pc = "move"]
    <2>1. /\ q.pc = "walk" /\ UNCHANGED <<parent, stocked, jumbled>> /\ Existing' = Existing
          /\ cut' = (cut \/ q.cursor # Top) /\ clerk' = [clerk EXCEPT ![h] = r]
      BY <1>5 DEF WalkDone, Existing
    <2>2. /\ r \in ClerkRows /\ r.pc = "move" /\ r.self = q.self /\ r.target = q.target
          /\ r.cursor = q.cursor
      BY DEF ClerkRows, TreeTypeOK
    <2> HIDE DEF r, q
    <2>3. PICK s \in ClerkRows :
            /\ clerk' = [clerk EXCEPT ![h] = s] /\ s.pc = "move" /\ s.self = q.self
            /\ s.target = q.target /\ s.cursor = q.cursor
      BY <2>1, <2>2
    <2>4. s.self \in Categories
      BY <2>1, <2>3 DEF HandlersKnow, q
    <2>5. ASSUME ~jumbled PROVE WalkHolds(s)'
      <3>1. WalkHolds(q)
        BY <2>5 DEF ClerksApart, q
      <3>2. PICK V \in SUBSET Existing : Passed(q, V)
        BY <2>1, <3>1 DEF WalkHolds
      <3>3. Passed(s, V)'
        BY <2>1, <2>3, <3>2 DEF Passed
      <3> QED
        BY <2>1, <2>3, <3>1, <3>3 DEF WalkHolds
    <2>6. ~jumbled => \A i \in Clerks \ {h} : clerk[i].pc = "idle"
      BY <2>1 DEF ClerksApart, q
    <2>7. cut' \in BOOLEAN /\ (cut => cut') /\ jumbled' = jumbled /\ jumbled \in BOOLEAN
      BY <2>1 DEF TreeTypeOK
    <2>8. UNCHANGED <<parent, stocked>>
      BY <2>1
    <2>9. ~jumbled' => /\ cut' = cut \/ s.pc = "move"
                       /\ s.pc # "idle" => \A i \in Clerks \ {h} : clerk[i].pc = "idle"
      BY <2>3, <2>6, <2>7
    <2>10. ~jumbled' => WalkHolds(s)'
      BY <2>5, <2>7
    <2> HIDE DEF TreeInv
    <2> QED
      BY <2>3, <2>4, <2>7, <2>8, <2>9, <2>10, ClerkGoes
  <1>6. ASSUME NEW h \in Clerks, Move(h) PROVE TreeInv'
    <2> DEFINE q == clerk[h]
    <2>1. q.pc = "move" /\ EndClerk(h) /\ UNCHANGED <<stocked, cut, jumbled>>
      BY <1>6 DEF Move
    <2>2. CASE ~(q.self \in Existing /\ q.target \in Existing \cup {Top})
      BY <1>3, <1>6, <2>1, <2>2 DEF Move
    <2>3. CASE q.self \in Existing /\ q.target \in Existing \cup {Top}
      <3>1. parent' = [parent EXCEPT ![q.self] = q.target]
        BY <1>6, <2>3 DEF Move
      <3>2. \A c \in Categories : parent'[c] = IF c = q.self THEN q.target ELSE parent[c]
        BY <3>1 DEF TreeTypeOK
      <3>3. parent' \in [Categories -> Categories \cup {Top, Absent}]
        BY <2>3, <3>1 DEF TreeTypeOK, Existing
      <3>4. Existing' = Existing
        <4>1. q.target # Absent /\ q.self \in Existing
          BY <2>3, TreeAssumption DEF Existing
        <4> QED
          BY <3>2, <4>1 DEF Existing
      <3>5. ASSUME ~jumbled, ~cut, NEW s, Closed(s)' PROVE FALSE
        <4>1. \A t : ~Closed(t)
          BY <3>5, NoneClosed
        <4>2. PICK V \in SUBSET Existing : Passed(q, V)
          BY <2>1, <3>5 DEF ClerksApart, WalkHolds
        <4>3. q.cursor = Top
          BY <2>1, <3>5 DEF ClerksApart, WalkHolds
        <4>4. s \subseteq Existing /\ s # {} /\ \A c \in s : parent'[c] \in s
          BY <3>4, <3>5 DEF Closed
        <4>5. Top \notin s
          BY <4>4, TreeAssumption DEF Existing
        <4>6. CASE q.self \notin s
          <5>1. Closed(s)
            BY <3>2, <4>4, <4>6 DEF Closed, Existing
          <5> QED
            BY <4>1, <5>1
        <4>7. CASE q.self \in s
          <5>1. q.target \in s /\ q.target \in V
            BY <2>3, <3>2, <4>2, <4>3, <4>4, <4>5, <4>7 DEF Passed, Existing
          <5>2. \A c \in s \cap V : parent[c] \in s \cap V
            BY <3>2, <4>2, <4>3, <4>4, <4>5 DEF Passed, Existing
          <5>3. Closed(s \cap V)
            BY <4>4, <5>1, <5>2 DEF Closed
          <5> QED
            BY <4>1, <5>3
        <4> QED
          BY <4>6, <4>7
      <3>6. \A c \in Existing' : parent'[c] \in Existing' \cup {Top}
        BY <2>3, <3>2, <3>4 DEF TreeTypeOK, Existing
      <3> QED
        BY <2>1, <3>3, <3>4, <3>5, <3>6, ClerkEnds DEF TreeTypeOK
    <2> QED
      BY <2>2, <2>3
  <1>7. ASSUME NEW h \in Clerks, DeleteCategory(h) PROVE TreeInv'
    <2> DEFINE c == clerk[h].self
    <2>1. clerk[h].pc = "delete" /\ EndClerk(h) /\ UNCHANGED <<stocked, cut, jumbled>>
      BY <1>7 DEF DeleteCategory
    <2>2. CASE ~(ChildrenOf(c) = {} /\ c \notin stocked)
      BY <1>3, <1>7, <2>1, <2>2 DEF DeleteCategory
    <2>3. CASE ChildrenOf(c) = {} /\ c \notin stocked
      <3>1. parent' = [parent EXCEPT ![c] = Absent]
        BY <1>7, <2>3 DEF DeleteCategory
      <3> HIDE DEF c
      <3>2. \A d \in Categories : parent'[d] = IF d = c THEN Absent ELSE parent[d]
        BY <3>1 DEF TreeTypeOK
      <3>3. parent' \in [Categories -> Categories \cup {Top, Absent}]
        BY <3>1 DEF TreeTypeOK
      <3>4. Existing' = Existing \ {c}
        BY <3>2 DEF Existing
      <3>5. \A d \in Existing' : parent'[d] \in Existing' \cup {Top}
        BY <2>3, <3>2, <3>4 DEF ChildrenOf, TreeTypeOK, Existing
      <3>6. stocked \subseteq Existing'
        BY <2>3, <3>4 DEF TreeTypeOK
      <3>7. \A s : Closed(s)' => Closed(s)
        BY <3>2, <3>4 DEF Closed, Existing
      <3> QED
        BY <2>1, <3>3, <3>5, <3>6, <3>7, NoneClosed, ClerkEnds
    <2> QED
      BY <2>2, <2>3
  <1>8. ASSUME NEW h \in Clerks, ClerkDies(h) PROVE TreeInv'
    BY <1>3, <1>8 DEF ClerkDies
  <1>9. ASSUME NEW c \in Categories, FileProduct(c) PROVE TreeInv'
    <2>1. UNCHANGED <<parent, clerk, cut, jumbled>> /\ Existing' = Existing
      BY <1>9 DEF FileProduct, Existing
    <2>2. stocked' \subseteq Existing
      BY <1>9 DEF FileProduct, TreeTypeOK
    <2> QED
      BY <2>1, <2>2
      DEF TreeTypeOK, HandlersKnow, ClerksApart, WalkHolds, Passed, TreeHasNoCycle
  <1>10. ASSUME NEW c \in Categories, NEW p \in Categories \cup {Top}, CreateCategory(c, p)
         PROVE  TreeInv'
    <2>1. /\ parent[c] = Absent /\ p \in Existing \cup {Top}
          /\ parent' = [parent EXCEPT ![c] = p] /\ UNCHANGED <<stocked, clerk, cut, jumbled>>
      BY <1>10 DEF CreateCategory
    <2>2. \A d \in Categories : parent'[d] = IF d = c THEN p ELSE parent[d]
      BY <2>1 DEF TreeTypeOK
    <2>3. c \notin Existing /\ p # c /\ Existing' = Existing \cup {c}
      BY <2>1, <2>2, TreeAssumption DEF Existing
    <2>4. \A d \in Existing : parent[d] \in Existing \cup {Top} /\ parent'[d] = parent[d]
      BY <2>2, <2>3 DEF TreeTypeOK, Existing
    <2>5. TreeTypeOK'
      BY <2>1, <2>2, <2>3, <2>4 DEF TreeTypeOK
    <2>6. \A s : Closed(s)' => Closed(s \ {c})
      <3> SUFFICES ASSUME NEW s, Closed(s)' PROVE Closed(s \ {c})
        OBVIOUS
      <3>1. s \ {c} \subseteq Existing /\ \A d \in s : parent'[d] \in s
        BY <2>3 DEF Closed
      <3>2. Top \notin s
        BY <2>3, TreeAssumption DEF Closed, Existing
      <3>3. s \ {c} # {}
        BY <2>2, <2>3, <3>1 DEF Closed
      <3>4. \A d \in s \ {c} : parent[d] \in s \ {c}
        BY <2>3, <2>4, <3>1, <3>2
      <3> QED
        BY <3>1, <3>3, <3>4 DEF Closed
    <2>7. TreeHasNoCycle'
      <3>1. ~jumbled' /\ ~cut' => \A s : ~Closed(s)'
        BY <2>1, <2>6, NoneClosed
      <3> QED
        BY <3>1 DEF TreeHasNoCycle, Closed
    <2>8. \A q \in ClerkRows : WalkHolds(q) => WalkHolds(q)'
      <3> SUFFICES ASSUME NEW q \in ClerkRows, WalkHolds(q), q.pc \in {"walk", "move"}
                   PROVE  WalkHolds(q)'
        BY DEF WalkHolds
      <3>1. PICK V \in SUBSET Existing : Passed(q, V)
        BY DEF WalkHolds
      <3>2. Passed(q, V)'
        BY <2>3, <2>4, <3>1 DEF Passed
      <3> QED
        BY <2>1, <2>3, <3>1, <3>2 DEF WalkHolds
    <2>9. ClerksApart' /\ HandlersKnow'
      <3>1. \A h \in Clerks : clerk[h] \in ClerkRows
        BY DEF TreeTypeOK
      <3> QED
        BY <2>1, <2>8, <3>1 DEF ClerksApart, HandlersKnow
    <2> QED
      BY <2>5, <2>7, <2>9
  <1>11. CASE UNCHANGED treeVars
    BY <1>11 DEF treeVars, TreeTypeOK, HandlersKnow, ClerksApart, WalkHolds, Passed,
                 TreeHasNoCycle, Existing
  <1> QED
    BY <1>1, <1>2, <1>4, <1>5, <1>6, <1>7, <1>8, <1>9, <1>10, <1>11 DEF TreeNext

\* Parents exist, and moves that do not overlap leave no cycle
\* (CategoryTree.TreeTypeOK, CategoryTree.TreeHasNoCycle).
THEOREM TreeStaysATree == TreeSpec => [](TreeTypeOK /\ TreeHasNoCycle)
  <1>1. TreeInv => TreeTypeOK /\ TreeHasNoCycle
    BY DEF TreeInv
  <1> QED
    BY <1>1, TreeInitInv, TreeStep, PTL DEF TreeSpec

-----------------------------------------------------------------------------
(* Attributes.                                                             *)

\* The category a save validates for and leaves the product in.
CategoryOf(q) == IF q.category = Blank THEN categoryId[q.item] ELSE q.category

\* What a handler that is alone has counted or validated still holds.
EditHolds(q) ==
  /\ q.pc = "retype" /\ q.type = "raw" => ValuesOf(q.attr) = {}
  /\ q.pc = "addValue" => attr[ValueOf[q.value]] = "list"
  /\ q.pc = "dropValue" => \A i \in Items, a \in Attrs : entry[i][a] # q.value
  /\ q.pc = "detach" => \A i \in Items : categoryId[i] = q.category => entry[i][q.attr] = "none"
  /\ q.pc = "save" => \A a \in Attrs : q.entries[a] # "none" => <<CategoryOf(q), a>> \in attached

\* A handler knows what it is about.
EditKnows(q) ==
  /\ q.pc \in {"retype", "drop", "attach", "detach"} => q.attr \in Attrs
  /\ q.pc \in {"addValue", "countValue", "dropValue"} => q.value \in Values
  /\ q.pc \in {"save", "move"} => q.item \in Items
  /\ q.pc \in {"move", "attach", "detach"} => q.category \in CategoryIds

EditorsApart ==
  ~tangled => /\ \A h, i \in Editors : editor[h].pc # "idle" /\ editor[i].pc # "idle" => h = i
              /\ \A h \in Editors : EditHolds(editor[h])

\* A value of another attribute is only where one was taken.
StraysNoted == \A i \in Items, a \in Attrs : Strays(a, entry[i][a]) => astray

AttributeInv ==
  /\ AttributeTypeOK /\ StraysNoted /\ AttributesStand /\ EditorsApart
  /\ \A h \in Editors : EditKnows(editor[h])

LEMMA NoEditorType == NoEditor \in EditorRows /\ NoEditor.pc = "idle"
  BY AttributeAssumption DEF NoEditor, EditorRows, Entries

LEMMA PayloadsAreEntries == Payloads \subseteq [Attrs -> Entries \ {"bare"}]
  BY AttributeAssumption DEF Entries

LEMMA AttributeInitInv == AttributeInit => AttributeInv
  <1> SUFFICES ASSUME AttributeInit PROVE AttributeInv
    OBVIOUS
  <1>1. \A h \in Editors : editor[h] = NoEditor
    BY DEF AttributeInit
  <1>2. \A i \in Items, a \in Attrs : entry[i][a] = "none"
    BY DEF AttributeInit
  <1>3. AttributeTypeOK
    <2>1. entry \in [Items -> [Attrs -> Entries]]
      BY DEF AttributeInit, Entries
    <2>2. editor \in [Editors -> EditorRows]
      BY NoEditorType DEF AttributeInit
    <2> QED
      BY <1>2, <2>1, <2>2, AttributeAssumption DEF AttributeInit, AttributeTypeOK
  <1>4. StraysNoted
    BY <1>2, AttributeAssumption DEF StraysNoted, Strays
  <1>5. AttributesStand
    BY <1>2 DEF AttributeInit, AttributesStand
  <1>6. EditorsApart /\ \A h \in Editors : EditKnows(editor[h])
    BY <1>1, NoEditorType DEF EditorsApart, EditHolds, EditKnows
  <1> QED
    BY <1>3, <1>4, <1>5, <1>6 DEF AttributeInv

\* The rows stay, and one handler starts or goes on.
LEMMA EditGoes ==
  ASSUME AttributeInv, NEW h \in Editors, NEW q \in EditorRows, editor' = [editor EXCEPT ![h] = q],
         UNCHANGED <<attr, listed, attached, categoryId, entry, astray, moved>>,
         tangled' \in BOOLEAN, tangled => tangled',
         EditKnows(q),
         ~tangled' => EditHolds(q)',
         ~tangled' => (q.pc # "idle" => \A i \in Editors \ {h} : editor[i].pc = "idle")
  PROVE  AttributeInv'
  <1> USE DEF AttributeInv
  <1>1. /\ editor' \in [Editors -> EditorRows]
        /\ \A i \in Editors : editor'[i] = IF i = h THEN q ELSE editor[i]
    BY DEF AttributeTypeOK
  <1>2. AttributeTypeOK'
    BY <1>1 DEF AttributeTypeOK
  <1>3. StraysNoted' /\ AttributesStand'
    BY DEF StraysNoted, AttributesStand, AttributeTypeOK
  <1>4. \A i \in Editors : EditKnows(editor[i])'
    BY <1>1 DEF EditKnows
  <1>5. EditorsApart'
    <2> SUFFICES ASSUME ~tangled' PROVE EditorsApart'
      BY DEF EditorsApart
    <2>1. ~tangled
      BY DEF AttributeTypeOK
    <2>2. \A i, j \in Editors : editor'[i].pc # "idle" /\ editor'[j].pc # "idle" => i = j
      BY <1>1, <2>1 DEF EditorsApart
    <2>3. \A i \in Editors : EditHolds(editor[i])'
      <3> SUFFICES ASSUME NEW i \in Editors PROVE EditHolds(editor[i])'
        OBVIOUS
      <3>1. CASE i = h
        BY <1>1, <3>1 DEF EditHolds
      <3>2. CASE i # h
        BY <1>1, <2>1, <3>2 DEF EditorsApart, EditHolds, ValuesOf, Uses, CategoryOf
      <3> QED
        BY <3>1, <3>2
    <2> QED
      BY <2>2, <2>3 DEF EditorsApart
  <1> QED
    BY <1>2, <1>3, <1>4, <1>5

LEMMA EditStarts ==
  ASSUME AttributeInv, NEW h \in Editors, NEW q \in EditorRows, StartEdit(h, q),
         EditKnows(q), ~tangled => EditHolds(q)
  PROVE  AttributeInv'
  <1>1. /\ editor[h].pc = "idle" /\ editor' = [editor EXCEPT ![h] = q]
        /\ tangled' = (tangled \/ \E i \in Editors \ {h} : editor[i].pc # "idle")
        /\ UNCHANGED <<attr, listed, attached, categoryId, entry, astray, moved>>
    BY DEF StartEdit
  <1>2. tangled' \in BOOLEAN /\ (tangled => tangled')
    BY <1>1 DEF AttributeInv, AttributeTypeOK
  <1>3. ~tangled' => EditHolds(q)'
    BY <1>1, <1>2 DEF EditHolds, ValuesOf, Uses, CategoryOf
  <1>4. ~tangled' => (q.pc # "idle" => \A i \in Editors \ {h} : editor[i].pc = "idle")
    BY <1>1
  <1> QED
    BY <1>1, <1>2, <1>3, <1>4, EditGoes

\* A handler ends with its write.
LEMMA EditEnds ==
  ASSUME AttributeInv, NEW h \in Editors, editor[h].pc # "idle", EndEdit(h), tangled' = tangled,
         attr' \in [Attrs -> {"absent", "list", "raw"}],
         listed' \subseteq {v \in Values : attr'[ValueOf[v]] # "absent"},
         attached' \subseteq CategoryIds \X {a \in Attrs : attr'[a] # "absent"},
         categoryId' \in [Items -> CategoryIds], moved' \subseteq Items,
         entry' \in [Items -> [Attrs -> Entries]],
         \A i \in Items, a \in Attrs : /\ entry'[i][a] # "none" => attr'[a] # "absent"
                                       /\ entry'[i][a] \in Values => entry'[i][a] \in listed',
         astray' \in BOOLEAN, StraysNoted', ~tangled => AttributesStand'
  PROVE  AttributeInv'
  <1> USE DEF AttributeInv
  <1>1. /\ editor' \in [Editors -> EditorRows]
        /\ \A i \in Editors : editor'[i] = IF i = h THEN NoEditor ELSE editor[i]
    BY NoEditorType DEF AttributeTypeOK, EndEdit
  <1>2. AttributeTypeOK'
    BY <1>1 DEF AttributeTypeOK
  <1>3. \A i \in Editors : EditKnows(editor[i])'
    BY <1>1, NoEditorType DEF EditKnows
  <1>4. EditorsApart'
    <2> SUFFICES ASSUME ~tangled PROVE EditorsApart'
      BY DEF EditorsApart
    <2>1. \A i \in Editors : editor'[i].pc = "idle"
      BY <1>1, NoEditorType DEF EditorsApart
    <2> QED
      BY <2>1 DEF EditorsApart, EditHolds
  <1>5. AttributesStand'
    BY DEF AttributesStand
  <1> QED
    BY <1>2, <1>3, <1>4, <1>5

\* Entries whose value goes.
LEMMA ClearedEntries ==
  ASSUME AttributeInv, NEW V \in SUBSET Values, ClearEntries(V)
  PROVE  /\ entry' \in [Items -> [Attrs -> Entries]]
         /\ \A i \in Items, a \in Attrs :
              entry'[i][a] = IF entry[i][a] \in V THEN "bare" ELSE entry[i][a]
         /\ \A i \in Items, a \in Attrs :
              /\ entry'[i][a] # "none" <=> entry[i][a] # "none"
              /\ entry'[i][a] \in Values => entry'[i][a] = entry[i][a] /\ entry[i][a] \notin V
  <1>1. \A i \in Items, a \in Attrs :
          entry'[i][a] = IF entry[i][a] \in V THEN "bare" ELSE entry[i][a]
    BY DEF ClearEntries
  <1>2. "none" \notin Values /\ "bare" \notin Values
    BY AttributeAssumption
  <1>3. entry' \in [Items -> [Attrs -> Entries]]
    BY DEF ClearEntries, Entries, AttributeInv, AttributeTypeOK
  <1> QED
    BY <1>1, <1>2, <1>3

LEMMA AttributeStep ==
  ASSUME AttributeInv, [AttributeNext]_attributeVars
  PROVE  AttributeInv'
  <1> USE DEF AttributeInv
  <1>1. ASSUME NEW a \in Attrs, NEW t \in {"list", "raw"}, CreateAttribute(a, t)
        PROVE  AttributeInv'
    <2>1. /\ attr[a] = "absent" /\ attr' = [attr EXCEPT ![a] = t]
          /\ UNCHANGED <<listed, attached, categoryId, entry, editor, tangled, astray, moved>>
      BY <1>1 DEF CreateAttribute
    <2>2. \A b \in Attrs : attr'[b] = IF b = a THEN t ELSE attr[b]
      BY <2>1 DEF AttributeTypeOK
    <2>3. AttributeTypeOK'
      BY <2>1, <2>2, AttributeAssumption DEF AttributeTypeOK
    <2>4. \A v \in Values : attr[ValueOf[v]] # "absent" => attr'[ValueOf[v]] = attr[ValueOf[v]]
      BY <2>1, <2>2, AttributeAssumption
    <2>5. AttributesStand' /\ StraysNoted'
      <3>1. \A v \in listed : v \in Values /\ attr[ValueOf[v]] # "absent"
        BY DEF AttributeTypeOK
      <3> QED
        BY <2>1, <2>4, <3>1 DEF AttributesStand, StraysNoted
    <2>6. EditorsApart'
      <3> SUFFICES ASSUME ~tangled PROVE EditorsApart'
        BY <2>1 DEF EditorsApart
      <3>1. \A h \in Editors : EditHolds(editor[h])'
        <4> SUFFICES ASSUME NEW h \in Editors PROVE EditHolds(editor[h])'
          OBVIOUS
        <4>1. EditHolds(editor[h])
          BY DEF EditorsApart
        <4>2. editor[h].pc = "addValue" => attr'[ValueOf[editor[h].value]] = "list"
          BY <2>4, <4>1 DEF EditHolds, EditKnows
        <4> QED
          BY <2>1, <4>1, <4>2 DEF EditHolds, ValuesOf, Uses, CategoryOf
      <3> QED
        BY <2>1, <3>1 DEF EditorsApart
    <2>7. \A h \in Editors : EditKnows(editor[h])'
      BY <2>1 DEF EditKnows
    <2> QED
      BY <2>3, <2>5, <2>6, <2>7
  <1>2. ASSUME NEW h \in Editors, NEW a \in Attrs, NEW t \in {"list", "raw"}, UpdateType(h, a, t)
        PROVE  AttributeInv'
    <2> DEFINE q == [NoEditor EXCEPT !.pc = "retype", !.attr = a, !.type = t]
    <2>1. q \in EditorRows /\ q.pc = "retype" /\ q.attr = a /\ q.type = t
      BY NoEditorType DEF EditorRows
    <2>2. StartEdit(h, q) /\ attr[a] # "absent" /\ ~(ValuesOf(a) # {} /\ attr[a] = "list" /\ t = "raw")
      BY <1>2 DEF UpdateType
    <2> HIDE DEF q
    <2>3. ~tangled /\ t = "raw" => ValuesOf(a) = {}
      BY <2>2 DEF AttributesStand, ValuesOf
    <2>4. EditKnows(q) /\ (~tangled => EditHolds(q))
      BY <2>1, <2>3 DEF EditKnows, EditHolds
    <2> QED
      BY <2>1, <2>2, <2>4, EditStarts
  <1>3. ASSUME NEW h \in Editors, NEW a \in Attrs, RemoveAttribute(h, a) PROVE AttributeInv'
    <2> DEFINE q == [NoEditor EXCEPT !.pc = "drop", !.attr = a]
    <2>1. q \in EditorRows /\ q.pc = "drop" /\ q.attr = a
      BY NoEditorType DEF EditorRows
    <2>2. StartEdit(h, q)
      BY <1>3 DEF RemoveAttribute
    <2> HIDE DEF q
    <2>3. EditKnows(q) /\ EditHolds(q)
      BY <2>1 DEF EditKnows, EditHolds
    <2> QED
      BY <2>1, <2>2, <2>3, EditStarts
  <1>4. ASSUME NEW h \in Editors, NEW k \in CategoryIds, NEW a \in Attrs, AttachAttribute(h, k, a)
        PROVE  AttributeInv'
    <2> DEFINE q == [NoEditor EXCEPT !.pc = "attach", !.attr = a, !.category = k]
    <2>1. q \in EditorRows /\ q.pc = "attach" /\ q.attr = a /\ q.category = k
      BY NoEditorType DEF EditorRows
    <2>2. StartEdit(h, q)
      BY <1>4 DEF AttachAttribute
    <2> HIDE DEF q
    <2>3. EditKnows(q) /\ EditHolds(q)
      BY <2>1 DEF EditKnows, EditHolds
    <2> QED
      BY <2>1, <2>2, <2>3, EditStarts
  <1>5. ASSUME NEW h \in Editors, NEW k \in CategoryIds, NEW a \in Attrs, DetachAttribute(h, k, a)
        PROVE  AttributeInv'
    <2> DEFINE q == [NoEditor EXCEPT !.pc = "detach", !.attr = a, !.category = k]
    <2>1. q \in EditorRows /\ q.pc = "detach" /\ q.attr = a /\ q.category = k
      BY NoEditorType DEF EditorRows
    <2>2. StartEdit(h, q) /\ \A i \in Items : categoryId[i] = k => entry[i][a] = "none"
      BY <1>5 DEF DetachAttribute, Uses
    <2> HIDE DEF q
    <2>3. EditKnows(q) /\ EditHolds(q)
      BY <2>1, <2>2 DEF EditKnows, EditHolds
    <2> QED
      BY <2>1, <2>2, <2>3, EditStarts
  <1>6. ASSUME NEW h \in Editors, NEW v \in Values, AddValue(h, v) PROVE AttributeInv'
    <2> DEFINE q == [NoEditor EXCEPT !.pc = "addValue", !.value = v]
    <2>1. q \in EditorRows /\ q.pc = "addValue" /\ q.value = v
      BY NoEditorType DEF EditorRows
    <2>2. StartEdit(h, q) /\ attr[ValueOf[v]] = "list"
      BY <1>6 DEF AddValue
    <2> HIDE DEF q
    <2>3. EditKnows(q) /\ EditHolds(q)
      BY <2>1, <2>2 DEF EditKnows, EditHolds
    <2> QED
      BY <2>1, <2>2, <2>3, EditStarts
  <1>7. ASSUME NEW h \in Editors, NEW v \in Values, RemoveValue(h, v) PROVE AttributeInv'
    <2> DEFINE q == [NoEditor EXCEPT !.pc = "countValue", !.value = v]
    <2>1. q \in EditorRows /\ q.pc = "countValue" /\ q.value = v
      BY NoEditorType DEF EditorRows
    <2>2. StartEdit(h, q)
      BY <1>7 DEF RemoveValue
    <2> HIDE DEF q
    <2>3. EditKnows(q) /\ EditHolds(q)
      BY <2>1 DEF EditKnows, EditHolds
    <2> QED
      BY <2>1, <2>2, <2>3, EditStarts
  <1>8. ASSUME NEW h \in Editors, NEW i \in Items, NEW k \in CategoryIds \cup {Blank},
               NEW e \in Payloads, SaveProduct(h, i, k, e)
        PROVE  AttributeInv'
    <2> DEFINE q == [NoEditor EXCEPT !.pc = "save", !.item = i, !.category = k, !.entries = e]
    <2>0. e \in [Attrs -> Entries \ {"bare"}]
      BY AttributeAssumption, PayloadsAreEntries
    <2>1. q \in EditorRows /\ q.pc = "save" /\ q.item = i /\ q.category = k /\ q.entries = e
      BY <2>0, NoEditorType DEF EditorRows
    <2>2. StartEdit(h, q) /\ \A a \in Attrs : Valid(IF k = Blank THEN categoryId[i] ELSE k, a, e[a])
      BY <1>8 DEF SaveProduct
    <2> HIDE DEF q
    <2>3. EditKnows(q) /\ EditHolds(q)
      BY <2>1, <2>2 DEF EditKnows, EditHolds, Valid, CategoryOf
    <2> QED
      BY <2>1, <2>2, <2>3, EditStarts
  <1>20. ASSUME NEW h \in Editors, NEW i \in Items, NEW k \in CategoryIds, MoveProduct(h, i, k)
         PROVE  AttributeInv'
    <2> DEFINE q == [NoEditor EXCEPT !.pc = "move", !.item = i, !.category = k]
    <2>1. q \in EditorRows /\ q.pc = "move" /\ q.item = i /\ q.category = k
      BY NoEditorType DEF EditorRows
    <2>2. StartEdit(h, q)
      BY <1>20 DEF MoveProduct
    <2> HIDE DEF q
    <2>3. EditKnows(q) /\ EditHolds(q)
      BY <2>1 DEF EditKnows, EditHolds
    <2> QED
      BY <2>1, <2>2, <2>3, EditStarts
  \* A handler that ends without a write.
  <1>9. ASSUME NEW h \in Editors, editor[h].pc # "idle", EndEdit(h),
               UNCHANGED <<attr, listed, attached, categoryId, entry, tangled, astray, moved>>
        PROVE  AttributeInv'
    <2>1. StraysNoted' /\ AttributesStand'
      BY <1>9 DEF StraysNoted, AttributesStand
    <2> QED
      BY <1>9, <2>1, EditEnds DEF AttributeTypeOK
  <1>10. ASSUME NEW h \in Editors, Retype(h) PROVE AttributeInv'
    <2> DEFINE q == editor[h]
    <2>1. /\ q.pc = "retype" /\ EndEdit(h) /\ UNCHANGED <<listed, attached, categoryId, entry, tangled, astray, moved>>
          /\ attr' = IF attr[q.attr] = "absent" THEN attr ELSE [attr EXCEPT ![q.attr] = q.type]
      BY <1>10 DEF Retype
    <2>2. q.attr \in Attrs /\ q.type \in {"list", "raw"}
      BY <2>1 DEF EditKnows, AttributeTypeOK, EditorRows
    <2>3. CASE attr[q.attr] = "absent"
      BY <1>9, <2>1, <2>3
    <2>4. CASE attr[q.attr] # "absent"
      <3>1. \A b \in Attrs : attr'[b] = IF b = q.attr THEN q.type ELSE attr[b]
        BY <2>1, <2>4 DEF AttributeTypeOK
      <3>2. attr' \in [Attrs -> {"absent", "list", "raw"}]
        BY <2>1, <2>2, <2>4 DEF AttributeTypeOK
      <3>3. \A b \in Attrs : attr'[b] # "absent" <=> attr[b] # "absent"
        BY <2>2, <2>4, <3>1
      <3>4. StraysNoted'
        BY <2>1 DEF StraysNoted
      <3>5. ~tangled => AttributesStand'
        <4> SUFFICES ASSUME ~tangled PROVE \A v \in listed : attr'[ValueOf[v]] = "list"
          BY <2>1 DEF AttributesStand
        <4>1. EditHolds(q)
          BY DEF EditorsApart
        <4>2. q.type = "list" \/ ValuesOf(q.attr) = {}
          BY <2>1, <2>2, <4>1 DEF EditHolds
        <4>3. \A v \in listed : ValueOf[v] \in Attrs
          BY AttributeAssumption DEF AttributeTypeOK
        <4> QED
          BY <3>1, <4>2, <4>3 DEF AttributesStand, ValuesOf
      <3>6. /\ listed \subseteq {v \in Values : attr'[ValueOf[v]] # "absent"}
            /\ attached \subseteq CategoryIds \X {b \in Attrs : attr'[b] # "absent"}
            /\ \A i \in Items, b \in Attrs : entry[i][b] # "none" => attr'[b] # "absent"
        BY <3>3, AttributeAssumption DEF AttributeTypeOK
      <3> QED
        BY <2>1, <3>2, <3>4, <3>5, <3>6, EditEnds DEF AttributeTypeOK
    <2> QED
      BY <2>3, <2>4
  <1>11. ASSUME NEW h \in Editors, DropAttribute(h) PROVE AttributeInv'
    <2> DEFINE a == editor[h].attr
    <2>1. editor[h].pc = "drop" /\ EndEdit(h) /\ UNCHANGED <<categoryId, tangled, astray, moved>>
      BY <1>11 DEF DropAttribute
    <2>2. CASE Uses(a) # {}
      BY <1>9, <1>11, <2>1, <2>2 DEF DropAttribute
    <2>3. CASE Uses(a) = {}
      <3> DEFINE V == ValuesOf(a)
      <3>1. /\ attr' = [attr EXCEPT ![a] = "absent"] /\ listed' = listed \ V
            /\ attached' = attached \ (CategoryIds \X {a}) /\ ClearEntries(V)
        BY <1>11, <2>3 DEF DropAttribute
      <3>2. V \in SUBSET Values /\ \A v \in V : v \in listed /\ ValueOf[v] = a
        BY DEF ValuesOf, AttributeTypeOK
      <3>3. \A v \in listed \ V : v \in Values /\ ValueOf[v] \in Attrs /\ ValueOf[v] # a
        BY AttributeAssumption DEF ValuesOf, AttributeTypeOK
      <3>4. \A i \in Items : entry[i][a] = "none"
        BY <2>3 DEF Uses
      <3> HIDE DEF V, a
      <3>5. \A b \in Attrs : attr'[b] = IF b = a THEN "absent" ELSE attr[b]
        BY <3>1 DEF AttributeTypeOK
      <3>6. attr' \in [Attrs -> {"absent", "list", "raw"}]
        BY <3>1 DEF AttributeTypeOK
      <3>7. /\ entry' \in [Items -> [Attrs -> Entries]]
            /\ \A i \in Items, b \in Attrs :
                 entry'[i][b] = IF entry[i][b] \in V THEN "bare" ELSE entry[i][b]
            /\ \A i \in Items, b \in Attrs :
                 /\ entry'[i][b] # "none" <=> entry[i][b] # "none"
                 /\ entry'[i][b] \in Values => entry'[i][b] = entry[i][b] /\ entry[i][b] \notin V
        BY <3>1, <3>2, ClearedEntries
      <3>8. \A i \in Items, b \in Attrs :
              /\ entry'[i][b] # "none" => attr'[b] # "absent"
              /\ entry'[i][b] \in Values => entry'[i][b] \in listed'
        BY <3>1, <3>4, <3>5, <3>7 DEF AttributeTypeOK
      <3>9. StraysNoted'
        BY <2>1, <3>7 DEF StraysNoted, Strays
      <3>10. ~tangled => AttributesStand'
        <4> SUFFICES ASSUME ~tangled PROVE AttributesStand'
          OBVIOUS
        <4>1. \A v \in listed' : attr'[ValueOf[v]] = "list"
          BY <3>1, <3>3, <3>5 DEF AttributesStand
        <4>2. \A i \in Items, b \in Attrs :
                entry'[i][b] # "none" /\ i \notin moved => <<categoryId[i], b>> \in attached'
          BY <3>1, <3>4, <3>7 DEF AttributesStand
        <4>3. ASSUME NEW i \in Items, NEW b \in Attrs, entry'[i][b] = "bare" PROVE astray
          <5>1. CASE entry[i][b] \in V
            <6>1. entry[i][b] \in Values /\ ValueOf[entry[i][b]] = a /\ b # a
              BY <3>2, <3>4, <5>1, AttributeAssumption
            <6> QED
              BY <6>1 DEF StraysNoted, Strays
          <5>2. CASE entry[i][b] \notin V
            <6>1. entry[i][b] = "bare"
              BY <3>7, <4>3, <5>2
            <6> QED
              BY <6>1 DEF AttributesStand
          <5> QED
            BY <5>1, <5>2
        <4> QED
          BY <2>1, <4>1, <4>2, <4>3 DEF AttributesStand
      <3>11. /\ listed' \subseteq {v \in Values : attr'[ValueOf[v]] # "absent"}
             /\ attached' \subseteq CategoryIds \X {b \in Attrs : attr'[b] # "absent"}
        BY <3>1, <3>3, <3>5 DEF AttributeTypeOK
      <3> QED
        BY <2>1, <3>6, <3>7, <3>8, <3>9, <3>10, <3>11, EditEnds DEF AttributeTypeOK
    <2> QED
      BY <2>2, <2>3
  <1>12. ASSUME NEW h \in Editors, CreateValue(h) PROVE AttributeInv'
    <2> DEFINE v == editor[h].value
    <2>1. /\ editor[h].pc = "addValue" /\ EndEdit(h)
          /\ UNCHANGED <<attr, attached, categoryId, entry, tangled, astray, moved>>
          /\ listed' = IF attr[ValueOf[v]] = "absent" THEN listed ELSE listed \cup {v}
      BY <1>12 DEF CreateValue
    <2>2. v \in Values
      BY <2>1 DEF EditKnows
    <2>3. CASE attr[ValueOf[v]] = "absent"
      BY <1>9, <2>1, <2>3
    <2>4. CASE attr[ValueOf[v]] # "absent"
      <3>1. listed' = listed \cup {v}
        BY <2>1, <2>4
      <3>2. listed' \subseteq {w \in Values : attr[ValueOf[w]] # "absent"}
        BY <2>2, <2>4, <3>1 DEF AttributeTypeOK
      <3>3. ~tangled => attr[ValueOf[v]] = "list"
        BY <2>1 DEF EditorsApart, EditHolds
      <3>4. StraysNoted' /\ (~tangled => AttributesStand')
        BY <2>1, <3>1, <3>3 DEF StraysNoted, AttributesStand
      <3>5. \A i \in Items, a \in Attrs : entry[i][a] \in Values => entry[i][a] \in listed'
        BY <3>1 DEF AttributeTypeOK
      <3> QED
        BY <2>1, <3>2, <3>4, <3>5, EditEnds DEF AttributeTypeOK
    <2> QED
      BY <2>3, <2>4
  <1>13. ASSUME NEW h \in Editors, CountUses(h) PROVE AttributeInv'
    <2> DEFINE p == editor[h]
    <2>1. p.pc = "countValue" /\ UNCHANGED <<attr, listed, attached, categoryId, entry, tangled, astray, moved>>
      BY <1>13 DEF CountUses
    <2>2. CASE \E i \in Items, a \in Attrs : entry[i][a] = p.value
      BY <1>9, <1>13, <2>1, <2>2 DEF CountUses
    <2>3. CASE ~\E i \in Items, a \in Attrs : entry[i][a] = p.value
      <3> DEFINE r == [p EXCEPT !.pc = "dropValue"]
      <3>1. editor' = [editor EXCEPT ![h] = r]
        BY <1>13, <2>3 DEF CountUses
      <3>2. r \in EditorRows /\ r.pc = "dropValue" /\ r.value = p.value
        <4>1. p \in EditorRows
          BY DEF AttributeTypeOK
        <4> HIDE DEF p
        <4> QED
          BY <4>1 DEF EditorRows
      <3>3. p.value \in Values
        BY <2>1 DEF EditKnows
      <3>4. ~tangled => \A i \in Editors \ {h} : editor[i].pc = "idle"
        BY <2>1 DEF EditorsApart
      <3> HIDE DEF r, p
      <3>5. PICK q \in EditorRows :
              editor' = [editor EXCEPT ![h] = q] /\ q.pc = "dropValue" /\ q.value = p.value
        BY <3>1, <3>2
      <3>6. EditKnows(q)
        BY <3>3, <3>5 DEF EditKnows
      <3>7. EditHolds(q)'
        BY <2>1, <2>3, <3>5 DEF EditHolds
      <3>8. tangled' = tangled /\ tangled \in BOOLEAN
        BY <2>1 DEF AttributeTypeOK
      <3>9. UNCHANGED <<attr, listed, attached, categoryId, entry, astray, moved>>
        BY <2>1
      <3> HIDE DEF AttributeInv
      <3> QED
        BY <3>4, <3>5, <3>6, <3>7, <3>8, <3>9, EditGoes
    <2> QED
      BY <2>2, <2>3
  <1>14. ASSUME NEW h \in Editors, DropValue(h) PROVE AttributeInv'
    <2> DEFINE v == editor[h].value
    <2>1. /\ editor[h].pc = "dropValue" /\ listed' = listed \ {v} /\ ClearEntries({v})
          /\ EndEdit(h) /\ UNCHANGED <<attr, attached, categoryId, tangled, astray, moved>>
      BY <1>14 DEF DropValue
    <2>2. {v} \in SUBSET Values
      BY <2>1 DEF EditKnows
    <2>3. ~tangled => \A i \in Items, a \in Attrs : entry[i][a] # v
      BY <2>1 DEF EditorsApart, EditHolds
    <2> HIDE DEF v
    <2>4. /\ entry' \in [Items -> [Attrs -> Entries]]
          /\ \A i \in Items, a \in Attrs :
               entry'[i][a] = IF entry[i][a] \in {v} THEN "bare" ELSE entry[i][a]
          /\ \A i \in Items, a \in Attrs :
               /\ entry'[i][a] # "none" <=> entry[i][a] # "none"
               /\ entry'[i][a] \in Values => entry'[i][a] = entry[i][a] /\ entry[i][a] \notin {v}
      BY <2>1, <2>2, ClearedEntries
    <2>5. \A i \in Items, a \in Attrs :
            /\ entry'[i][a] # "none" => attr[a] # "absent"
            /\ entry'[i][a] \in Values => entry'[i][a] \in listed'
      BY <2>1, <2>4 DEF AttributeTypeOK
    <2>6. StraysNoted'
      BY <2>1, <2>4 DEF StraysNoted, Strays
    <2>7. ~tangled => AttributesStand'
      BY <2>1, <2>3, <2>4 DEF AttributesStand
    <2>8. listed' \subseteq {w \in Values : attr[ValueOf[w]] # "absent"}
      BY <2>1 DEF AttributeTypeOK
    <2> QED
      BY <2>1, <2>4, <2>5, <2>6, <2>7, <2>8, EditEnds DEF AttributeTypeOK
  <1>15. ASSUME NEW h \in Editors, LinkWrite(h) PROVE AttributeInv'
    <2> DEFINE q == editor[h]
               link == {q.category} \X ({q.attr} \cap {a \in Attrs : attr[a] # "absent"})
    <2>1. /\ q.pc \in {"attach", "detach"} /\ EndEdit(h)
          /\ UNCHANGED <<attr, listed, categoryId, entry, tangled, astray, moved>>
          /\ q.pc = "attach" => attached' = attached \cup link
          /\ q.pc = "detach" => attached' = attached \ link
      BY <1>15 DEF LinkWrite
    <2>2. attached' \subseteq CategoryIds \X {a \in Attrs : attr[a] # "absent"}
      <3>1. q.category \in CategoryIds
        BY <2>1 DEF EditKnows
      <3> QED
        BY <2>1, <3>1 DEF AttributeTypeOK
    <2>3. ~tangled /\ q.pc = "detach" =>
            \A i \in Items : categoryId[i] = q.category => entry[i][q.attr] = "none"
      BY DEF EditorsApart, EditHolds
    <2>4. ~tangled => \A i \in Items, a \in Attrs :
                        entry[i][a] # "none" /\ i \notin moved => <<categoryId[i], a>> \in attached'
      <3> SUFFICES ASSUME ~tangled, NEW i \in Items, NEW a \in Attrs, entry[i][a] # "none",
                          i \notin moved
                   PROVE  <<categoryId[i], a>> \in attached'
        OBVIOUS
      <3>1. <<categoryId[i], a>> \in attached
        BY DEF AttributesStand
      <3>2. q.pc = "detach" => <<categoryId[i], a>> \notin link
        BY <2>3
      <3> QED
        BY <2>1, <3>1, <3>2
    <2>5. StraysNoted' /\ (~tangled => AttributesStand')
      BY <2>1, <2>4 DEF StraysNoted, AttributesStand
    <2> QED
      BY <2>1, <2>2, <2>5, EditEnds DEF AttributeTypeOK
  <1>16. ASSUME NEW h \in Editors, SaveEntries(h) PROVE AttributeInv'
    <2> DEFINE q == editor[h]
               fits == \A a \in Attrs : /\ q.entries[a] # "none" => attr[a] # "absent"
                                        /\ q.entries[a] \in Values => q.entries[a] \in listed
               e == q.entries
               i == q.item
               k == CategoryOf(q)
    <2>1. /\ q.pc = "save" /\ EndEdit(h) /\ UNCHANGED <<attr, listed, attached, tangled>>
      BY <1>16 DEF SaveEntries
    <2>2. CASE ~fits
      BY <1>9, <1>16, <2>1, <2>2 DEF SaveEntries
    <2>3. CASE fits
      <3>1. /\ WriteCategoryId(q) /\ entry' = [entry EXCEPT ![i] = e]
            /\ astray' = (astray \/ \E a \in Attrs : Strays(a, e[a]))
            /\ moved' = moved \ {i}
        BY <1>16, <2>3 DEF SaveEntries
      <3>2. /\ i \in Items /\ e \in [Attrs -> Entries \ {"bare"}]
            /\ q.category \in CategoryIds \cup {Blank}
        BY <2>1 DEF EditKnows, AttributeTypeOK, EditorRows
      <3>3. ~tangled => \A a \in Attrs : e[a] # "none" => <<k, a>> \in attached
        BY <2>1 DEF EditorsApart, EditHolds
      <3>4. \A a \in Attrs : /\ e[a] # "none" => attr[a] # "absent"
                             /\ e[a] \in Values => e[a] \in listed
        BY <2>3
      <3>0. /\ categoryId' \in [Items -> CategoryIds]
            /\ \A j \in Items : categoryId'[j] = IF j = i THEN k ELSE categoryId[j]
        BY <3>1, <3>2 DEF WriteCategoryId, CategoryOf, AttributeTypeOK
      <3> HIDE DEF q, e, i, k, fits
      <3>5. \A j \in Items : entry'[j] = IF j = i THEN e ELSE entry[j]
        BY <3>1 DEF AttributeTypeOK
      <3>6. e \in [Attrs -> Entries] /\ \A a \in Attrs : e[a] # "bare"
        BY <3>2
      <3>7. entry' \in [Items -> [Attrs -> Entries]]
        BY <3>1, <3>6 DEF AttributeTypeOK
      <3>8. \A j \in Items, a \in Attrs :
              /\ entry'[j][a] # "none" => attr[a] # "absent"
              /\ entry'[j][a] \in Values => entry'[j][a] \in listed
        BY <3>4, <3>5 DEF AttributeTypeOK
      <3>9. astray' \in BOOLEAN /\ moved' \subseteq Items
        BY <3>1 DEF AttributeTypeOK
      <3>10. StraysNoted'
        BY <3>1, <3>5 DEF StraysNoted, Strays
      <3>11. ~tangled => AttributesStand'
        <4> SUFFICES ASSUME ~tangled PROVE AttributesStand'
          OBVIOUS
        <4>1. \A v \in listed' : attr'[ValueOf[v]] = "list"
          BY <2>1 DEF AttributesStand
        <4>2. \A j \in Items, a \in Attrs :
                /\ entry'[j][a] = "bare" => astray'
                /\ entry'[j][a] # "none" /\ j \notin moved' => <<categoryId'[j], a>> \in attached
          <5> SUFFICES ASSUME NEW j \in Items, NEW a \in Attrs
                       PROVE  /\ entry'[j][a] = "bare" => astray'
                              /\ entry'[j][a] # "none" /\ j \notin moved' => <<categoryId'[j], a>> \in attached
            OBVIOUS
          <5>1. CASE j = i
            BY <3>0, <3>3, <3>5, <3>6, <5>1
          <5>2. CASE j # i
            <6>1. entry'[j][a] = entry[j][a] /\ categoryId'[j] = categoryId[j]
              BY <3>0, <3>5, <5>2
            <6>2. (astray => astray') /\ (j \in moved => j \in moved')
              BY <3>1, <3>9, <5>2
            <6>3. /\ entry[j][a] = "bare" => astray
                  /\ entry[j][a] # "none" /\ j \notin moved => <<categoryId[j], a>> \in attached
              BY DEF AttributesStand
            <6> QED
              BY <6>1, <6>2, <6>3, Zenon
          <5> QED
            BY <5>1, <5>2
        <4> QED
          BY <2>1, <4>1, <4>2 DEF AttributesStand
      <3> QED
        BY <2>1, <3>0, <3>7, <3>8, <3>9, <3>10, <3>11, EditEnds DEF AttributeTypeOK, q
    <2> QED
      BY <2>2, <2>3
  <1>21. ASSUME NEW h \in Editors, WriteCategory(h) PROVE AttributeInv'
    <2> DEFINE q == editor[h]
    <2>1. /\ q.pc = "move" /\ EndEdit(h) /\ WriteCategoryId(q)
          /\ moved' = IF categoryId[q.item] = q.category THEN moved ELSE moved \cup {q.item}
          /\ UNCHANGED <<attr, listed, attached, entry, tangled, astray>>
      BY <1>21 DEF WriteCategory
    <2>2. q.item \in Items /\ q.category \in CategoryIds
      BY <2>1 DEF EditKnows
    <2>3. /\ categoryId' \in [Items -> CategoryIds]
          /\ \A j \in Items : categoryId'[j] = IF j = q.item THEN q.category ELSE categoryId[j]
      BY <2>1, <2>2, AttributeAssumption DEF WriteCategoryId, AttributeTypeOK
    <2>4. moved' \subseteq Items
      BY <2>1, <2>2 DEF AttributeTypeOK
    <2>5. \A j \in Items : j \notin moved' => j \notin moved /\ categoryId'[j] = categoryId[j]
      BY <2>1, <2>3
    <2>6. StraysNoted' /\ (~tangled => AttributesStand')
      BY <2>1, <2>5 DEF StraysNoted, AttributesStand
    <2> QED
      BY <2>1, <2>3, <2>4, <2>6, EditEnds DEF AttributeTypeOK
  <1>17. ASSUME NEW h \in Editors, EditorDies(h) PROVE AttributeInv'
    BY <1>9, <1>17 DEF EditorDies
  <1>18. CASE UNCHANGED attributeVars
    BY <1>18 DEF attributeVars, AttributeTypeOK, StraysNoted, AttributesStand, EditorsApart,
                 EditHolds, EditKnows, ValuesOf, Uses, CategoryOf
  <1> QED
    BY <1>1, <1>2, <1>3, <1>4, <1>5, <1>6, <1>7, <1>8, <1>10, <1>11, <1>12, <1>13, <1>14,
       <1>15, <1>16, <1>17, <1>18, <1>20, <1>21 DEF AttributeNext

\* Whatever overlaps, values, links and entries have their rows.  As long as
\* handlers do not overlap, values have a list, products that were not moved
\* without new attributes use those of their category, and a value is lost only
\* where a foreign one was taken (Attributes.AttributeTypeOK,
\* Attributes.AttributesStand).
THEOREM AttributesAreKept == AttributeSpec => [](AttributeTypeOK /\ AttributesStand)
  <1>1. AttributeInv => AttributeTypeOK /\ AttributesStand
    BY DEF AttributeInv
  <1> QED
    BY <1>1, AttributeInitInv, AttributeStep, PTL DEF AttributeSpec

-----------------------------------------------------------------------------
(* Opening hours.                                                          *)

\* How many days ago a day was: today's window runs from its opening on, the
\* one of yesterday only overnight, and an older one not at all.
Ago(d) == (today - d) % WeekLength
Yesterday == IF today = 0 THEN WeekLength - 1 ELSE today - 1

LEMMA AgoIs ==
  ASSUME OpeningTypeOK, NEW d \in Days
  PROVE  /\ Ago(d) = IF d <= today THEN today - d ELSE today - d + WeekLength
         /\ Ago(d) \in Nat
         /\ Ago(d) = 0 <=> d = today
         /\ Ago(d) = 1 <=> d = Yesterday
         /\ (d + 1) % WeekLength = IF d = WeekLength - 1 THEN 0 ELSE d + 1
  <1>1. today \in 0..WeekLength - 1 /\ d \in 0..WeekLength - 1 /\ WeekLength \in Nat /\ WeekLength > 1
    BY OpeningAssumption DEF OpeningTypeOK, Days
  <1>2. Ago(d) = IF d <= today THEN today - d ELSE today - d + WeekLength
    <2>1. CASE d <= today
      BY <1>1, <2>1 DEF Ago
    <2>2. CASE d > today
      BY <1>1, <2>2 DEF Ago
    <2> QED
      BY <1>1, <2>1, <2>2
  <1>3. (d + 1) % WeekLength = IF d = WeekLength - 1 THEN 0 ELSE d + 1
    BY <1>1
  <1> QED
    BY <1>1, <1>2, <1>3 DEF Yesterday

LEMMA LastsBounded ==
  ASSUME NEW h \in DayHours
  PROVE  /\ h.open \in 0..DayLength - 1 /\ h.close \in 0..DayLength - 1
         /\ Lasts(h) = IF h.close > h.open THEN h.close - h.open
                       ELSE h.close - h.open + DayLength
         /\ Lasts(h) \in 1..DayLength
  <1>1. /\ h.open \in 0..DayLength - 1 /\ h.close \in 0..DayLength - 1
        /\ DayLength \in Nat /\ DayLength > 0
    BY OpeningAssumption DEF DayHours, Minutes
  <1>2. CASE h.open = h.close
    BY <1>1, <1>2 DEF Lasts
  <1>3. CASE h.close > h.open
    BY <1>1, <1>3 DEF Lasts
  <1>4. CASE h.close < h.open
    BY <1>1, <1>4 DEF Lasts
  <1> QED
    BY <1>1, <1>2, <1>3, <1>4

\* When a window runs.
LEMMA RunsWhen ==
  ASSUME OpeningTypeOK, NEW d \in Days, openingHours[d] # ClosedDay
  PROVE  WindowRuns(d) <=>
           \/ /\ Ago(d) = 0 /\ minute >= openingHours[d].open
              /\ Overnight(openingHours[d]) \/ minute < openingHours[d].close
           \/ Ago(d) = 1 /\ Overnight(openingHours[d]) /\ minute < openingHours[d].close
  <1> DEFINE h == openingHours[d]
             k == Ago(d)
             n == Lasts(h)
  <1>1. h \in DayHours
    BY DEF OpeningTypeOK
  <1>2. /\ h.open \in 0..DayLength - 1 /\ h.close \in 0..DayLength - 1
        /\ n = IF h.close > h.open THEN h.close - h.open ELSE h.close - h.open + DayLength
        /\ n \in 1..DayLength
    BY <1>1, LastsBounded
  <1>3. minute \in 0..DayLength - 1 /\ DayLength \in Nat /\ k \in Nat
    BY OpeningAssumption, AgoIs DEF OpeningTypeOK, Minutes
  <1>4. WindowRuns(d) <=> k * DayLength + minute - h.open \in 0..n - 1
    BY DEF WindowRuns, SinceOpening, Ago
  <1>5. Overnight(h) <=> h.close <= h.open
    BY DEF Overnight
  <1> HIDE DEF h, k, n
  <1>6. CASE k = 0
    BY <1>2, <1>3, <1>4, <1>5, <1>6 DEF h, k
  <1>7. CASE k = 1
    BY <1>2, <1>3, <1>4, <1>5, <1>7 DEF h, k
  <1>8. CASE k >= 2
    <2>1. k * DayLength >= 2 * DayLength /\ k * DayLength \in Int
      BY <1>3, <1>8
    <2>2. ~(k * DayLength + minute - h.open \in 0..n - 1)
      BY <1>2, <1>3, <2>1
    <2> QED
      BY <1>3, <1>4, <1>8, <2>2 DEF k
  <1> QED
    BY <1>3, <1>6, <1>7, <1>8

LEMMA HoursFollow == OpeningTypeOK => HoursAreKept
  <1> SUFFICES ASSUME OpeningTypeOK, IsStoreOpenNow # MeantOpen PROVE
        \E d \in Days :
          /\ (d + 1) % WeekLength = today /\ openingHours[d] # openingHours[today]
          /\ \E h \in {openingHours[d], openingHours[today]} : Overnight(h) /\ minute < h.close
    BY DEF HoursAreKept
  <1> DEFINE y == Yesterday
             H == openingHours[today]
             Y == openingHours[y]
             \* Before the end of a window that runs past midnight.
             Early(h) == h # ClosedDay /\ Overnight(h) /\ minute < h.close
             Late(h) == h # ClosedDay /\ minute >= h.open /\ (Overnight(h) \/ minute < h.close)
  <1>1. /\ today \in Days /\ y \in Days /\ y # today
        /\ (y + 1) % WeekLength = today /\ minute \in 0..DayLength - 1
    <2>1. today \in 0..WeekLength - 1 /\ WeekLength \in Nat /\ WeekLength > 1
      BY OpeningAssumption DEF OpeningTypeOK, Days
    <2>2. y \in 0..WeekLength - 1 /\ y # today
      BY <2>1 DEF Yesterday
    <2>3. (y + 1) % WeekLength = IF y = WeekLength - 1 THEN 0 ELSE y + 1
      BY <2>2, AgoIs DEF Days
    <2> QED
      BY <2>1, <2>2, <2>3 DEF Yesterday, Days, OpeningTypeOK, Minutes
  <1>2. ~NoHours
    BY DEF IsStoreOpenNow, MeantOpen
  <1>3. MeantOpen <=> Late(H) \/ Early(Y)
    <2>1. \A d \in Days : WindowRuns(d) <=>
            (d = today /\ Late(openingHours[d])) \/ (d = y /\ Early(openingHours[d]))
      BY RunsWhen, AgoIs DEF WindowRuns
    <2> QED
      BY <1>1, <1>2, <2>1 DEF MeantOpen
  <1>4. IsStoreOpenNow <=> Late(H) \/ Early(H)
    <2>1. H # ClosedDay => H.open \in 0..DayLength - 1 /\ H.close \in 0..DayLength - 1
      BY <1>1, LastsBounded DEF OpeningTypeOK
    <2> HIDE DEF H
    <2>2. CASE H = ClosedDay
      BY <1>2, <2>2 DEF IsStoreOpenNow, H
    <2>3. CASE H # ClosedDay /\ Overnight(H)
      BY <1>2, <2>3 DEF IsStoreOpenNow, H
    <2>4. CASE H # ClosedDay /\ ~Overnight(H)
      BY <1>1, <1>2, <2>1, <2>4 DEF IsStoreOpenNow, H
    <2> QED
      BY <2>2, <2>3, <2>4
  <1>5. Y # H
    BY <1>3, <1>4
  <1>6. Early(Y) \/ Early(H)
    BY <1>3, <1>4
  <1> HIDE DEF Y, H
  <1>7. \E h \in {Y, H} : Overnight(h) /\ minute < h.close
    BY <1>6
  <1> QED
    BY <1>1, <1>5, <1>7 DEF Y, H

LEMMA OpeningInitTypes == OpeningInit => OpeningTypeOK
  BY OpeningAssumption DEF OpeningInit, OpeningTypeOK, Days, Minutes

LEMMA OpeningStep ==
  ASSUME OpeningTypeOK, [OpeningNext]_openingVars
  PROVE  OpeningTypeOK'
  <1>1. CASE MinutePasses
    <2>1. minute' \in Minutes
      BY <1>1, OpeningAssumption DEF MinutePasses, OpeningTypeOK, Minutes
    <2>2. today' \in Days
      BY <1>1, OpeningAssumption DEF MinutePasses, OpeningTypeOK, Days
    <2> QED
      BY <1>1, <2>1, <2>2 DEF MinutePasses, OpeningTypeOK
  <1>2. ASSUME NEW d \in Days, ToggleDay(d) PROVE OpeningTypeOK'
    <2>1. DEFAULT_DAY \in DayHours
      BY OpeningAssumption DEF DEFAULT_DAY, DayHours, Minutes
    <2> QED
      BY <1>2, <2>1 DEF ToggleDay, OpeningTypeOK
  <1>3. ASSUME NEW d \in Days, NEW t \in Minutes, NEW f \in {"open", "close"}, SetTime(d, f, t)
        PROVE  OpeningTypeOK'
    <2>1. openingHours[d] \in DayHours
      BY <1>3 DEF SetTime, OpeningTypeOK
    <2>2. [openingHours[d] EXCEPT ![f] = t] \in DayHours
      BY <2>1 DEF DayHours
    <2> QED
      BY <1>3, <2>2 DEF SetTime, OpeningTypeOK
  <1>4. CASE UNCHANGED openingVars
    BY <1>4 DEF openingVars, OpeningTypeOK
  <1> QED
    BY <1>1, <1>2, <1>3, <1>4 DEF OpeningNext

\* A store is open when its seller means it to be, but for the hours after
\* midnight (Opening.OpeningTypeOK, Opening.HoursAreKept).
THEOREM HoursStayKept == OpeningSpec => [](OpeningTypeOK /\ HoursAreKept)
  BY HoursFollow, OpeningInitTypes, OpeningStep, PTL DEF OpeningSpec

=============================================================================
