----------------------------- MODULE Addresses -----------------------------
(***************************************************************************)
(* One customer's delivery addresses and the default among them.  create   *)
(* is one transaction; update and remove read the row before theirs and    *)
(* decide by what they read whether other rows lose or get the default.    *)
(***************************************************************************)
EXTENDS Integers, FiniteSets

CONSTANTS
  MaxAddresses,   \* bound: addresses ever made
  Drafts          \* handlers that may be in flight at the same time

ASSUME AddressAssumption == MaxAddresses \in Nat /\ IsFiniteSet(Drafts)

VARIABLES
  address,   \* rows, numbered in order of creation
  draft,     \* handlers in flight
  unset,     \* the customer took the default off and set no other (history)
  raced      \* two handlers were in flight at the same time (history)

addressVars == <<address, draft, unset, raced>>

-----------------------------------------------------------------------------
AddressIds == 1..MaxAddresses
AddressRows == {"none", "plain", "default", "gone"}

KeptAddresses == {i \in AddressIds : address[i] \in {"plain", "default"}}
Defaults == {i \in AddressIds : address[i] = "default"}

\* wasDefault is what the handler read, wants what the request says.
DraftRows == [pc : {"idle", "create", "update", "remove"}, row : 0..MaxAddresses,
              wasDefault : BOOLEAN, wants : {"nothing", "default", "plain"}]
NoDraft == [pc |-> "idle", row |-> 0, wasDefault |-> FALSE, wants |-> "nothing"]

AddressTypeOK ==
  /\ address \in [AddressIds -> AddressRows]
  /\ draft \in [Drafts -> DraftRows]
  /\ \A d \in Drafts : draft[d].pc \in {"update", "remove"} =>
                         draft[d].row \in AddressIds /\ address[draft[d].row] # "none"
  /\ unset \in BOOLEAN
  /\ raced \in BOOLEAN

AddressInit ==
  /\ address = [i \in AddressIds |-> "none"]
  /\ draft = [d \in Drafts |-> NoDraft]
  /\ unset = FALSE
  /\ raced = FALSE

-----------------------------------------------------------------------------
StartDraft(d, q) ==
  /\ draft[d].pc = "idle"
  /\ draft' = [draft EXCEPT ![d] = q]
  /\ raced' = (raced \/ \E e \in Drafts \ {d} : draft[e].pc # "idle")
  /\ UNCHANGED <<address, unset>>

EndDraft(d) == draft' = [draft EXCEPT ![d] = NoDraft]

\* updateMany over the defaults there are.
Undefaulted == [j \in AddressIds |-> IF address[j] = "default" THEN "plain" ELSE address[j]]

\* The transaction's count, a snapshot: the first address becomes the default.
CreateAddress(d, wants) ==
  StartDraft(d, [NoDraft EXCEPT !.pc = "create",
                                !.wants = IF KeptAddresses = {} THEN "default" ELSE wants])

\* Its writes are current reads under locks, hence one step.
CreateAddressCommit(d) ==
  /\ draft[d].pc = "create"
  /\ \E i \in AddressIds :
       /\ address[i] = "none"
       /\ \A j \in AddressIds : j < i => address[j] # "none"
       /\ address' = IF draft[d].wants = "default"
                     THEN [Undefaulted EXCEPT ![i] = "default"]
                     ELSE [address EXCEPT ![i] = "plain"]
  /\ unset' = (unset /\ draft[d].wants # "default")
  /\ EndDraft(d)
  /\ UNCHANGED raced

UpdateAddress(d, i, wants) ==
  /\ i \in KeptAddresses
  /\ StartDraft(d, [pc |-> "update", row |-> i, wasDefault |-> address[i] = "default",
                    wants |-> wants])

UpdatedRows(q) ==
  IF q.wants = "nothing" THEN address
  ELSE [(IF q.wants = "default" /\ ~q.wasDefault THEN Undefaulted ELSE address)
          EXCEPT ![q.row] = q.wants]

\* A row that is gone fails the transaction.
UpdateAddressCommit(d) ==
  LET q == draft[d]
  IN /\ q.pc = "update"
     /\ IF q.row \in KeptAddresses
        THEN /\ address' = UpdatedRows(q)
             /\ unset' = (q.wants # "default" /\ (unset \/ (q.wasDefault /\ q.wants = "plain")))
        ELSE UNCHANGED <<address, unset>>
     /\ EndDraft(d)
     /\ UNCHANGED raced

RemoveAddress(d, i) ==
  /\ i \in KeptAddresses
  /\ StartDraft(d, [NoDraft EXCEPT !.pc = "remove", !.row = i,
                                   !.wasDefault = address[i] = "default"])

NewestOf(rows) == {i \in rows : \A j \in rows : j <= i}

\* The newest of the rest follows it.
Removed(q) ==
  [i \in AddressIds |->
     IF i = q.row THEN "gone"
     ELSE IF q.wasDefault /\ i \in NewestOf(KeptAddresses \ {q.row}) THEN "default"
     ELSE address[i]]

RemoveAddressCommit(d) ==
  LET q == draft[d]
  IN /\ q.pc = "remove"
     /\ address' = IF q.row \in KeptAddresses THEN Removed(q) ELSE address
     /\ EndDraft(d)
     /\ UNCHANGED <<unset, raced>>

DraftDies(d) ==
  /\ draft[d].pc # "idle"
  /\ EndDraft(d)
  /\ UNCHANGED <<address, unset, raced>>

AddressNext ==
  \E d \in Drafts :
    \/ \E w \in {"default", "plain"} : CreateAddress(d, w)
    \/ \E i \in AddressIds : \/ RemoveAddress(d, i)
                             \/ \E w \in {"nothing", "default", "plain"} : UpdateAddress(d, i, w)
    \/ CreateAddressCommit(d) \/ UpdateAddressCommit(d) \/ RemoveAddressCommit(d)
    \/ DraftDies(d)

AddressSpec == AddressInit /\ [][AddressNext]_addressVars

-----------------------------------------------------------------------------
\* However handlers overlap, there are never more defaults than handlers that
\* may overlap: a stale read makes one default too many, the next choice of a
\* default mends it.
DefaultsBounded == Drafts # {} => Cardinality(Defaults) <= Cardinality(Drafts)

\* As long as handlers do not overlap there is one default among the addresses,
\* and none only when the customer took it off himself.
OneDefault ==
  ~raced => /\ Cardinality(Defaults) <= 1
            /\ KeptAddresses # {} /\ ~unset => Defaults # {}

=============================================================================
