---------------------------- MODULE CategoryTree ----------------------------
(***************************************************************************)
(* The category tree of the catalog.  A move walks up from the proposed    *)
(* parent, one call per ancestor and at most WalkLimit of them, and then   *)
(* writes the parent by id; removal counts children and products first.    *)
(***************************************************************************)
EXTENDS Naturals

CONSTANTS
  Categories,
  Clerks,      \* handlers that may be in flight at the same time
  WalkLimit,   \* 32 in isSafeParent
  Top,         \* the parent of a root
  Absent       \* of a category without a row

ASSUME TreeAssumption ==
  WalkLimit \in Nat /\ Top \notin Categories /\ Absent \notin Categories /\ Top # Absent

VARIABLES
  parent,    \* the tree
  stocked,   \* categories with products
  clerk,     \* handlers in flight
  cut,       \* a walk ended at its limit (history)
  jumbled    \* two handlers were in flight at the same time (history)

treeVars == <<parent, stocked, clerk, cut, jumbled>>

-----------------------------------------------------------------------------
Existing == {c \in Categories : parent[c] # Absent}
ChildrenOf(c) == {d \in Categories : parent[d] = c}

ClerkRows == [pc : {"idle", "walk", "move", "delete"},
              self : Categories \cup {Absent}, target : Categories \cup {Top, Absent},
              cursor : Categories \cup {Top, Absent}, steps : 0..WalkLimit]
NoClerk == [pc |-> "idle", self |-> Absent, target |-> Absent, cursor |-> Absent, steps |-> 0]

\* Types, and the foreign keys hold: parents and categories of products exist.
TreeTypeOK ==
  /\ parent \in [Categories -> Categories \cup {Top, Absent}]
  /\ \A c \in Existing : parent[c] \in Existing \cup {Top}
  /\ stocked \subseteq Existing
  /\ clerk \in [Clerks -> ClerkRows]
  /\ cut \in BOOLEAN /\ jumbled \in BOOLEAN

TreeInit ==
  /\ parent = [c \in Categories |-> Absent]
  /\ stocked = {}
  /\ clerk = [h \in Clerks |-> NoClerk]
  /\ cut = FALSE /\ jumbled = FALSE

-----------------------------------------------------------------------------
StartClerk(h, q) ==
  /\ clerk[h].pc = "idle"
  /\ clerk' = [clerk EXCEPT ![h] = q]
  /\ jumbled' = (jumbled \/ \E i \in Clerks \ {h} : clerk[i].pc # "idle")
  /\ UNCHANGED <<parent, stocked, cut>>

EndClerk(h) == clerk' = [clerk EXCEPT ![h] = NoClerk]

\* The parent is looked up first; the foreign key looks again.
CreateCategory(c, p) ==
  /\ parent[c] = Absent
  /\ p \in Existing \cup {Top}
  /\ parent' = [parent EXCEPT ![c] = p]
  /\ UNCHANGED <<stocked, clerk, cut, jumbled>>

\* To the top without a walk.
UpdateParent(h, c, p) ==
  /\ c \in Existing /\ p \in (Existing \cup {Top}) \ {c}
  /\ StartClerk(h, [pc |-> IF p = Top THEN "move" ELSE "walk",
                    self |-> c, target |-> p, cursor |-> p, steps |-> 0])

\* One turn of isSafeParent's loop.
WalkStep(h) ==
  LET q == clerk[h]
  IN /\ q.pc = "walk"
     /\ q.cursor # Top /\ q.steps < WalkLimit
     /\ IF q.cursor = q.self
        THEN EndClerk(h)
        ELSE clerk' = [clerk EXCEPT
               ![h].cursor = IF q.cursor \in Existing THEN parent[q.cursor] ELSE Top,
               ![h].steps = @ + 1]
     /\ UNCHANGED <<parent, stocked, cut, jumbled>>

\* Out of the loop: at a root, or out of turns.
WalkDone(h) ==
  LET q == clerk[h]
  IN /\ q.pc = "walk"
     /\ q.cursor = Top \/ q.steps = WalkLimit
     /\ cut' = (cut \/ q.cursor # Top)
     /\ clerk' = [clerk EXCEPT ![h].pc = "move"]
     /\ UNCHANGED <<parent, stocked, jumbled>>

\* Slip: no foreign key on the parent.
MoveBlindly(h) ==
  LET q == clerk[h]
  IN /\ q.pc = "move"
     /\ parent' = IF q.self \in Existing THEN [parent EXCEPT ![q.self] = q.target] ELSE parent
     /\ EndClerk(h)
     /\ UNCHANGED <<stocked, cut, jumbled>>

\* An update by id; a parent that is gone fails the foreign key.
Move(h) ==
  LET q == clerk[h]
  IN /\ q.pc = "move"
     /\ parent' = IF q.self \in Existing /\ q.target \in Existing \cup {Top}
                  THEN [parent EXCEPT ![q.self] = q.target] ELSE parent
     /\ EndClerk(h)
     /\ UNCHANGED <<stocked, cut, jumbled>>

RemoveCategory(h, c) ==
  /\ c \in Existing \ stocked
  /\ ChildrenOf(c) = {}
  /\ StartClerk(h, [NoClerk EXCEPT !.pc = "delete", !.self = c])

\* Children or products that came since restrict the delete.
DeleteCategory(h) ==
  LET c == clerk[h].self
  IN /\ clerk[h].pc = "delete"
     /\ parent' = IF ChildrenOf(c) = {} /\ c \notin stocked
                  THEN [parent EXCEPT ![c] = Absent] ELSE parent
     /\ EndClerk(h)
     /\ UNCHANGED <<stocked, cut, jumbled>>

\* A seller's product comes into the category, or the last one leaves it.
FileProduct(c) ==
  /\ c \in Existing
  /\ stocked' = IF c \in stocked THEN stocked \ {c} ELSE stocked \cup {c}
  /\ UNCHANGED <<parent, clerk, cut, jumbled>>

ClerkDies(h) ==
  /\ clerk[h].pc # "idle"
  /\ EndClerk(h)
  /\ UNCHANGED <<parent, stocked, cut, jumbled>>

TreeNext ==
  \/ \E h \in Clerks :
       \/ \E c \in Categories : \/ RemoveCategory(h, c)
                                \/ \E p \in Categories \cup {Top} : UpdateParent(h, c, p)
       \/ WalkStep(h) \/ WalkDone(h) \/ Move(h) \/ DeleteCategory(h) \/ ClerkDies(h)
  \/ \E c \in Categories : \/ FileProduct(c)
                           \/ \E p \in Categories \cup {Top} : CreateCategory(c, p)

TreeSpec == TreeInit /\ [][TreeNext]_treeVars

-----------------------------------------------------------------------------
\* As long as moves do not overlap and no walk is cut off at its limit, every
\* category hangs from a root: the shop's tree, which is built downwards, and
\* the menus, which collect descendants without a limit, miss nothing and end.
TreeHasNoCycle ==
  ~jumbled /\ ~cut =>
    \A s \in SUBSET Existing : s # {} => \E c \in s : parent[c] \notin s

=============================================================================
