----------------------------- MODULE Attributes -----------------------------
(***************************************************************************)
(* Attributes of categories, their values, and the products that use them. *)
(* Each removal counts its uses before it deletes, each save of a product  *)
(* that brings attributes validates them before it writes them.            *)
(***************************************************************************)
CONSTANTS
  CategoryIds,       \* categories
  Attrs,
  Values, ValueOf,   \* values and the attribute each belongs to
  Items,             \* products
  Links,             \* categories and attributes that admins link
  Payloads,          \* entries a save may bring, as the value of each attribute
  Editors,           \* handlers that may be in flight at the same time
  Blank

ASSUME AttributeAssumption ==
  /\ ValueOf \in [Values -> Attrs]
  /\ Values \cap {Blank, "none", "raw", "bare"} = {}
  /\ Blank \notin CategoryIds
  /\ Links \subseteq CategoryIds \X Attrs
  /\ Payloads \subseteq [Attrs -> Values \cup {"none", "raw"}]

VARIABLES
  attr,      \* Attribute rows: absent, with listed values, or free text and numbers
  listed,    \* AttributeValue rows
  attached,  \* CategoryAttribute rows
  categoryId, \* the category of each product
  entry,     \* ProductAttributeValue rows; "bare": the value was set to null
  editor,    \* handlers in flight
  tangled,   \* two handlers were in flight at the same time (history)
  astray,    \* a product was filed under another attribute's value (history)
  moved      \* products that took their entries to another category (history)

attributeVars == <<attr, listed, attached, categoryId, entry, editor, tangled, astray, moved>>

-----------------------------------------------------------------------------
Entries == Values \cup {"none", "raw", "bare"}
EditorRows == [pc : {"idle", "retype", "drop", "addValue", "countValue", "dropValue",
                     "detach", "attach", "save", "move"},
               attr : Attrs \cup {Blank}, value : Values \cup {Blank},
               type : {"list", "raw"}, item : Items \cup {Blank},
               category : CategoryIds \cup {Blank}, entries : [Attrs -> Entries \ {"bare"}]]
NoEditor == [pc |-> "idle", attr |-> Blank, value |-> Blank, type |-> "raw",
             item |-> Blank, category |-> Blank, entries |-> [a \in Attrs |-> "none"]]

\* Types, and the foreign keys: values, links and entries have their attribute.
AttributeTypeOK ==
  /\ attr \in [Attrs -> {"absent", "list", "raw"}]
  /\ listed \subseteq {v \in Values : attr[ValueOf[v]] # "absent"}
  /\ attached \subseteq CategoryIds \X {a \in Attrs : attr[a] # "absent"}
  /\ categoryId \in [Items -> CategoryIds]
  /\ entry \in [Items -> [Attrs -> Entries]]
  /\ \A i \in Items, a \in Attrs : /\ entry[i][a] # "none" => attr[a] # "absent"
                                   /\ entry[i][a] \in Values => entry[i][a] \in listed
  /\ editor \in [Editors -> EditorRows]
  /\ tangled \in BOOLEAN /\ astray \in BOOLEAN /\ moved \subseteq Items

AttributeInit ==
  /\ attr = [a \in Attrs |-> "absent"]
  /\ listed = {}
  /\ attached = {}
  /\ categoryId \in [Items -> CategoryIds]
  /\ entry = [i \in Items |-> [a \in Attrs |-> "none"]]
  /\ editor = [h \in Editors |-> NoEditor]
  /\ tangled = FALSE /\ astray = FALSE /\ moved = {}

-----------------------------------------------------------------------------
StartEdit(h, q) ==
  /\ editor[h].pc = "idle"
  /\ editor' = [editor EXCEPT ![h] = q]
  /\ tangled' = (tangled \/ \E i \in Editors \ {h} : editor[i].pc # "idle")
  /\ UNCHANGED <<attr, listed, attached, categoryId, entry, astray, moved>>

EndEdit(h) == editor' = [editor EXCEPT ![h] = NoEditor]

ValuesOf(a) == {v \in listed : ValueOf[v] = a}
Uses(a) == {i \in Items : entry[i][a] # "none"}

\* onDelete: SetNull
ClearEntries(values) ==
  entry' = [i \in Items |-> [a \in Attrs |->
              IF entry[i][a] \in values THEN "bare" ELSE entry[i][a]]]

CreateAttribute(a, type) ==
  /\ attr[a] = "absent"
  /\ attr' = [attr EXCEPT ![a] = type]
  /\ UNCHANGED <<listed, attached, categoryId, entry, editor, tangled, astray, moved>>

\* A list with values stays one; free text may become a list at any time.
UpdateType(h, a, type) ==
  /\ attr[a] # "absent"
  /\ ~(ValuesOf(a) # {} /\ attr[a] = "list" /\ type = "raw")
  /\ StartEdit(h, [NoEditor EXCEPT !.pc = "retype", !.attr = a, !.type = type])

Retype(h) ==
  LET q == editor[h]
  IN /\ q.pc = "retype"
     /\ attr' = IF attr[q.attr] = "absent" THEN attr ELSE [attr EXCEPT ![q.attr] = q.type]
     /\ EndEdit(h)
     /\ UNCHANGED <<listed, attached, categoryId, entry, tangled, astray, moved>>

RemoveAttribute(h, a) ==
  /\ attr[a] # "absent"
  /\ Uses(a) = {} /\ \A k \in CategoryIds : <<k, a>> \notin attached
  /\ StartEdit(h, [NoEditor EXCEPT !.pc = "drop", !.attr = a])

\* Entries restrict the delete; links and values go with the attribute, and the
\* values from the entries of others.
DropAttribute(h) ==
  LET a == editor[h].attr
  IN /\ editor[h].pc = "drop"
     /\ IF Uses(a) = {}
        THEN /\ attr' = [attr EXCEPT ![a] = "absent"]
             /\ listed' = listed \ ValuesOf(a)
             /\ attached' = attached \ (CategoryIds \X {a})
             /\ ClearEntries(ValuesOf(a))
        ELSE UNCHANGED <<attr, listed, attached, entry>>
     /\ EndEdit(h)
     /\ UNCHANGED <<categoryId, tangled, astray, moved>>

AddValue(h, v) ==
  /\ attr[ValueOf[v]] = "list" /\ v \notin listed
  /\ StartEdit(h, [NoEditor EXCEPT !.pc = "addValue", !.value = v])

CreateValue(h) ==
  LET v == editor[h].value
  IN /\ editor[h].pc = "addValue"
     /\ listed' = IF attr[ValueOf[v]] = "absent" THEN listed ELSE listed \cup {v}
     /\ EndEdit(h)
     /\ UNCHANGED <<attr, attached, categoryId, entry, tangled, astray, moved>>

RemoveValue(h, v) ==
  /\ v \in listed
  /\ StartEdit(h, [NoEditor EXCEPT !.pc = "countValue", !.value = v])

CountUses(h) ==
  LET v == editor[h].value
  IN /\ editor[h].pc = "countValue"
     /\ IF \E i \in Items, a \in Attrs : entry[i][a] = v
        THEN EndEdit(h)
        ELSE editor' = [editor EXCEPT ![h].pc = "dropValue"]
     /\ UNCHANGED <<attr, listed, attached, categoryId, entry, tangled, astray, moved>>

DropValue(h) ==
  LET v == editor[h].value
  IN /\ editor[h].pc = "dropValue"
     /\ listed' = listed \ {v}
     /\ ClearEntries({v})
     /\ EndEdit(h)
     /\ UNCHANGED <<attr, attached, categoryId, tangled, astray, moved>>

-----------------------------------------------------------------------------
AttachAttribute(h, k, a) ==
  /\ <<k, a>> \in Links
  /\ attr[a] # "absent"
  /\ StartEdit(h, [NoEditor EXCEPT !.pc = "attach", !.attr = a, !.category = k])

DetachAttribute(h, k, a) ==
  /\ <<k, a>> \in attached
  /\ {i \in Uses(a) : categoryId[i] = k} = {}
  /\ StartEdit(h, [NoEditor EXCEPT !.pc = "detach", !.attr = a, !.category = k])

LinkWrite(h) ==
  LET q == editor[h]
      link == {q.category} \X ({q.attr} \cap {a \in Attrs : attr[a] # "absent"})
  IN /\ \/ q.pc = "attach" /\ attached' = attached \cup link
        \/ q.pc = "detach" /\ attached' = attached \ link
     /\ EndEdit(h)
     /\ UNCHANGED <<attr, listed, categoryId, entry, tangled, astray, moved>>

\* validateAttributes: attributes of the category, a value or text by type.  That
\* the value is one of that attribute, or that there is one, is not asked; required
\* attributes only narrow what may be sent.
Valid(k, a, e) ==
  \/ e = "none"
  \/ <<k, a>> \in attached /\ attr[a] = "list" /\ e \in Values
  \/ <<k, a>> \in attached /\ attr[a] = "raw" /\ e = "raw"

\* A save that brings attributes validates them for the category it names, or
\* else for the one the product was read with.
SaveProduct(h, i, k, entries) ==
  /\ \A a \in Attrs : Valid(IF k = Blank THEN categoryId[i] ELSE k, a, entries[a])
  /\ StartEdit(h, [NoEditor EXCEPT !.pc = "save", !.item = i, !.category = k,
                                   !.entries = entries])

\* A save that names a category and brings no attributes validates nothing.
MoveProduct(h, i, k) ==
  StartEdit(h, [NoEditor EXCEPT !.pc = "move", !.item = i, !.category = k])

Strays(a, e) == e \in Values /\ ValueOf[e] # a

WriteCategoryId(q) ==
  categoryId' = IF q.category = Blank THEN categoryId
                ELSE [categoryId EXCEPT ![q.item] = q.category]

\* All rows anew; a value or attribute that is gone fails the transaction.
SaveEntries(h) ==
  LET q == editor[h]
  IN /\ q.pc = "save"
     /\ IF \A a \in Attrs : /\ q.entries[a] # "none" => attr[a] # "absent"
                            /\ q.entries[a] \in Values => q.entries[a] \in listed
        THEN /\ WriteCategoryId(q)
             /\ entry' = [entry EXCEPT ![q.item] = q.entries]
             /\ astray' = (astray \/ \E a \in Attrs : Strays(a, q.entries[a]))
             /\ moved' = moved \ {q.item}
        ELSE UNCHANGED <<categoryId, entry, astray, moved>>
     /\ EndEdit(h)
     /\ UNCHANGED <<attr, listed, attached, tangled>>

\* The entries stay as they are.
WriteCategory(h) ==
  LET q == editor[h]
  IN /\ q.pc = "move"
     /\ WriteCategoryId(q)
     /\ moved' = IF categoryId[q.item] = q.category THEN moved ELSE moved \cup {q.item}
     /\ EndEdit(h)
     /\ UNCHANGED <<attr, listed, attached, entry, tangled, astray>>

EditorDies(h) ==
  /\ editor[h].pc # "idle"
  /\ EndEdit(h)
  /\ UNCHANGED <<attr, listed, attached, categoryId, entry, tangled, astray, moved>>

AttributeNext ==
  \/ \E a \in Attrs, type \in {"list", "raw"} : CreateAttribute(a, type)
  \/ \E h \in Editors :
       \/ \E a \in Attrs : \/ RemoveAttribute(h, a)
                           \/ \E k \in CategoryIds :
                                AttachAttribute(h, k, a) \/ DetachAttribute(h, k, a)
                           \/ \E type \in {"list", "raw"} : UpdateType(h, a, type)
       \/ \E v \in Values : AddValue(h, v) \/ RemoveValue(h, v)
       \/ \E i \in Items, k \in CategoryIds \cup {Blank}, entries \in Payloads :
            SaveProduct(h, i, k, entries)
       \/ \E i \in Items, k \in CategoryIds : MoveProduct(h, i, k)
       \/ Retype(h) \/ DropAttribute(h) \/ CreateValue(h) \/ CountUses(h) \/ DropValue(h)
       \/ LinkWrite(h) \/ SaveEntries(h) \/ WriteCategory(h) \/ EditorDies(h)

AttributeSpec == AttributeInit /\ [][AttributeNext]_attributeVars

-----------------------------------------------------------------------------
\* As long as handlers do not overlap: only list attributes have values, and a
\* product uses attributes of its category only and keeps the value it was filed
\* under, so a filter of the catalog finds what it names.  Products that were
\* moved to another category without new attributes keep those of the old one,
\* and a value is lost where one was taken that belongs to another attribute.
AttributesStand ==
  ~tangled =>
    /\ \A v \in listed : attr[ValueOf[v]] = "list"
    /\ \A i \in Items, a \in Attrs :
         /\ entry[i][a] = "bare" => astray
         /\ entry[i][a] # "none" /\ i \notin moved => <<categoryId[i], a>> \in attached

=============================================================================
