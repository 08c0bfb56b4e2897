------------------------------ MODULE CJsonTree ------------------------------
(***************************************************************************)
(* The items of cJSON.c on the heap: every value is a cell with a next, a  *)
(* prev and a child pointer, a list is the chain behind its child, and an  *)
(* item owns its value string and its name (unless the name is a constant  *)
(* of the caller, or the item is a reference to another one's contents).   *)
(*                                                                         *)
(* A client holds the items that functions returned to it and calls the    *)
(* library on them in any order, with any allocation failing.  What the    *)
(* library cannot see is left to the client, as cJSON.h asks: no item is   *)
(* put into two lists or into itself, an array gets items and an object    *)
(* members, a list is not changed while a reference to it exists.          *)
(*                                                                         *)
(* The recursion is RECURSIVE operators: nothing is proved here.           *)
(***************************************************************************)
EXTENDS Integers, Sequences, SequencesExt, FiniteSetsExt

CONSTANTS Cells,      \* the heap: 1 .. n; 0 is NULL
          MemberNames, \* records [text, lower]: a name and what tolower makes of it
          Leaves      \* records [type, value]: items without children

VARIABLES cell,     \* what each cell holds, Free when it is not allocated
          strings,  \* string blocks in use, of names and of values
          fault,    \* something freed was used, or something that is no block was freed
          kept,     \* the items whose addresses the client keeps: those in no list
          known,    \* history: calls without memory that the library got wrong
          calls     \* how often the library was called

treeVars == <<cell, strings, fault, kept, known, calls>>

Lists == {"array", "object"}
NoName == [text |-> "", lower |-> ""]
Free == [type |-> "free"]

\* cJSON_New_Item zeroes the cell.  The value is a number or a string of its
\* own block.  The name is none, a block of the heap ("heap"), a constant of the
\* caller ("const"), or such a constant that is not marked as one ("stray").  A
\* reference (cJSON_IsReference) shares the contents of the item ref.
Fresh(type) == [type |-> type, next |-> 0, prev |-> 0, child |-> 0, value |-> "",
                name |-> NoName, named |-> "no", ref |-> 0]

(***************************************************************************)
(* A heap m: the variables, the allocations that will succeed, and the     *)
(* item the last function returned.                                        *)
(***************************************************************************)
Heap(left) == [cell |-> cell, strings |-> strings, left |-> left, fault |-> fault,
               known |-> known, item |-> 0]
At(m, c) == m.cell[c]
Used(m) == {c \in Cells : At(m, c) # Free}
\* cJSON_IsArray, cJSON_IsObject and the others: false of NULL.
Is(m, c, type) == c # 0 /\ At(m, c).type = type
Set(m, c, f, x) == IF c \in Used(m) THEN [m EXCEPT !.cell[c] = [@ EXCEPT ![f] = x]]
                   ELSE [m EXCEPT !.fault = TRUE]
Returns(m, c) == [m EXCEPT !.item = c]

cJSON_New_Item(m, type) ==
  LET c == CHOOSE x \in Cells \ Used(m) : \A y \in Cells \ Used(m) : x <= y
  IN  IF m.left = 0 \/ Used(m) = Cells THEN Returns(m, 0)
      ELSE [m EXCEPT !.cell[c] = Fresh(type), !.left = @ - 1, !.item = c]

CanDup(m) == m.left > 0
\* cJSON_strdup of a name or a value: one block, if there is one.
Dup(m) == IF CanDup(m) THEN [m EXCEPT !.strings = @ + 1, !.left = @ - 1] ELSE m
FreeString(m) == [m EXCEPT !.strings = @ - 1]
HasBlock(i) == i.type = "string" /\ i.value # ""
OwnsBlock(i) == HasBlock(i) /\ i.ref = 0
\* The name, unless it is marked as a constant.
FreeName(m, i) == CASE i.named = "heap"  -> FreeString(m)
                    [] i.named = "stray" -> [m EXCEPT !.fault = TRUE]
                    [] OTHER -> m

RECURSIVE cJSON_Delete(_, _)
\* An item, what is below it unless it is a reference, and what follows it.
cJSON_Delete(m, c) ==
  LET i     == At(m, c)
      below == IF i.ref = 0 /\ i.child # 0 THEN cJSON_Delete(m, i.child) ELSE m
      value == IF OwnsBlock(i) THEN FreeString(below) ELSE below
      gone  == [FreeName(value, i) EXCEPT !.cell[c] = Free]
  IN  IF c = 0 THEN m
      ELSE IF i = Free THEN [m EXCEPT !.fault = TRUE]
      ELSE cJSON_Delete(gone, i.next)

\* Mutant: what was begun is forgotten.
FailsKeeping(m, c) == Returns(m, 0)
\* A function that fails deletes the item it had begun, and returns NULL.
Fails(m, c) == Returns(cJSON_Delete(m, c), 0)

RECURSIVE Chain(_, _)
\* The items of a list from c on.
Chain(m, c) == IF c = 0 \/ c \notin Used(m) THEN <<>> ELSE <<c>> \o Chain(m, At(m, c).next)
Items(m, p) == Chain(m, At(m, p).child)
get_array_item(m, p, which) ==
  IF which < Len(Items(m, p)) THEN Items(m, p)[which + 1] ELSE 0

Matches(m, c, name, sensitive) ==
  /\ At(m, c).named # "no"
  /\ IF sensitive THEN At(m, c).name.text = name.text ELSE At(m, c).name.lower = name.lower
\* The first member of that name.
get_object_item(m, p, name, sensitive) ==
  LET at == SelectInSeq(Items(m, p), LAMBDA c : Matches(m, c, name, sensitive))
  IN  IF at = 0 THEN 0 ELSE Items(m, p)[at]

suffix_object(m, prev, item) == Set(Set(m, prev, "next", item), item, "prev", prev)

cJSON_AddItemToArray(m, p, item) ==
  LET all == Items(m, p)
  IN  IF item = 0 THEN m
      ELSE IF all = <<>> THEN Set(m, p, "child", item)
      ELSE suffix_object(m, Last(all), item)

Rename(m, item, name, how) ==
  Set(Set(FreeName(m, At(m, item)), item, "name", name), item, "named", how)
cJSON_AddItemToObjectCS(m, p, name, item) ==
  IF item = 0 THEN m ELSE cJSON_AddItemToArray(Rename(m, item, name, "const"), p, item)
\* The name is copied first.  Without memory for it the item is not added, and a
\* name that is a constant loses its mark all the same.
cJSON_AddItemToObject(m, p, name, item) ==
  IF item = 0 THEN m
  ELSE IF CanDup(m) THEN cJSON_AddItemToArray(Rename(Dup(m), item, name, "heap"), p, item)
  ELSE IF At(m, item).named = "const"
       THEN [Set(m, item, "named", "stray") EXCEPT !.known = @ \cup {"stray"}]
  ELSE m

\* The item whose contents c has.
Origin(m, c) == IF At(m, c).ref = 0 THEN c ELSE At(m, c).ref
create_reference(m, item) ==
  LET r == cJSON_New_Item(m, "array")
  IN  IF r.item = 0 THEN r
      ELSE [r EXCEPT !.cell[r.item] = [At(m, item) EXCEPT !.name = NoName, !.named = "no",
                                        !.ref = Origin(m, item), !.next = 0, !.prev = 0]]

cJSON_DetachItemViaPointer(m, p, item) ==
  LET i  == At(m, item)
      m1 == IF i.prev # 0 THEN Set(m, i.prev, "next", i.next) ELSE m
      m2 == IF i.next # 0 THEN Set(m1, i.next, "prev", i.prev) ELSE m1
      m3 == IF item = At(m, p).child THEN Set(m2, p, "child", i.next) ELSE m2
  IN  IF item = 0 THEN Returns(m, 0)
      ELSE Returns(Set(Set(m3, item, "prev", 0), item, "next", 0), item)

cJSON_InsertItemInArray(m, p, which, new) ==
  LET after == get_array_item(m, p, which)
      prev  == At(m, after).prev
      m1    == Set(Set(Set(m, new, "next", after), new, "prev", prev), after, "prev", new)
  IN  IF after = 0 THEN cJSON_AddItemToArray(m, p, new)
      ELSE IF after = At(m, p).child THEN Set(m1, p, "child", new)
      ELSE Set(m1, prev, "next", new)

\* The replacement takes the place of the item, which is deleted.
cJSON_ReplaceItemViaPointer(m, p, item, new) ==
  LET i  == At(m, item)
      m1 == Set(Set(m, new, "next", i.next), new, "prev", i.prev)
      m2 == IF i.next # 0 THEN Set(m1, i.next, "prev", new) ELSE m1
      m3 == IF i.prev # 0 THEN Set(m2, i.prev, "next", new) ELSE m2
      m4 == IF At(m, p).child = item THEN Set(m3, p, "child", new) ELSE m3
  IN  IF item \in {0, new} THEN m
      ELSE cJSON_Delete(Set(Set(m4, item, "next", 0), item, "prev", 0), item)

\* The name is replaced even when there is no such member; without memory the
\* replacement is left without one.
replace_item_in_object(m, p, name, new, sensitive) ==
  LET r == IF CanDup(m) THEN Rename(Dup(m), new, name, "heap") ELSE Rename(m, new, NoName, "no")
  IN  cJSON_ReplaceItemViaPointer(r, p, get_object_item(r, p, name, sensitive), new)

\* cJSON_CreateNull to cJSON_CreateObject; a string needs its block as well.
Create(m, type, value) ==
  LET r == cJSON_New_Item(m, type)
  IN  IF r.item = 0 THEN r
      ELSE IF type # "string" THEN Set(r, r.item, "value", value)
      ELSE IF ~CanDup(r) THEN Fails(r, r.item)
      ELSE Set(Dup(r), r.item, "value", value)

RECURSIVE Filled(_, _, _, _)
\* The loop of the four cJSON_Create...Array functions: p is the previous element.
Filled(m, a, p, leaves) ==
  LET e == Create(m, Head(leaves).type, Head(leaves).value)
      l == IF p = 0 THEN Set(e, a, "child", e.item) ELSE suffix_object(e, p, e.item)
  IN  IF leaves = <<>> THEN Returns(m, a)
      ELSE IF e.item = 0 THEN Fails(e, a)
      ELSE Filled(l, a, e.item, Tail(leaves))
CreateArrayOf(m, leaves) ==
  LET a == Create(m, "array", "") IN IF a.item = 0 THEN a ELSE Filled(a, a.item, 0, leaves)

RECURSIVE cJSON_Duplicate(_, _, _), Copied(_, _, _, _)
\* A copy owns everything it has, whatever the item was; without memory for a
\* part of it the whole copy is deleted.
cJSON_Duplicate(m, c, recurse) ==
  LET i     == At(m, c)
      n     == cJSON_New_Item(m, i.type)
      value == Set(IF HasBlock(i) THEN Dup(n) ELSE n, n.item, "value", i.value)
      owned == i.named \in {"heap", "stray"}
      name  == CASE owned -> Rename(Dup(value), n.item, i.name, "heap")
                 [] i.named = "const" -> Rename(value, n.item, i.name, "const")
                 [] OTHER -> value
  IN  IF n.item = 0 THEN n
      ELSE IF HasBlock(i) /\ ~CanDup(n) THEN Fails(n, n.item)
      ELSE IF owned /\ ~CanDup(value) THEN Fails(value, n.item)
      ELSE IF ~recurse THEN Returns(name, n.item)
      ELSE Copied(name, n.item, 0, Items(m, c))
\* The loop over the children: last is the copy of the previous one.
Copied(m, copy, last, children) ==
  LET e == cJSON_Duplicate(m, Head(children), TRUE)
      l == IF last = 0 THEN Set(e, copy, "child", e.item) ELSE suffix_object(e, last, e.item)
  IN  IF children = <<>> THEN Returns(m, copy)
      ELSE IF e.item = 0 THEN Fails(e, copy)
      ELSE Copied(l, copy, e.item, Tail(children))

RECURSIVE cJSON_Compare(_, _, _, _)
cJSON_Compare(m, a, b, sensitive) ==
  LET as == Items(m, a)
      bs == Items(m, b)
      Has(p, e) == LET f == get_object_item(m, p, At(m, e).name, sensitive)
                   IN  f # 0 /\ cJSON_Compare(m, e, f, sensitive)
  IN  /\ a # 0 /\ b # 0 /\ At(m, a).type = At(m, b).type
      /\ \/ a = b
         \/ At(m, a).type \notin Lists /\ At(m, a).value = At(m, b).value
         \/ /\ At(m, a).type = "array"
            /\ Len(as) = Len(bs)
            /\ \A k \in DOMAIN as : cJSON_Compare(m, as[k], bs[k], sensitive)
         \/ /\ At(m, a).type = "object"
            /\ \A k \in DOMAIN as : Has(b, as[k])
            /\ \A k \in DOMAIN bs : Has(a, bs[k])

(***************************************************************************)
(* The client.                                                             *)
(***************************************************************************)
CONSTANTS Budgets,   \* how many allocations succeed
          MaxCalls   \* bound: calls of the library

Now == Heap(0)
Taken == Used(Now)
ListOf(c) == {p \in Taken : c \in ToSet(Items(Now, p)) /\ cell[p].ref = 0}
RECURSIVE Below(_)
Below(c) == {c} \cup IF cell[c].ref # 0 THEN {} ELSE UNION {Below(d) : d \in ToSet(Items(Now, c))}
\* What the client has, or finds below what it has.
Reached == UNION {Below(c) : c \in kept}
\* Nothing refers to the items of p, and p owns them.
Changeable(p) == /\ cell[p].type \in Lists /\ cell[p].ref = 0
                 /\ \A r \in Reached : cell[r].ref # p
\* An item the client may give to p, and one it may delete: nothing outside refers into it.
MayJoin(c, p) == c \in kept /\ p \notin Below(c)
MayGo(c) == \A r \in Reached \ Below(c) : cell[r].ref \notin Below(c)

Calls == calls < MaxCalls /\ ~fault /\ calls' = calls + 1
Becomes(m) == cell' = m.cell /\ strings' = m.strings /\ fault' = m.fault /\ known' = m.known
\* The client keeps what the function returned, unless that is NULL.
Obtains(m) == Becomes(m) /\ kept' = kept \cup ({m.item} \ {0})
\* It gave c to p; what p did not take is still its own.
Gives(m, p, c) == Becomes(m) /\ kept' = kept \ ({c} \cap ToSet(Items(m, p)))

Empty == [cell |-> [c \in Cells |-> Free], strings |-> 0, left |-> 99, fault |-> FALSE,
          known |-> {}, item |-> 0]
\* What an array of leaves leaves on the heap, and an object of two strings, the
\* name of one of which is a constant or not.
BuiltArray == CreateArrayOf(Empty, SetToSeq(Leaves))
BuiltObject(names, constant) ==
  LET leaf == CHOOSE l \in Leaves : l.type = "string"
      o == Create(Empty, "object", "")
      a == Create(o, leaf.type, leaf.value)
      b == Create(cJSON_AddItemToObject(a, o.item, names[1], a.item), leaf.type, leaf.value)
  IN  Returns(IF constant THEN cJSON_AddItemToObjectCS(b, o.item, names[2], b.item)
              ELSE cJSON_AddItemToObject(b, o.item, names[2], b.item), o.item)

InitTree ==
  /\ \E m \in {Empty, BuiltArray}
             \cup {BuiltObject(names, constant) :
                     names \in {n \in MemberNames \X MemberNames : n[1] # n[2]},
                     constant \in BOOLEAN} :
       /\ cell = m.cell /\ strings = m.strings /\ fault = m.fault /\ known = m.known
       /\ kept = {m.item} \ {0}
  /\ calls = 0

CreateItem == Calls /\ \E left \in Budgets :
                \/ \E type \in Lists : Obtains(Create(Heap(left), type, ""))
                \/ \E leaf \in Leaves : Obtains(Create(Heap(left), leaf.type, leaf.value))
CreateArray == Calls /\ \E leaves \in {<<>>} \cup {<<a, b>> : a, b \in Leaves}, left \in Budgets :
                 Obtains(CreateArrayOf(Heap(left), leaves))

AddToArray == Calls /\ \E p \in Reached, c \in kept :
  /\ Changeable(p) /\ Is(Now, p, "array") /\ MayJoin(c, p)
  /\ \/ Gives(cJSON_AddItemToArray(Now, p, c), p, c)
     \/ \E which \in 0 .. 1 : Gives(cJSON_InsertItemInArray(Now, p, which, c), p, c)

AddToObject == Calls /\ \E p \in Reached, c \in kept, name \in MemberNames, left \in Budgets :
  /\ Changeable(p) /\ Is(Now, p, "object") /\ MayJoin(c, p)
  /\ \/ Gives(cJSON_AddItemToObject(Heap(left), p, name, c), p, c)
     \/ Gives(cJSON_AddItemToObjectCS(Now, p, name, c), p, c)

\* cJSON_AddItemReferenceToArray and ...ToObject; in the second the reference is
\* lost when there is no memory for the name: nobody keeps its address.
AddReference == Calls /\ \E p, c \in Reached, name \in MemberNames, left \in Budgets :
  LET r == create_reference(Heap(left), c)
      m == IF Is(Now, p, "array") THEN cJSON_AddItemToArray(r, p, r.item)
           ELSE cJSON_AddItemToObject(r, p, name, r.item)
      lost == Is(Now, p, "object") /\ r.item # 0 /\ ~CanDup(r)
  IN  /\ Changeable(p) /\ p \notin Below(Origin(Now, c))
      /\ Becomes([m EXCEPT !.known = @ \cup IF lost THEN {"lost"} ELSE {}])
      /\ UNCHANGED kept

\* Where a member has no name (a replacement there was no memory for) the case-
\* sensitive functions would compare with NULL: the client uses the others.
MayAsk(p) == {s \in BOOLEAN : s => \A c \in ToSet(Items(Now, p)) : cell[c].named # "no"}
\* The item an index or a name leads to; a name may lead to none.
Picked(p) == {get_array_item(Now, p, which) : which \in 0 .. 2}
             \cup {get_object_item(Now, p, name, sensitive) : name \in MemberNames, sensitive \in MayAsk(p)}

Detach == Calls /\ \E p \in Reached : \E c \in Picked(p) :
  /\ Changeable(p) /\ c # 0
  /\ Obtains(cJSON_DetachItemViaPointer(Now, p, c))

DeleteFrom == Calls /\ \E p \in Reached : \E c \in Picked(p) :
  LET d == cJSON_DetachItemViaPointer(Now, p, c)
  IN  /\ Changeable(p) /\ c # 0 /\ MayGo(c)
      /\ Becomes(cJSON_Delete(d, d.item)) /\ UNCHANGED kept

Delete == Calls /\ \E c \in kept : MayGo(c) /\ Becomes(cJSON_Delete(Now, c)) /\ kept' = kept \ {c}

ReplaceInArray == Calls /\ \E p \in Reached, new \in kept, which \in 0 .. 2 :
  LET c == get_array_item(Now, p, which)
  IN  /\ Changeable(p) /\ Is(Now, p, "array") /\ MayJoin(new, p)
      /\ c # 0 /\ MayGo(c) /\ new \notin Below(c)
      /\ Gives(cJSON_ReplaceItemViaPointer(Now, p, c, new), p, new)

ReplaceInObject == Calls /\ \E p \in Reached : \E new \in kept, name \in MemberNames,
                                sensitive \in MayAsk(p), left \in Budgets :
  LET c == get_object_item(Now, p, name, sensitive)
  IN  /\ Changeable(p) /\ Is(Now, p, "object") /\ MayJoin(new, p)
      /\ c # 0 => MayGo(c)
      /\ Gives(replace_item_in_object(Heap(left), p, name, new, sensitive), p, new)

Duplicate == Calls /\ \E c \in Reached, recurse \in BOOLEAN, left \in Budgets :
               Obtains(cJSON_Duplicate(Heap(left), c, recurse))

\* The bound is reached, or the heap is spoilt.
Finished == (calls = MaxCalls \/ fault) /\ UNCHANGED treeVars

NextTree ==
  \/ CreateItem \/ CreateArray \/ AddToArray \/ AddToObject \/ AddReference
  \/ Detach \/ DeleteFrom \/ Delete \/ ReplaceInArray \/ ReplaceInObject \/ Duplicate
  \/ Finished

Spec == InitTree /\ [][NextTree]_treeVars
-----------------------------------------------------------------------------

TreeTypeOK ==
  /\ \A c \in Taken : {cell[c].next, cell[c].prev, cell[c].child} \subseteq Cells \cup {0}
  /\ strings \in Nat /\ kept \subseteq Cells /\ known \subseteq {"stray", "lost"}

\* After any calls of such a client, with memory running out in any of them.  An
\* item in use is one the client has, or is found below one, so that what a
\* failing function had begun is deleted; next and prev are each other's inverse
\* and no item is in two lists; nothing points to a freed cell or uses one; and
\* every string in use belongs to one item, so that it is freed once.  cJSON.c
\* makes two exceptions where there is no memory for a name: an item with a
\* constant name, given to cJSON_AddItemToObject (cJSON.c:2040), will have the
\* constant freed, and the item cJSON_AddItemReferenceToObject has made
\* (cJSON.c:2094) is lost.
HeapIsSound ==
  /\ fault => "stray" \in known
  /\ \A c \in Taken \ Reached : cell[c].ref # 0 /\ "lost" \in known
  /\ kept \subseteq Taken /\ \A c \in kept : ListOf(c) = {}
  /\ \A c \in Reached :
       LET i == cell[c]
       IN  /\ i.next # 0 => (i.next \in Taken /\ cell[i.next].prev = c)
           /\ i.prev # 0 => (i.prev \in Taken /\ cell[i.prev].next = c)
           /\ i.child # 0 => (i.child \in Taken /\ cell[i.child].prev = 0)
           /\ Cardinality(ListOf(c)) <= 1
           /\ ListOf(c) = {} => (i.next = 0 /\ i.prev = 0)
  /\ strings = Cardinality({c \in Taken : OwnsBlock(cell[c])})
               + Cardinality({c \in Taken : cell[c].named = "heap"})

\* What an item says: members by name in any order, elements by index.
RECURSIVE Meaning(_)
Meaning(c) ==
  LET s == Items(Now, c)
  IN  [type |-> cell[c].type, value |-> cell[c].value,
       parts |-> {<<IF cell[c].type = "object" THEN cell[s[k]].name.text ELSE "",
                    IF cell[c].type = "object" THEN 0 ELSE k, Meaning(s[k])>> : k \in DOMAIN s}]
RECURSIVE Proper(_)
\* Every object has its names, and none of them twice.
Proper(c) ==
  LET s == Items(Now, c)
  IN  /\ \A k \in DOMAIN s : Proper(s[k])
      /\ cell[c].type = "object" =>
           \A j, k \in DOMAIN s :
             /\ cell[s[j]].named # "no"
             /\ cell[s[j]].name.text = cell[s[k]].name.text => j = k

\* On trees whose objects have distinct names, however they were put together,
\* cJSON_Compare says exactly whether they mean the same.
CompareIsEquality ==
  \A a, b \in {c \in Reached : Proper(c)} :
    cJSON_Compare(Now, a, b, TRUE) <=> (Meaning(a) = Meaning(b))

\* Both.
TreesAreSound == HeapIsSound /\ CompareIsEquality
=============================================================================
