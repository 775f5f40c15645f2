------------------------------ MODULE Objects ------------------------------
(***************************************************************************)
(* The objects of a configuration and what they inherit: objects/item.py,  *)
(* the groups of contacts and the passes of Config over them.              *)
(*                                                                         *)
(* The arbiter reads the definitions in the order of its files, keeps one  *)
(* object of each name, links the templates, lets every object inherit the *)
(* properties that it does not define, and puts the members of contact     *)
(* groups into the contacts of the objects that name the groups.  Objects  *)
(* inherit in place: what was computed for a template is stored in the     *)
(* template, and a list that is inherited is the list of the template, not *)
(* a copy.  lists holds the lists, and an attribute of a list property is  *)
(* the number of its list.                                                 *)
(*                                                                         *)
(* Three properties stand for all: contacts for the list properties, cmd   *)
(* for the string properties, cust for the custom variables.               *)
(***************************************************************************)
EXTENDS Integers, Sequences, FiniteSets, FiniteSetsExt, SequencesExt

CONSTANTS
    Configurations,     \* the definitions that the files may hold
    Known               \* the contacts that are defined

VARIABLES
    definitions,    \* the configuration: the objects, their kind, the groups
    left,           \* the definitions that are not read yet
    items,          \* ids of Items.items, in the order of the dictionary
    templates,      \* ids of Items.templates
    links,          \* the templates attribute of an object, once linked
    attrs,          \* the attributes of an object
    plus,           \* the value with a + of its contacts, or 0
    lists,          \* the lists, by number
    members,        \* the members of each contact group
    exploded,       \* the contact groups that are already exploded
    todo,           \* what is left of the current pass
    stage           \* the pass of load_config_file

vars == <<definitions, left, items, templates, links, attrs, plus, lists,
          members, exploded, todo, stage>>

None == 0
Absent == ""

\* A definition: use, definition_order, contacts as written (a record with a
\* + sign or not, or an empty sequence), contact_groups, cmd and cust.
Def(o) == definitions.objects[o]
Objs == DOMAIN definitions.objects
Name(o) == Def(o).name
is_tpl(o) == Def(o).tpl
NewList(p, s) == [plus |-> p, vals |-> s]

-----------------------------------------------------------------------------
(* Reading the definitions: create_objects and Items.add_items.            *)

\* The object that the new one has to give way to, if any.
Indexed(o) == SelectSeq(IF is_tpl(o) THEN templates ELSE items, LAMBDA x : Name(x) = Name(o))

\* The object that is kept.
manage_conflict(o) ==
    CASE Indexed(o) = <<>> -> o
      [] Indexed(o) # <<>> /\ Def(Indexed(o)[1]).order < Def(o).order -> Indexed(o)[1]
      [] OTHER -> o

\* The dictionary: an object that is there already keeps its place.
Put(seq, o) ==
    IF o \in Range(seq) THEN seq
    ELSE Append(SelectSeq(seq, LAMBDA x : Name(x) # Name(o)), o)

\* Item.__init__ and add_item or add_template, for the next definition.
AddItem(o) ==
    /\ stage = "creating" /\ o \in left
    /\ left' = left \ {o}
    /\ items' = IF is_tpl(o) THEN items ELSE Put(items, manage_conflict(o))
    /\ templates' = IF is_tpl(o) THEN Put(templates, manage_conflict(o)) ELSE templates
    /\ LET c == Def(o).contacts
           ref == Len(lists) + 1
       IN /\ lists' = IF c = <<>> THEN lists ELSE Append(lists, NewList(FALSE, c[1].vals))
          /\ plus' = [plus EXCEPT ![o] = IF c # <<>> /\ c[1].plus THEN ref ELSE None]
          /\ attrs' = [attrs EXCEPT ![o].contacts = IF c # <<>> /\ ~c[1].plus THEN ref ELSE None]
    /\ UNCHANGED <<definitions, links, members, exploded, todo, stage>>

-----------------------------------------------------------------------------
(* The templates.                                                          *)

find_tpl_by_name(n) == SelectSeq(templates, LAMBDA x : Name(x) = n)

\* A template that is unknown, or the object itself, is left out.
linkify_item_templates(o) ==
    SelectSeq(FlattenSeq([k \in DOMAIN Def(o).use |-> find_tpl_by_name(Def(o).use[k])]),
              LAMBDA t : t # o)

\* The templates that are reached from an object.
RECURSIVE Above(_, _)
Above(S, L) ==
    LET more == S \cup UNION {Range(L[t]) : t \in S} IN IF more = S THEN S ELSE Above(more, L)
InLoop(L) == {t \in Range(templates) : t \in Above(Range(L[t]), L)}

\* get_all_tags goes through the templates of an item without an end when
\* they form a loop; otherwise a loop is an error.
linkify_templates ==
    /\ stage = "creating" /\ left = {}
    /\ links' = [o \in Objs |-> linkify_item_templates(o)]
    /\ stage' = CASE Above(Range(items), links') \cap InLoop(links') # {} -> "crashed"
                  [] OTHER -> IF InLoop(links') # {} THEN "incorrect" ELSE "inheriting"
    /\ todo' = [pass |-> 1, objects |-> items \o templates]
    /\ UNCHANGED <<definitions, left, items, templates, attrs, plus, lists, members, exploded>>

-----------------------------------------------------------------------------
(* Inheritance.  The recursion works on a record of the attributes, the    *)
(* lists and the values with a +, and returns it with the value.           *)

\* F of x, with x evaluated once.
Once(x, F(_)) == CHOOSE r \in {F(v) : v \in {x}} : TRUE

Result(h, v) == [h EXCEPT !.value = v]
Fresh(h, l) == [h EXCEPT !.lists = Append(@, l), !.value = Len(h.lists) + 1]
SetContacts(h, o) == [h EXCEPT !.attrs[o].contacts = h.value]
IsSet(h) == h.value # None /\ h.lists[h.value] # NewList(FALSE, {})

\* get_plus_and_delete and the value with it: a new list, with what the
\* object has already got from its templates.
WithPlus(h, o) ==
    LET own == h.lists[h.plus[o]]
        got == h.attrs[o].contacts
        base == IF got = None THEN NewList(FALSE, {}) ELSE h.lists[got]
        new == NewList(base.plus \/ is_tpl(o), base.vals \cup own.vals)
    IN SetContacts([Fresh(h, new) EXCEPT !.plus[o] = None], o)

RECURSIVE get_property_by_inheritance(_, _)

\* What a template gave is added to what the object has got.
Taken(h, o) ==
    LET given == h.lists[h.value]
        kept == NewList(given.plus /\ is_tpl(o), given.vals)
        got == h.attrs[o].contacts
    IN SetContacts(CASE got # None -> Fresh(h, NewList(h.lists[got].plus \/ kept.plus,
                                                       h.lists[got].vals \cup kept.vals))
                     [] got = None /\ kept # given -> Fresh(h, kept)
                     [] OTHER -> h, o)

\* The templates in turn; a value without a + is the last one.
RECURSIVE FromTemplates(_, _, _)
FromTemplates(h, o, ts) ==
    IF ts = <<>>
    THEN IF h.plus[o] # None THEN WithPlus(h, o) ELSE Result(h, h.attrs[o].contacts)
    ELSE LET next(r) == CASE ~IsSet(r) -> FromTemplates(r, o, Tail(ts))
                          [] IsSet(r) /\ r.lists[r.value].plus ->
                                Once(Taken(r, o), LAMBDA v : FromTemplates(v, o, Tail(ts)))
                          [] OTHER -> Once(Taken(r, o), LAMBDA v :
                                           IF v.plus[o] # None THEN WithPlus(v, o) ELSE v)
         IN Once(get_property_by_inheritance(h, Head(ts)), next)

get_property_by_inheritance(h, o) ==
    IF h.attrs[o].contacts # None THEN Result(h, h.attrs[o].contacts)
    ELSE FromTemplates(h, o, links[o])

\* A string or a custom variable: the first value that is found.
RECURSIVE FirstOf(_, _, _)
FirstOf(a, o, prop) ==
    IF a[o][prop] # Absent THEN [a |-> a, v |-> a[o][prop]]
    ELSE LET RECURSIVE search(_, _)
             search(acc, ts) ==
                 IF acc.v # Absent \/ ts = <<>> THEN acc
                 ELSE Once(FirstOf(acc.a, Head(ts), prop), LAMBDA r : search(r, Tail(ts)))
         IN Once(search([a |-> a, v |-> Absent], links[o]),
                 LAMBDA r : [a |-> [r.a EXCEPT ![o][prop] = r.v], v |-> r.v])

\* Mutant: a null that was inherited stays.
apply_partial_inheritanceKeepsNull(a, o) == FirstOf(a, o, "cmd").a

\* A null that was inherited is removed.
apply_partial_inheritance(a, o) ==
    Once(FirstOf(a, o, "cmd"),
         LAMBDA r : IF r.v = "null" THEN [r.a EXCEPT ![o].cmd = Absent] ELSE r.a)

\* The contacts of one object, with all that the recursion stores on the way.
Inherit(h, o) == get_property_by_inheritance(h, o)

\* apply_inheritance, one object at a time.
ApplyInheritance ==
    /\ stage = "inheriting" /\ todo.objects # <<>>
    /\ LET o == Head(todo.objects)
           now == [attrs |-> attrs, lists |-> lists, plus |-> plus, value |-> None]
       IN \E h \in {Inherit(now, o)} : \E a \in {apply_partial_inheritance(h.attrs, o)} :
            /\ lists' = h.lists /\ plus' = h.plus
            /\ attrs' = FirstOf(a, o, "cust").a
    /\ todo' = [todo EXCEPT !.objects = Tail(@)]
    /\ UNCHANGED <<definitions, left, items, templates, links, members, exploded, stage>>

\* Contacts.explode inherits some of the string properties once more.
InheritAgain ==
    /\ stage = "inheriting" /\ todo.objects = <<>>
    /\ IF definitions.kind = "contact" /\ todo.pass = 1
       THEN todo' = [pass |-> 2, objects |-> items \o templates] /\ stage' = stage
       ELSE todo' = [pass |-> 1, objects |-> SetToSeq(DOMAIN members)] /\ stage' = "grouping"
    /\ UNCHANGED <<definitions, left, items, templates, links, attrs, plus, lists,
                   members, exploded>>

-----------------------------------------------------------------------------
(* Groups of contacts.                                                     *)

RECURSIVE get_contacts_by_explosion(_, _)

\* contactgroup_members, the groups of a group.
Subgroups(g, g2) == definitions.groups[g].groups

\* The members are collected in place, and a group that is met again in the
\* same explosion (rec_tag) gives what it has so far.
get_contacts_by_explosion(g2, g) ==
    IF g \in g2.tagged THEN g2
    ELSE LET RECURSIVE ask(_, _)
             ask(acc, subs) ==
                 IF subs = <<>> THEN acc
                 ELSE Once(get_contacts_by_explosion(acc, Head(subs)),
                           LAMBDA r : ask([r EXCEPT !.members[g] = @ \cup r.members[Head(subs)]],
                                          Tail(subs)))
         IN ask([g2 EXCEPT !.tagged = @ \cup {g}, !.exploded = @ \cup {g}],
                SetToSeq(Subgroups(g, g2)))

\* Contactgroups.explode, one group at a time, in any order.
ExplodeGroup(g) ==
    /\ stage = "grouping" /\ g \in Range(todo.objects)
    /\ todo' = [todo EXCEPT !.objects = SelectSeq(@, LAMBDA x : x # g)]
    /\ \E r \in {get_contacts_by_explosion([tagged |-> {}, exploded |-> exploded,
                                             members |-> members], g)} :
       \E needed \in {definitions.groups[g].groups # {} /\ g \notin exploded} :
          /\ members' = IF needed THEN r.members ELSE members
          /\ exploded' = IF needed THEN r.exploded ELSE exploded
    /\ UNCHANGED <<definitions, left, items, templates, links, attrs, plus, lists, stage>>

StartContacts ==
    /\ stage = "grouping" /\ todo.objects = <<>>
    /\ todo' = [pass |-> 1, objects |-> templates \o items]
    /\ stage' = "exploding"
    /\ UNCHANGED <<definitions, left, items, templates, links, attrs, plus, lists,
                   members, exploded>>

\* The members of the groups that the object names are added to the list of
\* its contacts, whoever else has that list.
explode_contact_groups_into_contacts(o, a, l) ==
    LET new == UNION {members[g] : g \in Def(o).groups \cap DOMAIN members} IN
    CASE new = {} -> [a |-> a, l |-> l]
      [] new # {} /\ a[o].contacts # None ->
            [a |-> a, l |-> [l EXCEPT ![a[o].contacts].vals = @ \cup new]]
      [] OTHER -> [a |-> [a EXCEPT ![o].contacts = Len(l) + 1],
                   l |-> Append(l, NewList(FALSE, new))]

\* Hosts.explode: the templates first, then the objects.
ExplodeContacts ==
    /\ stage = "exploding" /\ todo.objects # <<>>
    /\ LET r == explode_contact_groups_into_contacts(Head(todo.objects), attrs, lists)
       IN attrs' = r.a /\ lists' = r.l
    /\ todo' = [todo EXCEPT !.objects = Tail(@)]
    /\ UNCHANGED <<definitions, left, items, templates, links, plus, members, exploded, stage>>

contacts(o) == IF attrs[o].contacts = None THEN {} ELSE lists[attrs[o].contacts].vals

\* linkify_with_contacts and is_correct: an unknown contact or group of an
\* object is an error.
Linkify ==
    /\ stage = "exploding" /\ todo.objects = <<>>
    /\ stage' = IF \A o \in Range(items) : /\ contacts(o) \subseteq Known
                                           /\ Def(o).groups \subseteq DOMAIN members
                THEN "correct" ELSE "incorrect"
    /\ UNCHANGED <<definitions, left, items, templates, links, attrs, plus, lists,
                   members, exploded, todo>>

-----------------------------------------------------------------------------
Init ==
    /\ definitions \in Configurations
    /\ left = Objs
    /\ items = <<>> /\ templates = <<>>
    /\ links = [o \in Objs |-> <<>>]
    /\ attrs = [o \in Objs |-> [contacts |-> None, cmd |-> Def(o).cmd, cust |-> Def(o).cust]]
    /\ plus = [o \in Objs |-> None] /\ lists = <<>>
    /\ members = [g \in DOMAIN definitions.groups |-> definitions.groups[g].members]
    /\ exploded = {}
    /\ todo = [pass |-> 1, objects |-> <<>>]
    /\ stage = "creating"

Next ==
    \/ \E o \in Objs : AddItem(o)
    \/ linkify_templates
    \/ ApplyInheritance
    \/ InheritAgain
    \/ \E g \in DOMAIN members : ExplodeGroup(g)
    \/ StartContacts
    \/ ExplodeContacts
    \/ Linkify

Spec == Init /\ [][Next]_vars

-----------------------------------------------------------------------------
(* What the documentation says (objectinheritance.rst).                    *)

Inherited == stage \in {"grouping", "exploding", "correct"}
Exploded == stage \in {"correct", "incorrect"} /\ links # [o \in Objs |-> <<>>]
                /\ todo.objects = <<>>

\* The contacts of an object and whether they are open, that is to be added
\* to those of the next template: the object's own ones end the search, those
\* of its templates are taken in turn until one is not open.
RECURSIVE MeantContacts(_)
MeantContacts(o) ==
    LET c == Def(o).contacts
        RECURSIVE above(_, _)
        above(acc, ts) ==
            IF ts = <<>> THEN acc
            ELSE Once(MeantContacts(Head(ts)), LAMBDA m :
                      CASE m.vals = {} /\ ~m.plus -> above(acc, Tail(ts))
                        [] m.plus -> above(NewList(TRUE, acc.vals \cup m.vals), Tail(ts))
                        [] OTHER -> NewList(acc.plus, acc.vals \cup m.vals))
    IN IF c # <<>> /\ ~c[1].plus THEN NewList(FALSE, c[1].vals)
       ELSE Once(above(NewList(FALSE, {}), links[o]), LAMBDA m :
                 NewList(is_tpl(o) /\ (m.plus \/ c # <<>>),
                         m.vals \cup (IF c = <<>> THEN {} ELSE c[1].vals)))

RECURSIVE MeantValue(_, _)
\* The object's own value, or that of the first template that has one.
MeantValue(o, prop) ==
    IF Def(o)[prop] # Absent THEN Def(o)[prop]
    ELSE LET S == {k \in DOMAIN links[o] : MeantValue(links[o][k], prop) # Absent}
         IN IF S = {} THEN Absent ELSE MeantValue(links[o][Min(S)], prop)

NotNull(v) == IF v = "null" THEN Absent ELSE v

RECURSIVE AllBelow(_, _)
AllBelow(S, n) ==
    IF n = 0 THEN S ELSE AllBelow(S \cup UNION {definitions.groups[g].groups : g \in S}, n - 1)
MeantMembers(g) ==
    UNION {definitions.groups[x].members : x \in AllBelow({g}, Cardinality(DOMAIN members))}

\* One object of each name is kept, the one with the lowest definition_order,
\* in whatever order the files are read and duplicates met (manage_conflict
\* and the dictionaries of Items); templates are apart.
LowestOrderWins ==
    stage # "creating" => \A tpl \in BOOLEAN :
        LET S == {o \in Objs : is_tpl(o) = tpl}
            kept == Range(IF tpl THEN templates ELSE items)
        IN /\ {Name(o) : o \in kept} = {Name(o) : o \in S}
           /\ \A o \in kept : \A x \in S : Name(x) = Name(o) => Def(x).order >= Def(o).order
           /\ \A o, x \in kept : Name(x) = Name(o) => x = o

\* Every host ends up with the values that it or its templates define, the
\* own value first and then the templates in their order, a null cancels, and
\* additive values are added up: although the values are stored in the
\* templates on the way and the objects ask in any order (item.py 267-396).
InheritsWhatIsMeant ==
    Inherited /\ definitions.kind = "host" => \A o \in Range(items) :
        /\ attrs[o].cmd = NotNull(MeantValue(o, "cmd"))
        /\ attrs[o].cust = MeantValue(o, "cust")
        /\ stage = "grouping" => contacts(o) = MeantContacts(o).vals

\* Nobody is forgotten: every contact that an object is meant to have, from
\* its templates or its groups, is among its contacts in the end.
ContactsAreTold ==
    Exploded => \A o \in Range(items) :
        /\ MeantContacts(o).vals \subseteq contacts(o)
        /\ \A g \in Def(o).groups \cap DOMAIN members : MeantMembers(g) \subseteq contacts(o)

\* A contact group without a loop gets the members of all the groups below
\* it, in whatever order the groups are exploded (rec_tag, already_explode).
GroupsAreComplete ==
    stage \in {"exploding", "correct"} => \A g \in DOMAIN members :
        (\A x \in AllBelow({g}, 3) :
            \A y \in definitions.groups[x].groups : x \notin AllBelow({y}, 3))
        => members[g] = MeantMembers(g)

=============================================================================
