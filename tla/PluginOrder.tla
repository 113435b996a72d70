----------------------------- MODULE PluginOrder -----------------------------
(***************************************************************************)
(* The order in which an account injects its plugins: sortPlugins puts the *)
(* default ones first and inserts each plugin of the user, in the order    *)
(* they are given, where its injectionOrder asks for.                      *)
(*                                                                         *)
(* A plugin is a record with a name and two sequences of names, before and *)
(* after; its other fields are left alone.                                 *)
(***************************************************************************)
EXTENDS Naturals, Sequences, SequencesExt, FiniteSetsExt

\* findIndex of a name, from 1; 0 when there is none
IndexOfName(plugins, name) ==
    LET found == {i \in DOMAIN plugins : plugins[i].name = name}
    IN  IF found = {} THEN 0 ELSE Min(found)

\* The index of the first name: the comparison that should keep the smallest
\* one has the array of names on its left and is false.
BeforeIndex(plugins, names) ==
    IF names = <<>> THEN 0 ELSE IndexOfName(plugins, names[1])

\* Mutated form: the first name decides here too
AfterFirst(plugins, names) ==
    IF names = <<>> THEN 0 ELSE IndexOfName(plugins, names[1]) + 1
AfterIndex(plugins, names) ==
    IF names = <<>> THEN 0
    ELSE Max({IndexOfName(plugins, names[i]) + 1 : i \in DOMAIN names})

\* "Dependency not found" and "Conflicting dependency order"
Misplaced(plugins, plugin) ==
    \/ \E name \in Range(plugin.before \o plugin.after) : IndexOfName(plugins, name) = 0
    \/ /\ plugin.before # <<>>
       /\ AfterIndex(plugins, plugin.after) > BeforeIndex(plugins, plugin.before)

InjectionIndex(plugins, plugin) ==
    CASE plugin.before # <<>> -> BeforeIndex(plugins, plugin.before)
      [] plugin.before = <<>> /\ plugin.after # <<>> -> AfterIndex(plugins, plugin.after)
      [] OTHER -> Len(plugins) + 1

\* The plugins so far, unless one was misplaced
Placed(sorting, plugin) ==
    IF sorting.thrown \/ Misplaced(sorting.plugins, plugin)
    THEN [sorting EXCEPT !.thrown = TRUE]
    ELSE [sorting EXCEPT !.plugins = InsertAt(@, InjectionIndex(@, plugin), plugin)]

\* The first i plugins of the user have been placed.
SortUserPlugins(defaults, users) ==
    LET sorting[i \in 0..Len(users)] ==
            IF i = 0 THEN [thrown |-> FALSE, plugins |-> defaults]
            ELSE Placed(sorting[i - 1], users[i])
    IN  sorting[Len(users)]
=============================================================================
