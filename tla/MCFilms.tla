------------------------------ MODULE MCFilms ------------------------------
(* Films for TLC: what the calls may ask in each run, small sets of requests *)
(* that meet in two films and two labels.                                   *)
EXTENDS Films

CONSTANTS c1, c2, c3, f1, f2, x, y     \* calls, films, labels

KeptLabels == <<x>>

Edit(fs, folder, fields, replace, add, remove) ==
    [tool |-> "edit", films |-> fs, folder |-> folder, fields |-> fields,
     replace |-> replace, add |-> add, remove |-> remove]
Add(f, add) == [tool |-> "add", films |-> {f}, add |-> add]
Remove(f, confirm) == [tool |-> "delete", films |-> {f}, confirm |-> confirm]
TagDelete(l) == [tool |-> "tagDelete", films |-> {}, label |-> l]
TagCreate(l) == [tool |-> "tagCreate", films |-> {}, to |-> l]
TagRename(l, to) == [tool |-> "tagRename", films |-> {}, label |-> l, to |-> to]

(* c1 edits; c2 edits, adds or deletes; c3 adds, deletes, or changes tags.  *)
Requests == [c \in Call |->
    CASE c = c1 -> {Edit({f1}, c1, {}, NotGiven, {y}, {}),
                    Edit({f1, f2}, NotGiven, {"path", "mon"}, {x, y}, {}, {x})}
      [] c = c2 -> {Edit({f1}, Base, {"path"}, NotGiven, {}, {}),
                    Edit({f1}, Base, {}, NotGiven, {}, {}),
                    Edit({f1}, NotGiven, {"mon"}, {}, {y}, {}),
                    Add(f2, {y}), Remove(f1, TRUE), Remove(f1, FALSE)}
      [] c = c3 -> {Add(f2, {}), TagDelete(x), TagDelete(y), TagCreate(y), TagRename(x, y),
                    Remove(f1, TRUE)}]
=============================================================================
