------------------------------- MODULE Films -------------------------------
(***************************************************************************)
(* The tools that change films and their tags (tools/movie_edits.go,       *)
(* tools/tags.go, resolveTags of tools/radarr.go): calls that run side by  *)
(* side against one Radarr.  An edit holds the films it found until it has *)
(* answered; an add, and the three tools that change tags, hold nothing.   *)
(* Each action is one request, with what the handler does up to the next.  *)
(* Any request may fail, and a write that has timed out or was cancelled   *)
(* may still be carried out, long after its call has ended and unlocked.   *)
(***************************************************************************)
EXTENDS Naturals, Sequences, FiniteSets

CONSTANTS
    Call,       \* the tool calls of a turn
    Film,       \* films, by their id in Radarr
    Tag,        \* the ids Radarr can give a tag: 1 .. n
    Label,      \* what a tag can be called
    Kept,       \* the labels of the tags Radarr begins with, tags 1 .. Len(Kept)
    Tagged,     \* the films that carry them
    Addable,    \* the films that Radarr may begin without
    Request,    \* Request[c]: what call c may be asked
    MaxFaults,  \* how many requests may fail
    Base,       \* what a film has that no call of the turn gave it
    NotGiven,   \* a parameter left out
    Absent, Gone,   \* a film never there, and one deleted
    Unused, Deleted,    \* in place of the label of a tag not there yet, or no more
    Nothing     \* no request, no copy

ASSUME FilmsAssumption == /\ Tag = 1 .. Cardinality(Tag)
                          /\ Kept \in Seq(Label)
                          /\ 1 .. Len(Kept) \subseteq Tag
                          /\ Tagged \cup Addable \subseteq Film
                          /\ MaxFaults \in Nat

Fields == {"path", "mon"}   \* mon stands for the fields that only the movie editor sets
FilmRecord == [path : Call \cup {Base}, mon : Call \cup {Base}, tags : SUBSET Tag]

ASSUME ValueAssumption == /\ {Absent, Gone, Nothing} \cap FilmRecord = {} /\ Absent # Gone
                          /\ {Unused, Deleted} \cap Label = {} /\ Unused # Deleted
                          /\ \A ls \in SUBSET Label : NotGiven # ls
                          /\ NotGiven \notin Call \cup {Base}
                          /\ \A c \in Call : Nothing \notin Request[c]

(* What the tools take.  Only movie_edit, of one film, has a folder: one    *)
(* that films began at, or that a call of the turn gives a film.  An edit   *)
(* that gives nothing is refused and sends nothing: not here.               *)
Single == {{f} : f \in Film}
EditRequests == [tool : {"edit"}, films : SUBSET Film, folder : {NotGiven, Base} \cup Call,
                 fields : SUBSET Fields, replace : {NotGiven} \cup SUBSET Label,
                 add : SUBSET Label, remove : SUBSET Label]
Gives(rq) == rq.folder # NotGiven \/ rq.fields # {} \/ rq.replace # NotGiven \/ rq.add \cup rq.remove # {}

ASSUME RequestAssumption == \A c \in Call : \A rq \in Request[c] :
    \/ rq \in EditRequests /\ Gives(rq) /\ (rq.folder # NotGiven => rq.films \in Single)
    \/ rq \in [tool : {"add"}, films : Single, add : SUBSET Label]
    \/ rq \in [tool : {"delete"}, films : Single, confirm : BOOLEAN]
    \/ rq \in [tool : {"tagDelete"}, films : {{}}, label : Label]
    \/ rq \in [tool : {"tagCreate"}, films : {{}}, to : Label]
    \/ rq \in [tool : {"tagRename"}, films : {{}}, label : Label, to : Label]

VARIABLES
    films,  \* the films Radarr has
    label,  \* label[t]: what tag t is called
    pc,     \* where each call is
    asks,   \* what it was asked
    at,     \* the tag operation an edit is at, the attempt an add is at
    ids,    \* the tags it has resolved; of a tag_delete, the tag it found
    want,   \* the labels it has yet to create
    copy,   \* the film that a point at a folder sends back
    seen,   \* the films a tag_delete read its tag on
    faults, \* how many requests, and rescans and moves waited for, have failed
    late,   \* the write a call has given up on: out yet, landed, or none
    mode, named     \* the films' locks: MultiLock's variables

vars == <<films, label, pc, asks, at, ids, want, copy, seen, faults, late, mode, named>>

Locks == INSTANCE MultiLock WITH Proc <- Call, Key <- Film

Stages == {"new", "find", "lock", "read", "point", "fields", "tags", "create", "again", "apply",
           "post", "delete", "strip", "drop", "put", "answer", "done", "failed"}
Writes == {"point", "fields", "create", "apply", "post", "delete", "strip", "drop", "put"}

TypeOK == /\ films \in [Film -> FilmRecord \cup {Absent, Gone}]
          /\ label \in [Tag -> Label \cup {Unused, Deleted}]
          /\ pc \in [Call -> Stages]
          /\ DOMAIN asks = Call /\ \A c \in Call : asks[c] \in Request[c] \cup {Nothing}
          /\ at \in [Call -> 1 .. 5]
          /\ ids \in [Call -> SUBSET Tag]
          /\ want \in [Call -> SUBSET Label]
          /\ copy \in [Call -> FilmRecord \cup {Nothing}]
          /\ seen \in [Call -> SUBSET Film]
          /\ faults \in 0 .. MaxFaults
          /\ late \in [Call -> Writes \cup {"none", "landed"}]
          /\ Locks!TypeOK

Init == /\ \E missing \in SUBSET Addable :
              films = [f \in Film |->
                         IF f \in missing THEN Absent
                         ELSE [path |-> Base, mon |-> Base,
                               tags |-> IF f \in Tagged THEN 1 .. Len(Kept) ELSE {}]]
        /\ label = [t \in Tag |-> IF t <= Len(Kept) THEN Kept[t] ELSE Unused]
        /\ pc = [c \in Call |-> "new"]
        /\ asks = [c \in Call |-> Nothing]
        /\ at = [c \in Call |-> 1]
        /\ ids = [c \in Call |-> {}]
        /\ want = [c \in Call |-> {}]
        /\ copy = [c \in Call |-> Nothing]
        /\ seen = [c \in Call |-> {}]
        /\ faults = 0
        /\ late = [c \in Call |-> "none"]
        /\ Locks!Init

-----------------------------------------------------------------------------
There(f) == films[f] \in FilmRecord
Labelled(ls) == {t \in Tag : label[t] \in ls}
Carried(f) == {label[t] : t \in films[f].tags}

(* The tag operations of an edit, in the order applyEdit makes them: those  *)
(* given, and a replacement with nothing, which clears the tags.            *)
OpIf(given, apply, labels) == IF given THEN <<[apply |-> apply, labels |-> labels]>> ELSE <<>>
Ops(rq) == OpIf(rq.replace # NotGiven, "replace", rq.replace)
           \o OpIf(rq.add # {}, "add", rq.add)
           \o OpIf(rq.remove # {}, "remove", rq.remove)

Op(c) == Ops(asks[c])[at[c]]
Creates(c) == asks[c].tool = "add" \/ Op(c).apply # "remove"
Refs(c) == IF asks[c].tool = "add" THEN asks[c].add ELSE Op(c).labels

Applied(op, tags, given) == CASE op.apply = "replace" -> given
                              [] op.apply = "add"     -> tags \cup given
                              [] op.apply = "remove"  -> tags \ given

Is(c, tools) == asks[c] # Nothing /\ asks[c].tool \in tools

Goes(c, to) == pc' = [pc EXCEPT ![c] = to]
Step(c, from, to) == pc[c] = from /\ Goes(c, to)

(* defer unlock()                                                           *)
Unlock(c) == IF mode[c] = "held" THEN Locks!Release(c) ELSE UNCHANGED <<mode, named>>

Ends(c, how) == Goes(c, how) /\ Unlock(c)

GoesOn(c, to) == Goes(c, to) /\ UNCHANGED <<mode, named>>

(* What an edit sends next: its fields, if any, and then each tag operation. *)
NextOp(c, i) == IF i > Len(Ops(asks[c])) THEN "answer" ELSE "tags"
AfterPoint(c) == IF asks[c].fields = {} THEN NextOp(c, 1) ELSE "fields"

(* Resolving labels to tags: those that are missing are created one by one, *)
(* each with the next id Radarr gives.                                      *)
Resolved(c) == IF asks[c].tool = "add" THEN "post" ELSE "apply"
Wanted(c) == CHOOSE l \in want[c] : TRUE
Have(c, l, t) == /\ ids' = [ids EXCEPT ![c] = @ \cup {t}]
                 /\ want' = [want EXCEPT ![c] = @ \ {l}]
StillWant(c, l) == IF want[c] = {l} THEN Resolved(c) ELSE "create"

FreeTag(t) == label[t] = Unused /\ \A u \in 1 .. t - 1 : label[u] # Unused

-----------------------------------------------------------------------------
(* What Radarr does with a write of c's when it takes it, whether c is      *)
(* still there or not.  Its movie editor wants every film named to be.      *)
Editor(fs, changed) ==
    /\ \A f \in fs : There(f)
    /\ films' = [f \in Film |-> IF f \in fs THEN changed[f] ELSE films[f]]

(* The whole film sent back, with the folder as its path.                   *)
FilmPointed(c) == \E f \in asks[c].films :
    /\ There(f)
    /\ films' = [films EXCEPT ![f] = [copy[c] EXCEPT !.path = asks[c].folder]]

FieldsSet(c) ==
    Editor(asks[c].films,
           [f \in asks[c].films |->
                  [films[f] EXCEPT !.path = IF "path" \in asks[c].fields THEN c ELSE @,
                                   !.mon  = IF "mon" \in asks[c].fields THEN c ELSE @]])
TagsApplied(c) ==
    Editor(asks[c].films,
           [f \in asks[c].films |-> [films[f] EXCEPT !.tags = Applied(Op(c), @, ids[c])]])
TagStripped(c) ==
    Editor(seen[c], [f \in seen[c] |-> [films[f] EXCEPT !.tags = @ \ ids[c]]])

FilmMade(c) == \E f \in asks[c].films :
    /\ films[f] = Absent
    /\ films' = [films EXCEPT ![f] = [path |-> c, mon |-> c, tags |-> ids[c]]]
FilmGone(c) == \E f \in asks[c].films :
    /\ asks[c].confirm /\ There(f)
    /\ films' = [films EXCEPT ![f] = Gone]

TagMade(c, l, t) == /\ FreeTag(t) /\ Labelled({l}) = {}
                    /\ label' = [label EXCEPT ![t] = l]
TagGone(c) == /\ \A t \in ids[c] : label[t] \in Label
              /\ \A f \in Film : There(f) => films[f].tags \cap ids[c] = {}
              /\ label' = [t \in Tag |-> IF t \in ids[c] THEN Deleted ELSE label[t]]
TagPut(c) == \E t \in Tag :
    /\ Labelled({asks[c].to}) \subseteq ids[c] /\ \A u \in ids[c] : label[u] \in Label
    /\ IF ids[c] = {} THEN FreeTag(t) ELSE t \in ids[c]
    /\ label' = [label EXCEPT ![t] = asks[c].to]

CarriedOut(c, write) ==
    \/ /\ \/ write = "point" /\ FilmPointed(c)
          \/ write = "fields" /\ FieldsSet(c)
          \/ write = "apply" /\ TagsApplied(c)
          \/ write = "post" /\ FilmMade(c)
          \/ write = "delete" /\ FilmGone(c)
          \/ write = "strip" /\ TagStripped(c)
       /\ UNCHANGED label
    \/ /\ \/ write = "create" /\ \E t \in Tag : TagMade(c, Wanted(c), t)
          \/ write = "drop" /\ TagGone(c)
          \/ write = "put" /\ TagPut(c)
       /\ UNCHANGED films

(* A film named is not there: refused, and an error.                        *)
Refused(c, fs) == (\E f \in fs : ~There(f)) /\ Ends(c, "failed") /\ UNCHANGED films

-----------------------------------------------------------------------------
(* Slips these handlers could have made, each caught by a property below.   *)
FindFilmsDeleteUnlocked(c) ==   \* a delete that holds nothing
    /\ pc[c] = "find"
    /\ Is(c, {"edit", "delete"})
    /\ \A f \in asks[c].films : There(f)
    /\ Goes(c, "lock")
    /\ Locks!Ask(c, IF asks[c].tool = "delete" THEN {} ELSE asks[c].films)
    /\ UNCHANGED <<films, label, asks, at, ids, want, copy, seen, faults, late>>

FindFilmsBatchUnlocked(c) ==    \* a batch edit that holds nothing
    /\ pc[c] = "find"
    /\ Is(c, {"edit", "delete"})
    /\ \A f \in asks[c].films : There(f)
    /\ Goes(c, "lock")
    /\ Locks!Ask(c, IF Cardinality(asks[c].films) = 1 THEN asks[c].films ELSE {})
    /\ UNCHANGED <<films, label, asks, at, ids, want, copy, seen, faults, late>>

LookUpTagsUncleared(c) ==       \* the tags of one operation carried into the next
    LET missing == Refs(c) \ {label[t] : t \in Tag}
    IN  /\ pc[c] = "tags"
        /\ ids' = [ids EXCEPT ![c] = @ \cup Labelled(Refs(c))]
        /\ want' = [want EXCEPT ![c] = missing]
        /\ GoesOn(c, IF missing = {} THEN Resolved(c) ELSE "create")
        /\ UNCHANGED <<films, label, asks, at, copy, seen, faults, late>>

CreateTagOrFail(c) ==           \* a label another call has just made is an error
    /\ pc[c] = "create"
    /\ \/ \E t \in Tag : /\ TagMade(c, Wanted(c), t)
                         /\ Have(c, Wanted(c), t)
                         /\ GoesOn(c, StillWant(c, Wanted(c)))
       \/ Labelled({Wanted(c)}) # {} /\ Ends(c, "failed") /\ UNCHANGED <<label, ids, want>>
    /\ UNCHANGED <<films, asks, at, copy, seen, faults, late>>

PostClashesForgiven(c) ==       \* the last refusal taken for an answer
    /\ Step(c, "post", IF at[c] = 4 THEN "answer" ELSE "post")
    /\ at' = [at EXCEPT ![c] = @ + 1]
    /\ UNCHANGED <<films, label, asks, ids, want, copy, seen, faults, late, mode, named>>

PostClashesAlways(c) ==         \* tried again with no end
    /\ Step(c, "post", "post")
    /\ at' = [at EXCEPT ![c] = @ + 1]
    /\ UNCHANGED <<films, label, asks, ids, want, copy, seen, faults, late, mode, named>>

RequestFailsLocked(c) ==        \* an error answered without unlocking
    /\ faults < MaxFaults
    /\ faults' = faults + 1
    /\ pc[c] \notin {"new", "lock", "done", "failed"}
    /\ Goes(c, "failed")
    /\ late' = IF pc[c] \in Writes THEN [late EXCEPT ![c] = pc[c]] ELSE late
    /\ UNCHANGED <<films, label, asks, at, ids, want, copy, seen, mode, named>>

-----------------------------------------------------------------------------
(* A call begins with the films it names; an add with a film to be, a tag   *)
(* tool with a label.                                                       *)
Begin(c, rq) ==
    /\ Step(c, "new", "find")
    /\ asks' = [asks EXCEPT ![c] = rq]
    /\ UNCHANGED <<films, label, at, ids, want, copy, seen, faults, late, mode, named>>

(* Any request may fail, time out or be cancelled, a folder's root not be   *)
(* found, a rescan or a move waited for end badly: an error, and what is    *)
(* held is unlocked (defer unlock()).  A write may then be out still.       *)
RequestFails(c) ==
    /\ faults < MaxFaults
    /\ faults' = faults + 1
    /\ pc[c] \notin {"new", "lock", "done", "failed"}
    /\ Ends(c, "failed")
    /\ late' = IF pc[c] \in Writes THEN [late EXCEPT ![c] = pc[c]] ELSE late
    /\ UNCHANGED <<films, label, asks, at, ids, want, copy, seen>>

(* Radarr carries it out all the same: at once, its answer lost, or later,  *)
(* with whatever is there by then.  Nothing says it ever does.              *)
LandLate(c) ==
    /\ late[c] \in Writes
    /\ late' = [late EXCEPT ![c] = "landed"]
    /\ CarriedOut(c, late[c])
    /\ UNCHANGED <<pc, asks, at, ids, want, copy, seen, faults, mode, named>>

(* movie_edit, movie_batch_edit and movie_delete: resolveMovie(s), then     *)
(* movieLocks of what was found.                                            *)
FindFilms(c) ==
    /\ pc[c] = "find"
    /\ Is(c, {"edit", "delete"})
    /\ \/ /\ \A f \in asks[c].films : There(f)
          /\ Goes(c, "lock")
          /\ Locks!Ask(c, asks[c].films)
       \/ /\ \E f \in asks[c].films : ~There(f)
          /\ Ends(c, "failed")
    /\ UNCHANGED <<films, label, asks, at, ids, want, copy, seen, faults, late>>

Locked(c) ==
    /\ Locks!Grant(c)
    /\ Step(c, "lock", IF asks[c].tool = "delete" THEN "delete"
                       ELSE IF asks[c].folder # NotGiven THEN "read" ELSE AfterPoint(c))
    /\ UNCHANGED <<films, label, asks, at, ids, want, copy, seen, faults, late>>

-----------------------------------------------------------------------------
(* folder and root_folder do not go together, and a film that has gone is   *)
(* not found; else the film is read whole, now that it is held.  One that   *)
(* is at the folder already is refused.                                     *)
ReadFilm(c) ==
    /\ pc[c] = "read"
    /\ \E f \in asks[c].films :
          \/ /\ There(f) /\ "path" \notin asks[c].fields
             /\ copy' = [copy EXCEPT ![c] = films[f]]
             /\ IF films[f].path = asks[c].folder THEN Ends(c, "failed") ELSE GoesOn(c, "point")
          \/ /\ ~There(f) \/ "path" \in asks[c].fields
             /\ Ends(c, "failed") /\ UNCHANGED copy
    /\ UNCHANGED <<films, label, asks, at, ids, want, seen, faults, late>>

(* pointAt: the film is sent back, and then rescanned.                      *)
PointAt(c) ==
    /\ pc[c] = "point"
    /\ \/ FilmPointed(c) /\ GoesOn(c, AfterPoint(c))
       \/ Refused(c, asks[c].films)
    /\ UNCHANGED <<label, asks, at, ids, want, copy, seen, faults, late>>

EditFields(c) ==
    /\ pc[c] = "fields"
    /\ \/ FieldsSet(c) /\ GoesOn(c, NextOp(c, 1))
       \/ Refused(c, asks[c].films)
    /\ UNCHANGED <<label, asks, at, ids, want, copy, seen, faults, late>>

EditTags(c) ==
    /\ pc[c] = "apply"
    /\ \/ TagsApplied(c) /\ GoesOn(c, NextOp(c, at[c] + 1))
       \/ Refused(c, asks[c].films)
    /\ at' = [at EXCEPT ![c] = @ + 1]
    /\ UNCHANGED <<label, asks, ids, want, copy, seen, faults, late>>

-----------------------------------------------------------------------------
(* resolveTags: the tags read once, and those of the labels that are not    *)
(* there created, or an error when they are to be taken off.                *)
LookUpTags(c) ==
    LET missing == Refs(c) \ {label[t] : t \in Tag}
    IN  /\ pc[c] = "tags"
        /\ ids' = [ids EXCEPT ![c] = Labelled(Refs(c))]
        /\ want' = [want EXCEPT ![c] = missing]
        /\ IF missing # {} /\ ~Creates(c)
           THEN Ends(c, "failed")
           ELSE GoesOn(c, IF missing = {} THEN Resolved(c) ELSE "create")
        /\ UNCHANGED <<films, label, asks, at, copy, seen, faults, late>>

CreateTag(c) ==
    /\ pc[c] = "create"
    /\ \/ \E t \in Tag : /\ TagMade(c, Wanted(c), t)
                         /\ Have(c, Wanted(c), t)
                         /\ GoesOn(c, StillWant(c, Wanted(c)))
       \/ /\ Labelled({Wanted(c)}) # {}     \* a conflict: another call has made it
          /\ GoesOn(c, "again")
          /\ UNCHANGED <<label, ids, want>>
    /\ UNCHANGED <<films, asks, at, copy, seen, faults, late>>

(* tagID: the tag looked up again, and the conflict answered if it has gone. *)
LookAgain(c) ==
    /\ pc[c] = "again"
    /\ IF Labelled({Wanted(c)}) = {}
       THEN Ends(c, "failed") /\ UNCHANGED <<ids, want>>
       ELSE /\ GoesOn(c, StillWant(c, Wanted(c)))
            /\ \E t \in Labelled({Wanted(c)}) : Have(c, Wanted(c), t)
    /\ UNCHANGED <<films, label, asks, at, copy, seen, faults, late>>

-----------------------------------------------------------------------------
(* movie_add: not in the library, its tags resolved, and then added, tried  *)
(* again while Radarr is saving the same film's details.  Radarr refuses a  *)
(* film it has.  One added after a delete would have another id: not here.  *)
FindAdd(c) ==
    /\ pc[c] = "find"
    /\ Is(c, {"add"})
    /\ Ends(c, IF \E f \in asks[c].films : There(f) THEN "failed"
                       ELSE IF asks[c].add = {} THEN "post" ELSE "tags")
    /\ UNCHANGED <<films, label, asks, at, ids, want, copy, seen, faults, late>>

Post(c) ==
    /\ pc[c] = "post"
    /\ \/ FilmMade(c) /\ GoesOn(c, "answer")
       \/ (\A f \in asks[c].films : films[f] # Absent) /\ Ends(c, "failed") /\ UNCHANGED films
    /\ UNCHANGED <<label, asks, at, ids, want, copy, seen, faults, late>>

(* A clash says nothing of whether the film was added before it.            *)
PostClashes(c) ==
    /\ Step(c, "post", IF at[c] = 4 THEN "failed" ELSE "post")
    /\ at' = [at EXCEPT ![c] = @ + 1]
    /\ FilmMade(c) \/ UNCHANGED films
    /\ UNCHANGED <<label, asks, ids, want, copy, seen, faults, late, mode, named>>

(* movie_delete, once the film is held: without confirm nothing changes.    *)
Delete(c) ==
    /\ pc[c] = "delete"
    /\ \/ FilmGone(c) /\ GoesOn(c, "answer")
       \/ asks[c].confirm /\ Refused(c, asks[c].films)
       \/ ~asks[c].confirm /\ Ends(c, "done") /\ UNCHANGED films
    /\ UNCHANGED <<label, asks, at, ids, want, copy, seen, faults, late>>

-----------------------------------------------------------------------------
(* tag_delete: the tag and what carries it are read once; one a setting     *)
(* uses is refused; then it is taken off the films it was read on, and      *)
(* deleted, which Radarr refuses while anything carries it.                 *)
FindTag(c) ==
    /\ pc[c] = "find"
    /\ Is(c, {"tagDelete"})
    /\ \/ Ends(c, "failed") /\ UNCHANGED <<ids, seen>>
       \/ \E t \in Labelled({asks[c].label}) :
             LET carriers == {f \in Film : There(f) /\ t \in films[f].tags}
             IN  /\ GoesOn(c, IF carriers = {} THEN "drop" ELSE "strip")
                 /\ ids' = [ids EXCEPT ![c] = {t}]
                 /\ seen' = [seen EXCEPT ![c] = carriers]
    /\ UNCHANGED <<films, label, asks, at, want, copy, faults, late>>

TakeOff(c) ==
    /\ pc[c] = "strip"
    /\ \/ TagStripped(c) /\ GoesOn(c, "drop")
       \/ Refused(c, seen[c])
    /\ UNCHANGED <<label, asks, at, ids, want, copy, seen, faults, late>>

DeleteTag(c) ==
    /\ pc[c] = "drop"
    /\ \/ TagGone(c) /\ GoesOn(c, "answer")
       \/ Ends(c, "failed") /\ UNCHANGED label
    /\ UNCHANGED <<films, asks, at, ids, want, copy, seen, faults, late>>

(* tag_create and tag_rename: no other tag is called that, and then it is   *)
(* made or called that, which Radarr refuses if another has come to be.     *)
FindLabel(c) ==
    /\ pc[c] = "find"
    /\ Is(c, {"tagCreate", "tagRename"})
    /\ LET own == IF asks[c].tool = "tagRename" THEN Labelled({asks[c].label}) ELSE {}
       IN  IF /\ asks[c].tool = "tagRename" => own # {}
              /\ Labelled({asks[c].to}) \subseteq own
           THEN GoesOn(c, "put") /\ ids' = [ids EXCEPT ![c] = own]
           ELSE Ends(c, "failed") /\ UNCHANGED ids
    /\ UNCHANGED <<films, label, asks, at, want, copy, seen, faults, late>>

PutTag(c) ==
    /\ pc[c] = "put"
    /\ \/ TagPut(c) /\ GoesOn(c, "answer")
       \/ /\ ~(/\ Labelled({asks[c].to}) \subseteq ids[c]
               /\ \A t \in ids[c] : label[t] \in Label)
          /\ Ends(c, "failed") /\ UNCHANGED label
    /\ UNCHANGED <<films, asks, at, ids, want, copy, seen, faults, late>>

(* What was done is read back, and whatever was locked is unlocked.         *)
Answer(c) ==
    /\ pc[c] = "answer"
    /\ Ends(c, "done")
    /\ UNCHANGED <<films, label, asks, at, ids, want, copy, seen, faults, late>>

-----------------------------------------------------------------------------
Steps(c) == \/ FindFilms(c) \/ FindAdd(c) \/ FindTag(c) \/ FindLabel(c)
            \/ Locked(c) \/ ReadFilm(c) \/ PointAt(c) \/ EditFields(c) \/ EditTags(c)
            \/ LookUpTags(c) \/ CreateTag(c) \/ LookAgain(c)
            \/ Post(c) \/ PostClashes(c) \/ Delete(c)
            \/ TakeOff(c) \/ DeleteTag(c) \/ PutTag(c)
            \/ Answer(c)

Next == \E c \in Call : \/ \E rq \in Request[c] : Begin(c, rq)
                        \/ Steps(c)
                        \/ RequestFails(c)
                        \/ LandLate(c)

Spec == Init /\ [][Next]_vars

(* Radarr answers each request or the client ends it, and a free lock is    *)
(* granted: a call that has begun goes on.                                  *)
FairSpec == Spec /\ \A c \in Call : WF_vars(Steps(c))

-----------------------------------------------------------------------------
(* "An edit of a film holds it, so that pointing it at a folder, which      *)
(* sends the whole film back, cannot be read before the edit and written    *)
(* after it" (locks.go:37): what is about to be sent is the film Radarr has. *)
CopyIsCurrent ==
    \A c \in Call : pc[c] = "point" => \A f \in asks[c].films : films[f] = copy[c]

(* What holds of it: what has changed since the film was read is a tag that *)
(* a tag_delete, which locks nothing, was taking off, unless a write landed *)
(* that the call that sent it had given up on.                              *)
LandedOn(f) == \E d \in Call : late[d] = "landed" /\ f \in asks[d].films
PointUndoesOnlyTagDeletes ==
    \A c \in Call : pc[c] = "point" => \A f \in asks[c].films : LandedOn(f) \/
       /\ There(f)
       /\ films[f].path = copy[c].path
       /\ films[f].mon = copy[c].mon
       /\ films[f].tags \subseteq copy[c].tags
       /\ \A t \in copy[c].tags \ films[f].tags :
             \E d \in Call : Is(d, {"tagDelete"}) /\ t \in ids[d]

(* While no call that changes tags themselves has begun, an edit that is    *)
(* about to answer finds its films as it was told to make them, each step   *)
(* of it still standing (movie_edits.go:571): what one tag operation did    *)
(* the next has not undone, nor another call, but one that gave up on a     *)
(* write to that film which landed all the same.                            *)
Quiet == \A d \in Call : ~Is(d, {"tagDelete", "tagRename"})
AsAsked(c, f) ==
    /\ asks[c].folder # NotGiven => films[f].path = asks[c].folder
    /\ "path" \in asks[c].fields => films[f].path = c
    /\ "mon" \in asks[c].fields => films[f].mon = c
    /\ Carried(f) \cap asks[c].remove = {}
    /\ asks[c].add \ asks[c].remove \subseteq Carried(f)
    /\ asks[c].replace # NotGiven =>
          /\ asks[c].replace \ asks[c].remove \subseteq Carried(f)
          /\ Carried(f) \subseteq asks[c].replace \cup asks[c].add
EditStands ==
    \A c \in Call : pc[c] = "answer" /\ Is(c, {"edit"}) /\ Quiet =>
       \A f \in asks[c].films : LandedOn(f) \/ (There(f) /\ AsAsked(c, f))

(* "Another call made it between our read and our create: use it"           *)
(* (radarr.go:333): while no request, rescan or move fails, no tag is       *)
(* deleted or renamed and no film comes or goes, an edit that takes no      *)
(* label off fails only for a film that is not there, folder given with     *)
(* root_folder, or a folder that the film it read is at already.            *)
RaceIsNoError ==
    \A c \in Call :
       /\ pc[c] = "failed" /\ Is(c, {"edit"})
       /\ faults = 0 /\ Quiet /\ asks[c].remove = {}
       /\ \A d \in Call : ~Is(d, {"add", "delete"})
       => \/ \E f \in asks[c].films : ~There(f)
          \/ /\ asks[c].folder # NotGiven
             /\ "path" \in asks[c].fields \/ copy[c].path = asks[c].folder

(* A film is added once, however many calls found it missing: of two, at    *)
(* most one is told it was, and then it was (movie_edits.go:79, 682).       *)
AddedOnce ==
    \A c \in Call : pc[c] \in {"answer", "done"} /\ Is(c, {"add"}) =>
       \A f \in asks[c].films :
          /\ films[f] # Absent
          /\ \A d \in Call \ {c} : ~(/\ pc[d] \in {"answer", "done"} /\ Is(d, {"add"})
                                     /\ f \in asks[d].films)

(* A film changes under an edit that holds it only by that edit, by a       *)
(* tag_delete, or by a write its call gave up on before: a film being       *)
(* deleted is not edited ("an edit of this film in the same turn finishes   *)
(* first", movie_edits.go:232), nor one call's edit in the midst of         *)
(* another's, unless it has timed out or been cancelled.                    *)
Strips(d) == pc[d] = "strip" /\ pc'[d] # "strip"
Lands(d, f) == /\ late[d] \in Writes /\ late'[d] = "landed"
               /\ f \in asks[d].films \/ Is(d, {"tagDelete"})
HeldIsOwn ==
    [][\A c \in Call : mode[c] = "held" /\ pc'[c] = pc[c] =>
          \A f \in named[c] :
             films'[f] = films[f] \/ \E d \in Call : Strips(d) \/ Lands(d, f)]_vars

(* Every call is answered, and then holds nothing.                          *)
Answered == \A c \in Call : pc[c] # "new" ~> pc[c] \in {"done", "failed"} /\ mode[c] = "idle"
=============================================================================
