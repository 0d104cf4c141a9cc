---------------------------- MODULE FilmsProofs ----------------------------
(***************************************************************************)
(* Proofs about Films, for any calls, films, tags and labels, whatever the *)
(* calls ask, however many requests fail and whatever is carried out after *)
(* its call has given up on it: what an edit holds is its own, what it     *)
(* sends back is the film as it is but for tags being deleted, what it     *)
(* answers stands, but for what lands late; a tag two calls want is no     *)
(* error, and a film is added once.                                        *)
(***************************************************************************)
EXTENDS Films, FiniteSetTheorems, SequenceTheorems, TLAPS

Editing == {"fields", "tags", "create", "again", "apply", "answer"}
Ended == {"done", "failed"}

(* What each stage of a call implies of what it was asked.                  *)
StageOf(c) ==
    /\ pc[c] = "new" <=> asks[c] = Nothing
    /\ pc[c] = "lock" => Is(c, {"edit", "delete"})
    /\ pc[c] \in {"read", "point"} => Is(c, {"edit"}) /\ asks[c].folder # NotGiven
    /\ pc[c] = "point" => "path" \notin asks[c].fields /\ copy[c] \in FilmRecord
    /\ pc[c] \in Editing /\ Is(c, {"edit"}) /\ asks[c].folder # NotGiven =>
          "path" \notin asks[c].fields
    /\ pc[c] \in {"fields", "apply"} => Is(c, {"edit"})
    /\ pc[c] \in {"tags", "create", "again"} => Is(c, {"edit", "add"})
    /\ pc[c] = "post" => Is(c, {"add"})
    /\ pc[c] = "delete" => Is(c, {"delete"})
    /\ pc[c] \in {"strip", "drop"} => Is(c, {"tagDelete"})
    /\ pc[c] = "put" => Is(c, {"tagCreate", "tagRename"})
    /\ Is(c, {"tagCreate"}) => ids[c] = {}

(* How far it has come: the tag operation or the attempt it is at, and the  *)
(* labels it has yet to create.                                             *)
CountOf(c) ==
    /\ pc[c] \in {"new", "find"} => at[c] = 1 /\ ids[c] = {} /\ want[c] = {}
    /\ Is(c, {"add"}) /\ pc[c] \in {"tags", "create", "again"} => at[c] = 1
    /\ pc[c] = "post" => at[c] <= 4
    /\ pc[c] \in {"create", "again"} => want[c] # {}
    /\ pc[c] = "apply" => want[c] = {}
    /\ Is(c, {"edit"}) =>
          /\ pc[c] \in {"lock", "read", "point", "fields"} => at[c] = 1
          /\ pc[c] \in {"tags", "create", "again", "apply"} => at[c] <= Len(Ops(asks[c]))
          /\ pc[c] \in {"create", "again"} => Op(c).apply # "remove"
          /\ pc[c] = "answer" => at[c] = Len(Ops(asks[c])) + 1

(* An edit and a delete hold their films from when they are granted them    *)
(* until they end; no other call holds any.                                 *)
LockOf(c) ==
    /\ mode[c] \in {"idle", "asked", "held"}
    /\ mode[c] = "asked" <=> pc[c] = "lock"
    /\ mode[c] = "held" <=> /\ Is(c, {"edit", "delete"})
                            /\ pc[c] \notin {"new", "find", "lock"} \cup Ended
    /\ mode[c] # "idle" => /\ named[c] = asks[c].films
                           /\ \A f \in named[c] : films[f] # Absent

(* A call that has given up on a write has failed, and the write is one of  *)
(* its tool's, with what the call knew when it was sent.                    *)
LateOf(c) ==
    /\ late[c] # "none" => pc[c] = "failed" /\ faults # 0
    /\ late[c] = "point" => Is(c, {"edit"}) /\ asks[c].folder # NotGiven /\ copy[c] \in FilmRecord
    /\ late[c] \in {"fields", "apply"} => Is(c, {"edit"})
    /\ late[c] = "apply" => at[c] <= Len(Ops(asks[c]))
    /\ late[c] = "create" => Is(c, {"edit", "add"}) /\ want[c] # {}
    /\ late[c] = "post" => Is(c, {"add"})
    /\ late[c] = "delete" => Is(c, {"delete"})
    /\ late[c] \in {"strip", "drop"} => Is(c, {"tagDelete"})
    /\ late[c] = "put" => Is(c, {"tagCreate", "tagRename"})

(* PointUndoesOnlyTagDeletes, of one call.                                  *)
PointOf(c) ==
    pc[c] = "point" => \A f \in asks[c].films : LandedOn(f) \/
       /\ There(f)
       /\ films[f].path = copy[c].path
       /\ films[f].mon = copy[c].mon
       /\ films[f].tags \subseteq copy[c].tags
       /\ \A t \in copy[c].tags \ films[f].tags :
             \E d \in Call : Is(d, {"tagDelete"}) /\ t \in ids[d]

(* The tags an edit has resolved and the labels it has yet to create are    *)
(* together what it was given, while no tag is deleted or renamed.          *)
TagsOf(c) ==
    Is(c, {"edit"}) /\ Quiet =>
       /\ pc[c] \in {"create", "again", "apply"} =>
             {label[t] : t \in ids[c]} \cup want[c] = Op(c).labels
       /\ pc[c] = "apply" /\ Op(c).apply = "remove" => ids[c] = Labelled(Op(c).labels)
       /\ pc[c] = "again" => Labelled({Wanted(c)}) # {}

(* What an edit has done so far stands.                                     *)
Past(c, apply) == \E i \in 1 .. at[c] - 1 : Ops(asks[c])[i].apply = apply
Pointed(c) == asks[c].folder # NotGiven
Fielded(c) == asks[c].fields # {} /\ pc[c] # "fields"
TakenOff(c) == IF Past(c, "remove") THEN asks[c].remove ELSE {}
PutOn(c) == IF Past(c, "add") THEN asks[c].add ELSE {}

Acted(c) == Pointed(c) \/ Fielded(c) \/ at[c] # 1

SoFar(c, f) ==
    /\ There(f)
    /\ Pointed(c) => films[f].path = asks[c].folder
    /\ Fielded(c) /\ "path" \in asks[c].fields => films[f].path = c
    /\ Fielded(c) /\ "mon" \in asks[c].fields => films[f].mon = c
    /\ Carried(f) \cap TakenOff(c) = {}
    /\ PutOn(c) \ TakenOff(c) \subseteq Carried(f)
    /\ Past(c, "replace") => /\ asks[c].replace \ TakenOff(c) \subseteq Carried(f)
                             /\ Carried(f) \subseteq asks[c].replace \cup PutOn(c)

StandOf(c) ==
    Is(c, {"edit"}) /\ Quiet /\ pc[c] \in Editing /\ Acted(c) =>
       \A f \in asks[c].films : LandedOn(f) \/ SoFar(c, f)

(* RaceIsNoError, of one call.                                              *)
RaceOf(c) ==
    /\ pc[c] = "failed" /\ Is(c, {"edit"})
    /\ faults = 0 /\ Quiet /\ asks[c].remove = {}
    /\ \A d \in Call : ~Is(d, {"add", "delete"})
    => \/ \E f \in asks[c].films : ~There(f)
       \/ /\ asks[c].folder # NotGiven
          /\ "path" \in asks[c].fields \/ copy[c].path = asks[c].folder

(* AddedOnce, of one call.                                                  *)
Told(c) == pc[c] \in {"answer", "done"} /\ Is(c, {"add"})
AddOf(c) ==
    Told(c) => \A f \in asks[c].films :
       /\ films[f] # Absent
       /\ \A d \in Call \ {c} : ~(Told(d) /\ f \in asks[d].films)

CallInv(c) == /\ StageOf(c) /\ CountOf(c) /\ LockOf(c) /\ LateOf(c) /\ PointOf(c)
              /\ TagsOf(c) /\ StandOf(c) /\ RaceOf(c) /\ AddOf(c)

(* No id is in use that Radarr has not given.                               *)
Given(ts) == \A t \in ts : label[t] # Unused
TagsGiven == /\ \A f \in Film : There(f) => Given(films[f].tags)
             /\ \A c \in Call : /\ Given(ids[c])
                                /\ copy[c] \in FilmRecord => Given(copy[c].tags)

Inv == TypeOK /\ Locks!Exclusion /\ TagsGiven /\ \A c \in Call : CallInv(c)

-----------------------------------------------------------------------------
(* The values that stand for no film, no tag and no request are none.       *)
LEMMA Distinct ==
    /\ Absent \notin FilmRecord /\ Gone \notin FilmRecord /\ Nothing \notin FilmRecord
    /\ Absent # Gone
    /\ Unused \notin Label /\ Deleted \notin Label /\ Unused # Deleted
    /\ NotGiven \notin SUBSET Label /\ NotGiven \notin Call \cup {Base}
    /\ \A c \in Call : Nothing \notin Request[c]
BY ValueAssumption

(* What a request may be, by its tool.                                      *)
Shape(rq) ==
    /\ rq.tool \in {"edit", "add", "delete", "tagDelete", "tagCreate", "tagRename"}
    /\ rq.films \in SUBSET Film
    /\ rq.tool = "edit" => /\ rq \in EditRequests
                           /\ Gives(rq)
                           /\ rq.folder # NotGiven => rq.films \in Single
    /\ rq.tool = "add" => rq.films \in Single /\ rq.add \in SUBSET Label
    /\ rq.tool = "delete" => rq.films \in Single /\ rq.confirm \in BOOLEAN
    /\ rq.tool \in {"tagDelete", "tagRename"} => rq.label \in Label
    /\ rq.tool \in {"tagCreate", "tagRename"} => rq.to \in Label

(* What a call may be asked has the shape of its tool's requests.           *)
LEMMA Shapes ==
    ASSUME NEW c \in Call, NEW rq \in Request[c]
    PROVE  Shape(rq)
<1>1. CASE rq \in EditRequests /\ Gives(rq) /\ (rq.folder # NotGiven => rq.films \in Single)
  BY <1>1 DEF Shape, EditRequests
<1>2. CASE rq \in [tool : {"add"}, films : Single, add : SUBSET Label]
  BY <1>2 DEF Shape, Single
<1>3. CASE rq \in [tool : {"delete"}, films : Single, confirm : BOOLEAN]
  BY <1>3 DEF Shape, Single
<1>4. CASE rq \in [tool : {"tagDelete"}, films : {{}}, label : Label]
  BY <1>4 DEF Shape
<1>5. CASE rq \in [tool : {"tagCreate"}, films : {{}}, to : Label]
  BY <1>5 DEF Shape
<1>6. CASE rq \in [tool : {"tagRename"}, films : {{}}, label : Label, to : Label]
  BY <1>6 DEF Shape
<1> QED
  BY <1>1, <1>2, <1>3, <1>4, <1>5, <1>6, RequestAssumption

(* The tag operations of an edit: those that are given, each once, in their *)
(* order.                                                                   *)
InOrder(rq, ops) ==
    /\ Len(ops) \in 0 .. 3
    /\ \A i \in 1 .. Len(ops) :
          /\ ops[i].apply \in {"replace", "add", "remove"}
          /\ ops[i].labels \in SUBSET Label
          /\ ops[i].apply = "replace" => ops[i].labels = rq.replace
          /\ ops[i].apply = "add" => ops[i].labels = rq.add
          /\ ops[i].apply = "remove" => ops[i].labels = rq.remove /\ rq.remove # {}
    /\ \A i, j \in 1 .. Len(ops) : i < j => /\ ops[i].apply # "remove"
                                            /\ ops[j].apply # "replace"
                                            /\ ops[i].apply # ops[j].apply
    /\ rq.replace # NotGiven => \E i \in 1 .. Len(ops) : ops[i].apply = "replace"
    /\ rq.add # {} => \E i \in 1 .. Len(ops) : ops[i].apply = "add"
    /\ rq.remove # {} => \E i \in 1 .. Len(ops) : ops[i].apply = "remove"

(* Three sequences of at most one element each, put together.               *)
Joined(A, B, D, q) ==
    /\ Len(q) \in 0 .. 3
    /\ \A i \in 1 .. Len(q) :
          \/ i = 1 /\ Len(A) = 1 /\ q[i] = A[1]
          \/ i = Len(A) + 1 /\ Len(B) = 1 /\ q[i] = B[1]
          \/ i = Len(A) + Len(B) + 1 /\ Len(D) = 1 /\ q[i] = D[1]
    /\ Len(A) = 1 => 1 \in 1 .. Len(q) /\ q[1] = A[1]
    /\ Len(B) = 1 => Len(A) + 1 \in 1 .. Len(q) /\ q[Len(A) + 1] = B[1]
    /\ Len(D) = 1 => Len(A) + Len(B) + 1 \in 1 .. Len(q) /\ q[Len(A) + Len(B) + 1] = D[1]

(* Two sequences put together.                                             *)
LEMMA Appended ==
    ASSUME NEW S, NEW A \in Seq(S), NEW B \in Seq(S)
    PROVE  /\ A \o B \in Seq(S) /\ Len(A) \in Nat /\ Len(B) \in Nat
           /\ Len(A \o B) = Len(A) + Len(B)
           /\ \A i \in 1 .. Len(A) : (A \o B)[i] = A[i]
           /\ \A i \in 1 .. Len(B) : (A \o B)[Len(A) + i] = B[i]
<1> DEFINE p == A \o B
<1>1. Len(A) \in Nat /\ Len(B) \in Nat
  BY LenProperties
<1>2. /\ p \in Seq(S) /\ Len(p) = Len(A) + Len(B)
      /\ \A i \in 1 .. Len(A) + Len(B) : p[i] = IF i <= Len(A) THEN A[i] ELSE B[i - Len(A)]
  BY ConcatProperties
<1> HIDE DEF p
<1>3. ASSUME NEW i \in 1 .. Len(A) PROVE p[i] = A[i]
  <2>1. i \in 1 .. Len(A) + Len(B) /\ i <= Len(A)
    BY <1>1
  <2> QED
    BY <1>2, <2>1
<1>4. ASSUME NEW i \in 1 .. Len(B) PROVE p[Len(A) + i] = B[i]
  <2>1. /\ Len(A) + i \in 1 .. Len(A) + Len(B) /\ ~(Len(A) + i <= Len(A))
        /\ (Len(A) + i) - Len(A) = i
    BY <1>1
  <2>2. p[Len(A) + i] = B[(Len(A) + i) - Len(A)]
    BY <1>2, <2>1
  <2> QED
    BY <2>1, <2>2
<1> QED
  BY <1>1, <1>2, <1>3, <1>4 DEF p

(* Which of the three a place among them is in.                            *)
LEMMA Places ==
    ASSUME NEW a \in 0 .. 1, NEW b \in 0 .. 1, NEW d \in 0 .. 1, NEW i \in 1 .. a + b + d
    PROVE  (i = 1 /\ a = 1) \/ (i = a + 1 /\ b = 1) \/ (i = a + b + 1 /\ d = 1)
<1>1. (a = 0 \/ a = 1) /\ (b = 0 \/ b = 1) /\ (d = 0 \/ d = 1)
  OBVIOUS
<1>2. i = 1 \/ i = 2 \/ i = 3
  BY <1>1
<1> QED
  BY <1>1, <1>2

(* So the three of them are as Joined says.                                *)
LEMMA Three ==
    ASSUME NEW S, NEW A \in Seq(S), NEW B \in Seq(S), NEW D \in Seq(S),
           Len(A) \in 0 .. 1, Len(B) \in 0 .. 1, Len(D) \in 0 .. 1
    PROVE  Joined(A, B, D, A \o B \o D)
<1> DEFINE p == A \o B
           q == p \o D
<1>1. Len(A) \in Nat /\ Len(B) \in Nat /\ Len(D) \in Nat
  BY LenProperties
<1>2. /\ p \in Seq(S) /\ Len(p) = Len(A) + Len(B)
      /\ \A i \in 1 .. Len(A) : p[i] = A[i]
      /\ \A i \in 1 .. Len(B) : p[Len(A) + i] = B[i]
  BY Appended
<1> HIDE DEF p
<1>3. /\ Len(q) = Len(p) + Len(D)
      /\ \A i \in 1 .. Len(p) : q[i] = p[i]
      /\ \A i \in 1 .. Len(D) : q[Len(p) + i] = D[i]
  <2>1. p \in Seq(S) /\ D \in Seq(S)
    BY <1>2
  <2>2. /\ Len(p \o D) = Len(p) + Len(D)
        /\ \A i \in 1 .. Len(p) : (p \o D)[i] = p[i]
        /\ \A i \in 1 .. Len(D) : (p \o D)[Len(p) + i] = D[i]
    BY <2>1, Appended
  <2> QED
    BY <2>2
<1> HIDE DEF q
<1>4. Len(q) = Len(A) + Len(B) + Len(D) /\ Len(q) \in 0 .. 3
  <2>1. Len(q) = Len(A) + Len(B) + Len(D)
    BY <1>2, <1>3
  <2>2. ASSUME NEW a \in 0 .. 1, NEW b \in 0 .. 1, NEW d \in 0 .. 1 PROVE a + b + d \in 0 .. 3
    OBVIOUS
  <2>3. Len(A) + Len(B) + Len(D) \in 0 .. 3
    BY <2>2
  <2> QED
    BY <2>1, <2>3
<1>5. Len(A) = 1 => 1 \in 1 .. Len(q) /\ q[1] = A[1]
  BY <1>1, <1>2, <1>3, <1>4
<1>6. Len(B) = 1 => Len(A) + 1 \in 1 .. Len(q) /\ q[Len(A) + 1] = B[1]
  <2> SUFFICES ASSUME Len(B) = 1
               PROVE  Len(A) + 1 \in 1 .. Len(q) /\ q[Len(A) + 1] = B[1]
    OBVIOUS
  <2>1. Len(A) + 1 \in 1 .. Len(p) /\ Len(A) + 1 \in 1 .. Len(q) /\ 1 \in 1 .. Len(B)
    BY <1>1, <1>2, <1>4
  <2>2. p[Len(A) + 1] = B[1]
    BY <1>2, <2>1
  <2> QED
    BY <1>3, <2>1, <2>2
<1>7. Len(D) = 1 => /\ Len(A) + Len(B) + 1 \in 1 .. Len(q)
                    /\ q[Len(A) + Len(B) + 1] = D[1]
  <2> SUFFICES ASSUME Len(D) = 1
               PROVE  /\ Len(A) + Len(B) + 1 \in 1 .. Len(q)
                      /\ q[Len(A) + Len(B) + 1] = D[1]
    OBVIOUS
  <2>1. /\ Len(A) + Len(B) + 1 = Len(p) + 1 /\ 1 \in 1 .. Len(D)
        /\ Len(A) + Len(B) + 1 \in 1 .. Len(q)
    BY <1>1, <1>2, <1>4
  <2>2. q[Len(p) + 1] = D[1]
    BY <1>3, <2>1
  <2> QED
    BY <2>1, <2>2
<1>8. \A i \in 1 .. Len(q) : \/ i = 1 /\ Len(A) = 1
                             \/ i = Len(A) + 1 /\ Len(B) = 1
                             \/ i = Len(A) + Len(B) + 1 /\ Len(D) = 1
  BY <1>4, Places
<1>9. q = A \o B \o D
  BY DEF p, q
<1> QED
  BY <1>4, <1>5, <1>6, <1>7, <1>8, <1>9 DEF Joined

(* An operation by itself.                                                 *)
LEMMA OneOp ==
    ASSUME NEW apply \in {"replace", "add", "remove"}, NEW ls \in SUBSET Label, NEW q,
           q = <<[apply |-> apply, labels |-> ls]>>
    PROVE  /\ q \in Seq([apply : {"replace", "add", "remove"}, labels : SUBSET Label]) /\ Len(q) = 1
           /\ q[1] = [apply |-> apply, labels |-> ls]
OBVIOUS

(* What an edit sends is in order: a replacement, what is put on, what is  *)
(* taken off (movie_edits.go:611).                                         *)
LEMMA OpsInOrder ==
    ASSUME NEW rq \in EditRequests
    PROVE  InOrder(rq, Ops(rq))
<1> DEFINE S == [apply : {"replace", "add", "remove"}, labels : SUBSET Label]
           A == OpIf(rq.replace # NotGiven, "replace", rq.replace)
           B == OpIf(rq.add # {}, "add", rq.add)
           D == OpIf(rq.remove # {}, "remove", rq.remove)
           q == A \o B \o D
<1>1. /\ rq.replace # NotGiven => rq.replace \in SUBSET Label
      /\ rq.add \in SUBSET Label /\ rq.remove \in SUBSET Label
  BY DEF EditRequests
<1>2. /\ A \in Seq(S) /\ B \in Seq(S) /\ D \in Seq(S)
      /\ Len(A) = IF rq.replace # NotGiven THEN 1 ELSE 0
      /\ Len(B) = IF rq.add # {} THEN 1 ELSE 0
      /\ Len(D) = IF rq.remove # {} THEN 1 ELSE 0
      /\ rq.replace # NotGiven => A[1] = [apply |-> "replace", labels |-> rq.replace]
      /\ rq.add # {} => B[1] = [apply |-> "add", labels |-> rq.add]
      /\ rq.remove # {} => D[1] = [apply |-> "remove", labels |-> rq.remove]
  <2>1. /\ A \in Seq(S) /\ Len(A) = IF rq.replace # NotGiven THEN 1 ELSE 0
        /\ rq.replace # NotGiven => A[1] = [apply |-> "replace", labels |-> rq.replace]
    <3>1. A = IF rq.replace # NotGiven THEN <<[apply |-> "replace", labels |-> rq.replace]>> ELSE <<>>
      BY DEF OpIf
    <3> HIDE DEF A
    <3>2. CASE rq.replace # NotGiven
      BY <1>1, <3>1, <3>2, OneOp
    <3>3. CASE ~(rq.replace # NotGiven)
      BY <3>1, <3>3
    <3> QED
      BY <3>2, <3>3
  <2>2. /\ B \in Seq(S) /\ Len(B) = IF rq.add # {} THEN 1 ELSE 0
        /\ rq.add # {} => B[1] = [apply |-> "add", labels |-> rq.add]
    <3>1. B = IF rq.add # {} THEN <<[apply |-> "add", labels |-> rq.add]>> ELSE <<>>
      BY DEF OpIf
    <3> HIDE DEF B
    <3>2. CASE rq.add # {}
      BY <1>1, <3>1, <3>2, OneOp
    <3>3. CASE ~(rq.add # {})
      BY <3>1, <3>3
    <3> QED
      BY <3>2, <3>3
  <2>3. /\ D \in Seq(S) /\ Len(D) = IF rq.remove # {} THEN 1 ELSE 0
        /\ rq.remove # {} => D[1] = [apply |-> "remove", labels |-> rq.remove]
    <3>1. D = IF rq.remove # {} THEN <<[apply |-> "remove", labels |-> rq.remove]>> ELSE <<>>
      BY DEF OpIf
    <3> HIDE DEF D
    <3>2. CASE rq.remove # {}
      BY <1>1, <3>1, <3>2, OneOp
    <3>3. CASE ~(rq.remove # {})
      BY <3>1, <3>3
    <3> QED
      BY <3>2, <3>3
  <2> QED
    BY <2>1, <2>2, <2>3
<1>3. Ops(rq) = q
  BY DEF Ops
<1> HIDE DEF S, A, B, D
<1>4. Len(A) \in 0 .. 1 /\ Len(B) \in 0 .. 1 /\ Len(D) \in 0 .. 1
  BY <1>2
<1>5. Joined(A, B, D, q)
  BY <1>2, <1>4, Three
<1> HIDE DEF q
<1>6. \A i \in 1 .. Len(q) :
         \/ /\ i = 1 /\ rq.replace # NotGiven
            /\ q[i].apply = "replace" /\ q[i].labels = rq.replace
         \/ /\ i = Len(A) + 1 /\ rq.add # {}
            /\ q[i].apply = "add" /\ q[i].labels = rq.add
         \/ /\ i = Len(A) + Len(B) + 1 /\ rq.remove # {}
            /\ q[i].apply = "remove" /\ q[i].labels = rq.remove
  BY <1>2, <1>5 DEF Joined
<1>7. /\ rq.replace # NotGiven => \E i \in 1 .. Len(q) : q[i].apply = "replace"
      /\ rq.add # {} => \E i \in 1 .. Len(q) : q[i].apply = "add"
      /\ rq.remove # {} => \E i \in 1 .. Len(q) : q[i].apply = "remove"
  BY <1>2, <1>5 DEF Joined
<1>8. \A i \in 1 .. Len(q) :
          /\ q[i].apply \in {"replace", "add", "remove"}
          /\ q[i].labels \in SUBSET Label
          /\ q[i].apply = "replace" => q[i].labels = rq.replace
          /\ q[i].apply = "add" => q[i].labels = rq.add
          /\ q[i].apply = "remove" => q[i].labels = rq.remove /\ rq.remove # {}
  BY <1>1, <1>6
<1>9. ASSUME NEW i \in 1 .. Len(q), NEW j \in 1 .. Len(q), i < j
      PROVE  /\ q[i].apply # "remove"
             /\ q[j].apply # "replace"
             /\ q[i].apply # q[j].apply
  <2> SUFFICES /\ ~(j = 1)
               /\ ~(i = Len(A) + Len(B) + 1)
               /\ ~(i = Len(A) + 1 /\ j = Len(A) + 1)
    BY <1>6
  <2>1. i \in Nat /\ j \in Nat /\ i >= 1 /\ j <= Len(A) + Len(B) + 1
    BY <1>4, <1>6, <1>5 DEF Joined
  <2> QED
    BY <2>1, <1>9, <1>4
<1> QED
  BY <1>3, <1>5, <1>7, <1>8, <1>9 DEF InOrder, Joined

-----------------------------------------------------------------------------
(* The locks: whatever a call asks of them or gives back, those that hold   *)
(* stay apart, and no other call's change.                                  *)
LockMove(c) ==
    \/ \E ks \in SUBSET Film : Locks!Ask(c, ks)
    \/ Locks!Grant(c) \/ Locks!Release(c)
    \/ UNCHANGED <<mode, named>>

(* So the locks of a step's own call may change, and nothing else of them. *)
LEMMA LocksStep ==
    ASSUME NEW c \in Call, Locks!TypeOK, Locks!Exclusion, LockMove(c)
    PROVE  /\ Locks!TypeOK'
           /\ Locks!Exclusion'
           /\ \A d \in Call \ {c} : mode'[d] = mode[d] /\ named'[d] = named[d]
<1> USE DEF Locks!TypeOK, Locks!Exclusion, Locks!Modes
<1>1. CASE \E ks \in SUBSET Film : Locks!Ask(c, ks)  BY <1>1 DEF Locks!Ask
<1>2. CASE Locks!Grant(c)                            BY <1>2 DEF Locks!Grant
<1>3. CASE Locks!Release(c)                          BY <1>3 DEF Locks!Release
<1>4. CASE UNCHANGED <<mode, named>>                 BY <1>4
<1> QED  BY <1>1, <1>2, <1>3, <1>4 DEF LockMove

(* What a step of call c leaves alone, and what it may do to what calls     *)
(* share: films it holds, or wrote to when it gave up; a film that is not   *)
(* there yet, the tag it is deleting; a tag that is not there yet, or one   *)
(* it deletes or renames.                                                   *)
SameFor(d) ==
    /\ pc'[d] = pc[d] /\ asks'[d] = asks[d] /\ at'[d] = at[d]
    /\ ids'[d] = ids[d] /\ want'[d] = want[d] /\ copy'[d] = copy[d] /\ late'[d] = late[d]

FilmWritten(c, f) ==
    /\ There(f)
    /\ \/ films'[f] \in FilmRecord /\ Given(films'[f].tags)
       \/ films'[f] = Gone /\ Is(c, {"delete"})
FilmHeld(c, f) ==
    FilmWritten(c, f) /\ mode[c] = "held" /\ f \in named[c] /\ pc'[c] # pc[c]
FilmLate(c, f) ==
    FilmWritten(c, f) /\ Lands(c, f) /\ f \in asks[c].films
FilmAdded(c, f) ==
    /\ Is(c, {"add"}) /\ films[f] = Absent
    /\ films'[f] \in FilmRecord /\ Given(films'[f].tags)
FilmStripped(c, f) ==
    /\ Is(c, {"tagDelete"})
    /\ Strips(c) \/ Lands(c, f)
    /\ There(f) /\ films'[f] = [films[f] EXCEPT !.tags = @ \ ids[c]]
FilmMove(c, f) ==
    \/ films'[f] = films[f]
    \/ FilmHeld(c, f) \/ FilmLate(c, f) \/ FilmAdded(c, f) \/ FilmStripped(c, f)

TagNew(t) == label[t] = Unused /\ label'[t] \in Label /\ Labelled({label'[t]}) = {}
TagChanged(c, t) ==
    label[t] # Unused /\ label'[t] # Unused /\ Is(c, {"tagDelete", "tagRename"})
TagMove(c, t) == label'[t] = label[t] \/ TagNew(t) \/ TagChanged(c, t)

OwnMove(c) ==
    /\ asks'[c] = asks[c] \/ (asks[c] = Nothing /\ asks'[c] \in Request[c])
    /\ Is(c, {"tagDelete"}) => ids[c] \subseteq ids'[c]
    /\ \A t \in ids'[c] : t \in Tag /\ (t \in ids[c] \/ label'[t] # Unused)
    /\ copy'[c] = copy[c] \/ \E f \in Film : There(f) /\ copy'[c] = films[f]

AddMove(c) ==
    Told(c)' => /\ asks'[c] = asks[c]
                /\ Told(c) \/ \A f \in asks[c].films :
                                 films[f] = Absent /\ films'[f] \in FilmRecord

LateMove(c) == \/ pc[c] # "failed" /\ late' = late
               \/ late[c] # "landed" /\ LateOf(c)'

Turn(c) ==
    /\ \A d \in Call \ {c} : SameFor(d)
    /\ LockMove(c)
    /\ \A f \in Film : FilmMove(c, f)
    /\ \A t \in Tag : TagMove(c, t)
    /\ OwnMove(c)
    /\ AddMove(c)
    /\ LateMove(c)
    /\ faults' \in Nat /\ faults <= faults'

-----------------------------------------------------------------------------
(* What a call was asked it stays asked, and no tag is no longer given.     *)
LEMMA TurnKeeps ==
    ASSUME Inv, NEW c \in Call, Turn(c)
    PROVE  /\ \A d \in Call : asks[d] # Nothing => asks'[d] = asks[d]
           /\ \A d \in Call \ {c} : SameFor(d) /\ mode'[d] = mode[d] /\ named'[d] = named[d]
           /\ \A t \in Tag : label[t] # Unused => label'[t] # Unused
           /\ Quiet' => Quiet
           /\ faults' = 0 => faults = 0
           /\ \A f : LandedOn(f) => LandedOn(f)'
<1>1. Locks!TypeOK /\ Locks!Exclusion
  BY DEF Inv, TypeOK
<1>2. \A d \in Call \ {c} : SameFor(d) /\ mode'[d] = mode[d] /\ named'[d] = named[d]
  BY <1>1, LocksStep DEF Turn
<1>3. \A d \in Call : asks[d] # Nothing => asks'[d] = asks[d]
  BY <1>2 DEF Turn, OwnMove, SameFor
<1>4. \A t \in Tag : label[t] # Unused => label'[t] # Unused
  BY Distinct DEF Turn, TagMove, TagNew, TagChanged
<1>5. Quiet' => Quiet
  BY <1>3 DEF Quiet, Is
<1>6. faults' = 0 => faults = 0
  BY DEF Turn, Inv, TypeOK
<1>7. ASSUME NEW d \in Call, late[d] = "landed" PROVE late'[d] = "landed" /\ asks'[d] = asks[d]
  <2>1. pc[d] = "failed" /\ asks[d] # Nothing
    BY <1>7 DEF Inv, CallInv, LateOf, StageOf
  <2>2. late'[d] = "landed"
    BY <1>2, <1>7, <2>1 DEF SameFor, Turn, LateMove
  <2> QED
    BY <1>3, <2>1, <2>2
<1>8. \A f : LandedOn(f) => LandedOn(f)'
  BY <1>7 DEF LandedOn
<1> QED
  BY <1>2, <1>3, <1>4, <1>5, <1>6, <1>8

(* So the tags that films and calls have stay given.                        *)
LEMMA TurnTags ==
    ASSUME Inv, NEW c \in Call, Turn(c)
    PROVE  TagsGiven'
<1>1. \A t \in Tag : label[t] # Unused => label'[t] # Unused
  BY TurnKeeps
<1>2. ASSUME NEW ts \in SUBSET Tag, Given(ts) PROVE \A t \in ts : label'[t] # Unused
  BY <1>1, <1>2 DEF Given
<1>3. ASSUME NEW f \in Film, films'[f] \in FilmRecord
      PROVE  \A t \in films'[f].tags : label'[t] # Unused
  <2>1. CASE films'[f] = films[f]
    BY <2>1, <1>2, <1>3 DEF Inv, TagsGiven, There, FilmRecord
  <2>2. CASE FilmHeld(c, f) \/ FilmLate(c, f) \/ FilmAdded(c, f)
    BY <2>2, <1>2, <1>3, Distinct DEF FilmHeld, FilmLate, FilmWritten, FilmAdded, FilmRecord
  <2>3. CASE FilmStripped(c, f)
    <3>1. films'[f].tags \in SUBSET films[f].tags /\ films[f].tags \in SUBSET Tag
      BY <2>3 DEF FilmStripped, There, FilmRecord
    <3>2. Given(films[f].tags)
      BY <2>3 DEF FilmStripped, Inv, TagsGiven
    <3> QED
      BY <3>1, <3>2, <1>2
  <2> QED
    BY <2>1, <2>2, <2>3 DEF Turn, FilmMove
<1>4. ASSUME NEW d \in Call PROVE \A t \in ids'[d] : label'[t] # Unused
  <2>1. ids[d] \in SUBSET Tag /\ Given(ids[d])
    BY DEF Inv, TypeOK, TagsGiven
  <2>2. CASE d = c
    BY <2>1, <2>2, <1>2 DEF Turn, OwnMove
  <2>3. CASE d # c
    BY <2>1, <2>3, <1>2 DEF Turn, SameFor
  <2> QED
    BY <2>2, <2>3
<1>5. ASSUME NEW d \in Call, copy'[d] \in FilmRecord
      PROVE  \A t \in copy'[d].tags : label'[t] # Unused
  <2>1. copy'[d] = copy[d] \/ \E f \in Film : There(f) /\ copy'[d] = films[f]
    BY DEF Turn, OwnMove, SameFor
  <2>2. copy'[d].tags \in SUBSET Tag
    BY <1>5 DEF FilmRecord
  <2>3. Given(copy'[d].tags)
    BY <2>1, <1>5 DEF Inv, TagsGiven, Given
  <2> QED
    BY <2>2, <2>3, <1>2
<1> QED
  BY <1>3, <1>4, <1>5 DEF TagsGiven, Given, There

-----------------------------------------------------------------------------
(* What a step leaves of the other calls: their stages and counts ...       *)
LEMMA OthersStage ==
    ASSUME Inv, NEW c \in Call, Turn(c), NEW d \in Call \ {c}
    PROVE  StageOf(d)' /\ CountOf(d)' /\ LateOf(d)'
<1>1. SameFor(d) /\ (faults' = 0 => faults = 0)
  BY TurnKeeps
<1>2. StageOf(d) /\ CountOf(d) /\ LateOf(d)
  BY DEF Inv, CallInv
<1>3. StageOf(d)'
  BY <1>1, <1>2 DEF StageOf, SameFor, Is
<1>4. CountOf(d)'
  BY <1>1, <1>2 DEF CountOf, SameFor, Is, Op
<1>5. LateOf(d)'
  BY <1>1, <1>2 DEF LateOf, SameFor, Is
<1> QED
  BY <1>3, <1>4, <1>5

(* ... a film that was there does not become one that never was ...         *)
LEMMA TurnThere ==
    ASSUME Inv, NEW c \in Call, Turn(c), NEW f \in Film, films[f] # Absent
    PROVE  films'[f] # Absent
<1>1. \/ films'[f] = films[f]
      \/ FilmHeld(c, f) \/ FilmLate(c, f) \/ FilmAdded(c, f) \/ FilmStripped(c, f)
  BY DEF Turn, FilmMove
<1>2. CASE FilmStripped(c, f)
  <2>1. films'[f] \in FilmRecord
    BY <1>2 DEF FilmStripped, There, FilmRecord
  <2> QED
    BY <2>1, Distinct
<1> QED
  BY <1>1, <1>2, Distinct DEF FilmHeld, FilmLate, FilmWritten, FilmAdded

(* ... their locks ...                                                      *)
LEMMA OthersLock ==
    ASSUME Inv, NEW c \in Call, Turn(c), NEW d \in Call \ {c}
    PROVE  LockOf(d)'
<1>1. SameFor(d) /\ mode'[d] = mode[d] /\ named'[d] = named[d]
  BY TurnKeeps
<1>2. LockOf(d) /\ named[d] \in SUBSET Film
  BY DEF Inv, CallInv, TypeOK, Locks!TypeOK
<1>3. mode[d] # "idle" => \A f \in named[d] : films'[f] # Absent
  BY <1>2, TurnThere DEF LockOf
<1> QED
  BY <1>1, <1>2, <1>3 DEF LockOf, SameFor, Is

(* ... a film that another call holds does not change, but by a tag_delete  *)
(* or a write given up on ...                                               *)
LEMMA HeldByOther ==
    ASSUME Inv, NEW c \in Call, Turn(c), NEW d \in Call \ {c}, mode[d] = "held",
           NEW f \in named[d]
    PROVE  films'[f] = films[f] \/ FilmLate(c, f) \/ FilmStripped(c, f)
<1>1. f \in Film /\ films[f] # Absent
  BY DEF Inv, CallInv, LockOf, TypeOK, Locks!TypeOK
<1>2. ~FilmHeld(c, f)
  BY DEF FilmHeld, Inv, Locks!Exclusion
<1>3. ~FilmAdded(c, f)
  BY <1>1 DEF FilmAdded
<1> QED
  BY <1>1, <1>2, <1>3 DEF Turn, FilmMove

(* ... and one of those lands, and has landed since ...                     *)
LEMMA LateLanded ==
    ASSUME Inv, NEW c \in Call, Turn(c), NEW f, FilmLate(c, f)
    PROVE  LandedOn(f)'
<1>1. late[c] # "none" /\ late'[c] = "landed" /\ f \in asks[c].films
  BY DEF FilmLate, Lands, Writes
<1>2. asks[c] # Nothing
  BY <1>1 DEF Inv, CallInv, LateOf, StageOf
<1>3. asks'[c] = asks[c]
  BY <1>2, TurnKeeps
<1> QED
  BY <1>1, <1>3 DEF LandedOn

(* ... the copy an edit is about to send ...                                *)
LEMMA OthersPoint ==
    ASSUME Inv, NEW c \in Call, Turn(c), NEW d \in Call \ {c}
    PROVE  PointOf(d)'
<1>1. SameFor(d)
  BY TurnKeeps
<1> SUFFICES ASSUME pc[d] = "point", NEW f \in asks[d].films, ~LandedOn(f)'
             PROVE  /\ There(f)'
                    /\ films'[f].path = copy[d].path
                    /\ films'[f].mon = copy[d].mon
                    /\ films'[f].tags \subseteq copy[d].tags
                    /\ \A t \in copy[d].tags \ films'[f].tags :
                          \E e \in Call : Is(e, {"tagDelete"})' /\ t \in ids'[e]
  BY <1>1 DEF PointOf, SameFor
<1>2. /\ There(f) /\ films[f].path = copy[d].path /\ films[f].mon = copy[d].mon
      /\ films[f].tags \subseteq copy[d].tags
      /\ \A t \in copy[d].tags \ films[f].tags :
            \E e \in Call : Is(e, {"tagDelete"}) /\ t \in ids[e]
  BY TurnKeeps DEF Inv, CallInv, PointOf
<1>3. mode[d] = "held" /\ named[d] = asks[d].films
  BY DEF Inv, CallInv, LockOf, StageOf, Is, Ended
<1>4. films'[f] = films[f] \/ FilmStripped(c, f)
  BY <1>3, HeldByOther, LateLanded
<1>5. ASSUME NEW e \in Call, Is(e, {"tagDelete"})
      PROVE  Is(e, {"tagDelete"})' /\ ids[e] \subseteq ids'[e]
  BY <1>5, TurnKeeps DEF Is, Turn, OwnMove, SameFor
<1>6. \A t \in copy[d].tags \ films[f].tags :
         \E e \in Call : Is(e, {"tagDelete"})' /\ t \in ids'[e]
  BY <1>2, <1>5
<1>7. CASE films'[f] = films[f]
  BY <1>2, <1>6, <1>7 DEF There
<1>8. CASE FilmStripped(c, f)
  <2>1. /\ films'[f] \in FilmRecord
        /\ films'[f].path = films[f].path /\ films'[f].mon = films[f].mon
        /\ films'[f].tags = films[f].tags \ ids[c]
    BY <1>8 DEF FilmStripped, There, FilmRecord
  <2>2. Is(c, {"tagDelete"})' /\ ids[c] \subseteq ids'[c]
    BY <1>5, <1>8 DEF FilmStripped
  <2> QED
    BY <1>2, <1>6, <2>1, <2>2 DEF There
<1> QED
  BY <1>4, <1>7, <1>8

(* While no tag is deleted or renamed, labels that are there stay, and no  *)
(* other tag is called so.                                                 *)
LEMMA QuietTags ==
    ASSUME Inv, NEW c \in Call, Turn(c), Quiet'
    PROVE  /\ \A t \in Tag : label[t] # Unused => label'[t] = label[t]
           /\ \A ls \in SUBSET Label : (\A l \in ls : Labelled({l}) # {})
                                       => {t \in Tag : label'[t] \in ls} = Labelled(ls)
<1>1. Quiet
  BY TurnKeeps
<1>2. \A t \in Tag : label'[t] = label[t] \/ TagNew(t)
  BY <1>1 DEF Turn, TagMove, TagChanged, Quiet, Is
<1>3. \A t \in Tag : label[t] # Unused => label'[t] = label[t]
  BY <1>2 DEF TagNew
<1>4. ASSUME NEW ls \in SUBSET Label, \A l \in ls : Labelled({l}) # {}
      PROVE  {t \in Tag : label'[t] \in ls} = Labelled(ls)
  <2>1. ASSUME NEW t \in Tag PROVE label'[t] \in ls <=> label[t] \in ls
    <3>1. CASE label'[t] = label[t]
      BY <3>1
    <3>2. CASE TagNew(t)
      BY <3>2, <1>4, Distinct DEF TagNew
    <3> QED
      BY <1>2, <3>1, <3>2
  <2> QED
    BY <2>1 DEF Labelled
<1> QED
  BY <1>3, <1>4

(* An edit's request, and the tag operation it is at.                       *)
LEMMA EditAsks ==
    ASSUME Inv, NEW d \in Call, Is(d, {"edit"})
    PROVE  /\ asks[d] \in EditRequests /\ Shape(asks[d])
           /\ InOrder(asks[d], Ops(asks[d]))
           /\ Len(Ops(asks[d])) \in 0 .. 3
           /\ pc[d] \in {"tags", "create", "again", "apply"} => at[d] <= Len(Ops(asks[d]))
           /\ at[d] <= Len(Ops(asks[d])) =>
                 /\ at[d] \in 1 .. Len(Ops(asks[d]))
                 /\ Op(d).labels \in SUBSET Label
                 /\ Op(d).apply \in {"replace", "add", "remove"}
<1>1. asks[d] \in Request[d]
  BY DEF Inv, TypeOK, Is
<1>2. Shape(asks[d])
  BY <1>1, Shapes
<1>3. asks[d] \in EditRequests
  BY <1>2 DEF Shape, Is
<1>4. InOrder(asks[d], Ops(asks[d]))
  BY <1>3, OpsInOrder
<1>5. Len(Ops(asks[d])) \in 0 .. 3
  BY <1>4 DEF InOrder
<1>6. pc[d] \in {"tags", "create", "again", "apply"} => at[d] <= Len(Ops(asks[d]))
  BY DEF Inv, CallInv, CountOf
<1>7. at[d] <= Len(Ops(asks[d])) => at[d] \in 1 .. Len(Ops(asks[d]))
  <2>1. at[d] \in 1 .. 5
    BY DEF Inv, TypeOK
  <2> QED
    BY <1>5, <2>1
<1>8. ASSUME at[d] \in 1 .. Len(Ops(asks[d]))
      PROVE  Op(d).labels \in SUBSET Label /\ Op(d).apply \in {"replace", "add", "remove"}
  BY <1>4, <1>8 DEF InOrder, Op
<1> QED
  BY <1>2, <1>3, <1>4, <1>5, <1>8, <1>6, <1>7

(* ... the tags it has resolved and the labels it has yet to create ...    *)
LEMMA OthersTags ==
    ASSUME Inv, NEW c \in Call, Turn(c), NEW d \in Call \ {c}
    PROVE  TagsOf(d)'
<1>1. SameFor(d)
  BY TurnKeeps
<1> SUFFICES ASSUME Is(d, {"edit"}), Quiet'
             PROVE  TagsOf(d)'
  BY <1>1 DEF TagsOf, SameFor, Is
<1>2. Quiet /\ TagsOf(d)
  BY TurnKeeps DEF Inv, CallInv
<1>3. ids[d] \in SUBSET Tag /\ Given(ids[d]) /\ want[d] \in SUBSET Label
  BY DEF Inv, TypeOK, TagsGiven
<1>4. \A t \in ids[d] : label'[t] = label[t]
  BY <1>3, QuietTags DEF Given
<1>5. {label'[t] : t \in ids[d]} = {label[t] : t \in ids[d]}
  BY <1>4
<1>6. Op(d)' = Op(d) /\ Wanted(d)' = Wanted(d)
  BY <1>1 DEF Op, Wanted, SameFor
<1>7. ASSUME pc[d] = "apply"
      PROVE  Labelled(Op(d).labels)' = Labelled(Op(d).labels)
  <2>1. {label[t] : t \in ids[d]} = Op(d).labels
    BY <1>2, <1>7 DEF TagsOf, Inv, CallInv, CountOf
  <2>2. Op(d).labels \in SUBSET Label
    BY <1>7, EditAsks
  <2>3. \A l \in Op(d).labels : Labelled({l}) # {}
    BY <1>3, <2>1 DEF Labelled
  <2>4. {t \in Tag : label'[t] \in Op(d).labels} = Labelled(Op(d).labels)
    BY <2>2, <2>3, QuietTags
  <2> QED
    BY <2>4, <1>6 DEF Labelled
<1>8. ASSUME pc[d] = "again"
      PROVE  Labelled({Wanted(d)})' # {}
  <2>1. Wanted(d) \in Label
    BY <1>3, <1>8 DEF Wanted, Inv, CallInv, CountOf
  <2>2. Labelled({Wanted(d)}) # {}
    BY <1>2, <1>8 DEF TagsOf
  <2>3. {t \in Tag : label'[t] \in {Wanted(d)}} = Labelled({Wanted(d)})
    BY <2>1, <2>2, QuietTags
  <2> QED
    BY <2>2, <2>3, <1>6 DEF Labelled
<1> QED
  BY <1>1, <1>2, <1>5, <1>6, <1>7, <1>8 DEF TagsOf, SameFor

(* ... what an edit has done stands ...                                     *)
LEMMA OthersStand ==
    ASSUME Inv, NEW c \in Call, Turn(c), NEW d \in Call \ {c}
    PROVE  StandOf(d)'
<1>1. SameFor(d)
  BY TurnKeeps
<1>2. /\ Is(d, {"edit"})' <=> Is(d, {"edit"})
      /\ Acted(d)' <=> Acted(d)
      /\ TakenOff(d)' = TakenOff(d) /\ PutOn(d)' = PutOn(d)
      /\ Past(d, "replace")' <=> Past(d, "replace")
      /\ Pointed(d)' <=> Pointed(d)
      /\ Fielded(d)' <=> Fielded(d)
      /\ pc'[d] = pc[d] /\ asks'[d] = asks[d]
  BY <1>1 DEF SameFor, Is, Acted, TakenOff, PutOn, Past, Pointed, Fielded
<1> SUFFICES ASSUME Is(d, {"edit"}), Quiet', pc[d] \in Editing, Acted(d),
                    NEW f \in asks[d].films, ~LandedOn(f)'
             PROVE  SoFar(d, f)'
  BY <1>2 DEF StandOf
<1>3. Quiet /\ SoFar(d, f)
  BY TurnKeeps DEF Inv, CallInv, StandOf
<1>4. mode[d] = "held" /\ named[d] = asks[d].films
  BY DEF Inv, CallInv, LockOf, Is, Editing, Ended
<1>5. films'[f] = films[f]
  <2>1. ~Is(c, {"tagDelete"})
    BY <1>3 DEF Quiet, Is
  <2> QED
    BY <1>4, <2>1, HeldByOther, LateLanded DEF FilmStripped
<1>6. f \in Film /\ films[f] \in FilmRecord
  BY <1>3, <1>4 DEF SoFar, There, Inv, TypeOK, Locks!TypeOK
<1>7. \A t \in films[f].tags : label'[t] = label[t]
  <2>1. films[f].tags \in SUBSET Tag /\ Given(films[f].tags)
    BY <1>6 DEF FilmRecord, Inv, TagsGiven, There
  <2> QED
    BY <2>1, QuietTags DEF Given
<1>8. Carried(f)' = Carried(f)
  BY <1>5, <1>7 DEF Carried
<1>9. There(f)'
  BY <1>5, <1>6 DEF There
<1> QED
  BY <1>2, <1>3, <1>5, <1>8, <1>9 DEF SoFar

(* ... why it failed ...                                                    *)
LEMMA KeptRace ==
    ASSUME Inv, NEW c \in Call, Turn(c), NEW d \in Call,
           pc'[d] = pc[d], asks'[d] = asks[d], copy'[d] = copy[d]
    PROVE  RaceOf(d)'
<1> SUFFICES ASSUME pc[d] = "failed", Is(d, {"edit"}), faults' = 0, Quiet',
                    asks[d].remove = {}, \A e \in Call : ~Is(e, {"add", "delete"})'
             PROVE  \/ \E f \in asks[d].films : ~There(f)'
                    \/ /\ asks[d].folder # NotGiven
                       /\ "path" \in asks[d].fields \/ copy[d].path = asks[d].folder
  BY DEF RaceOf, Is
<1>1. \A e \in Call : ~Is(e, {"add", "delete"})
  BY TurnKeeps DEF Is
<1>2. \/ \E f \in asks[d].films : ~There(f)
      \/ /\ asks[d].folder # NotGiven
         /\ "path" \in asks[d].fields \/ copy[d].path = asks[d].folder
  BY <1>1, TurnKeeps DEF RaceOf, Inv, CallInv
<1>3. ASSUME NEW f \in asks[d].films, ~There(f) PROVE ~There(f)'
  <2>1. f \in Film
    BY EditAsks DEF Shape
  <2>2. ~FilmHeld(c, f) /\ ~FilmLate(c, f) /\ ~FilmStripped(c, f)
    BY <1>3 DEF FilmHeld, FilmLate, FilmWritten, FilmStripped
  <2>3. ~FilmAdded(c, f)
    BY <1>1 DEF FilmAdded, Is
  <2> QED
    BY <1>3, <2>1, <2>2, <2>3 DEF Turn, FilmMove, There
<1> QED
  BY <1>2, <1>3

(* ... and who added what.                                                  *)
LEMMA EveryAdd ==
    ASSUME Inv, NEW c \in Call, Turn(c), NEW d \in Call
    PROVE  AddOf(d)'
<1>1. \A e \in Call \ {c} : (Told(e)' <=> Told(e)) /\ asks'[e] = asks[e]
  BY TurnKeeps DEF Told, Is, SameFor
<1>2. \A e \in Call : Told(e) => AddOf(e) /\ asks[e].films \in SUBSET Film
  <2> SUFFICES ASSUME NEW e \in Call, Told(e) PROVE AddOf(e) /\ asks[e].films \in SUBSET Film
    OBVIOUS
  <2>1. asks[e] \in Request[e]
    BY DEF Told, Is, Inv, TypeOK
  <2> QED
    BY <2>1, Shapes DEF Shape, Inv, CallInv
<1>3. \A e \in Call : Told(e)' => asks'[e] = asks[e]
  BY <1>1 DEF Turn, AddMove
<1>4. Told(c)' => \/ Told(c)
                  \/ \A f \in asks[c].films : films[f] = Absent /\ films'[f] \in FilmRecord
  BY DEF Turn, AddMove
<1> SUFFICES ASSUME Told(d)', NEW f \in asks[d].films
             PROVE  /\ films'[f] # Absent
                    /\ \A e \in Call \ {d} : Told(e)' => f \notin asks[e].films
  BY <1>3 DEF AddOf, Told
<1>5. CASE Told(d)
  <2>1. f \in Film /\ films[f] # Absent
    BY <1>2, <1>5 DEF AddOf
  <2>2. films'[f] # Absent
    BY <2>1, TurnThere
  <2>3. \A e \in Call \ {d} : Told(e)' => f \notin asks[e].films
    BY <1>1, <1>2, <1>4, <1>5, <2>1 DEF AddOf
  <2> QED
    BY <2>2, <2>3
<1>6. CASE ~Told(d)
  <2>1. d = c /\ films[f] = Absent /\ films'[f] \in FilmRecord
    BY <1>1, <1>4, <1>6
  <2>2. films'[f] # Absent
    BY <2>1, Distinct
  <2>3. \A e \in Call \ {d} : Told(e)' => f \notin asks[e].films
    BY <1>1, <1>2, <2>1 DEF AddOf
  <2> QED
    BY <2>2, <2>3
<1> QED
  BY <1>5, <1>6

(* So of a step it is enough to look at the call that makes it.             *)
Own(c) == /\ StageOf(c) /\ CountOf(c) /\ LockOf(c) /\ PointOf(c)
          /\ TagsOf(c) /\ StandOf(c) /\ RaceOf(c)

(* With the rest of the calls kept, the invariant is.                      *)
LEMMA TurnInv ==
    ASSUME Inv, NEW c \in Call, Turn(c), TypeOK', Own(c)'
    PROVE  Inv'
<1>1. Locks!Exclusion'
  BY LocksStep DEF Inv, TypeOK, Turn
<1>2. TagsGiven'
  BY TurnTags
<1>3. CallInv(c)'
  <2>1. LateOf(c)'
    BY DEF Turn, LateMove, LateOf, Inv, CallInv
  <2> QED
    BY <2>1, EveryAdd DEF Own, CallInv
<1>4. ASSUME NEW d \in Call \ {c} PROVE CallInv(d)'
  <2>1. pc'[d] = pc[d] /\ asks'[d] = asks[d] /\ copy'[d] = copy[d]
    BY DEF Turn, SameFor
  <2>2. RaceOf(d)'
    BY <2>1, KeptRace
  <2>3. AddOf(d)'
    BY EveryAdd
  <2> QED
    BY <2>2, <2>3, OthersStage, OthersLock, OthersPoint, OthersTags, OthersStand DEF CallInv
<1> QED
  BY <1>1, <1>2, <1>3, <1>4 DEF Inv

-----------------------------------------------------------------------------
(* How a call goes on, and how it ends.                                     *)
LEMMA GoesIs ==
    ASSUME Inv, NEW c \in Call, NEW to \in Stages, Goes(c, to)
    PROVE  pc' \in [Call -> Stages] /\ pc'[c] = to /\ \A d \in Call \ {c} : pc'[d] = pc[d]
BY DEF Goes, Inv, TypeOK

(* How it ends: what it held is unlocked.                                  *)
LEMMA EndsIs ==
    ASSUME Inv, NEW c \in Call, NEW how \in Stages, Ends(c, how)
    PROVE  /\ pc' \in [Call -> Stages] /\ pc'[c] = how
           /\ \A d \in Call \ {c} : pc'[d] = pc[d]
           /\ LockMove(c) /\ Locks!TypeOK'
           /\ pc[c] # "lock" => mode'[c] = "idle"
<1>1. Goes(c, how) /\ Unlock(c)
  BY DEF Ends
<1>2. LockMove(c)
  BY <1>1 DEF Unlock, LockMove
<1>3. Locks!TypeOK'
  BY <1>2, LocksStep DEF Inv, TypeOK
<1>4. pc[c] # "lock" => mode'[c] = "idle"
  <2>1. mode[c] \in {"idle", "asked", "held"} /\ (mode[c] = "asked" => pc[c] = "lock")
    BY DEF Inv, CallInv, LockOf
  <2>2. CASE mode[c] = "held"
    BY <1>1, <2>2 DEF Unlock, Locks!Release, Inv, TypeOK, Locks!TypeOK
  <2>3. CASE mode[c] # "held"
    BY <1>1, <2>1, <2>3 DEF Unlock
  <2> QED
    BY <2>2, <2>3
<1> QED
  BY <1>1, <1>2, <1>3, <1>4, GoesIs

(* One that goes on keeps what it holds.                                    *)
LEMMA GoesOnIs ==
    ASSUME Inv, NEW c \in Call, NEW to \in Stages, GoesOn(c, to)
    PROVE  /\ pc' \in [Call -> Stages] /\ pc'[c] = to
           /\ \A d \in Call \ {c} : pc'[d] = pc[d]
           /\ LockMove(c) /\ Locks!TypeOK' /\ UNCHANGED <<mode, named>>
<1>1. Goes(c, to) /\ UNCHANGED <<mode, named>>
  BY DEF GoesOn
<1> QED
  BY <1>1, GoesIs DEF LockMove, Inv, TypeOK, Locks!TypeOK

(* Where no request fails, none more has.                                   *)
LEMMA FaultsSame ==
    ASSUME Inv, faults' = faults
    PROVE  faults' \in 0 .. MaxFaults /\ faults' \in Nat /\ faults <= faults'
BY FilmsAssumption DEF Inv, TypeOK

(* A call that has ended promises no more than why.                         *)
LEMMA EndedOwn ==
    ASSUME Inv, NEW c \in Call, pc[c] \notin {"new", "lock"},
           NEW how \in Ended, Ends(c, how), asks'[c] = asks[c],
           Is(c, {"tagCreate"}) => ids'[c] = {}, RaceOf(c)'
    PROVE  Own(c)'
<1>1. how \in Stages
  BY DEF Ended, Stages
<1>2. pc'[c] = how /\ mode'[c] = "idle"
  BY <1>1, EndsIs
<1>3. asks[c] # Nothing
  BY DEF Inv, CallInv, StageOf
<1>4. StageOf(c)'
  BY <1>2, <1>3 DEF StageOf, Is, Ended, Editing
<1>5. CountOf(c)' /\ LockOf(c)' /\ PointOf(c)' /\ TagsOf(c)' /\ StandOf(c)'
  BY <1>2 DEF CountOf, LockOf, PointOf, TagsOf, StandOf, Editing, Ended
<1> QED
  BY <1>4, <1>5 DEF Own

(* One that goes on keeps its locks.                                        *)
LEMMA GoesOnLock ==
    ASSUME Inv, NEW c \in Call, Turn(c), asks'[c] = asks[c], UNCHANGED <<mode, named>>,
           pc[c] \notin {"new", "find", "lock"} \cup Ended,
           pc'[c] \notin {"new", "find", "lock"} \cup Ended
    PROVE  LockOf(c)'
<1>1. LockOf(c) /\ named[c] \in SUBSET Film
  BY DEF Inv, CallInv, TypeOK, Locks!TypeOK
<1>2. mode[c] # "idle" => \A f \in named[c] : films'[f] # Absent
  BY <1>1, TurnThere DEF LockOf
<1> QED
  BY <1>1, <1>2 DEF LockOf, Is

(* An error is as it may be when a request failed, or it is not an edit's.  *)
LEMMA RaceSpared ==
    ASSUME NEW c \in Call, pc'[c] # "failed" \/ faults' # 0 \/ ~Is(c, {"edit"})'
    PROVE  RaceOf(c)'
BY DEF RaceOf

(* A step that changes nothing Radarr has.                                  *)
LEMMA NothingMoves ==
    ASSUME NEW c \in Call, UNCHANGED <<films, label>>
    PROVE  (\A f \in Film : FilmMove(c, f)) /\ (\A t \in Tag : TagMove(c, t))
BY DEF FilmMove, TagMove

(* A call that ends with an error and has changed nothing.                  *)
LEMMA FailsInv ==
    ASSUME Inv, NEW c \in Call, pc[c] \notin {"new", "lock"}, Ends(c, "failed"),
           UNCHANGED <<films, label, asks, seen>>,
           at' \in [Call -> 1 .. 5], ids' \in [Call -> SUBSET Tag], want' \in [Call -> SUBSET Label],
           copy' \in [Call -> FilmRecord \cup {Nothing}],
           late' \in [Call -> Writes \cup {"none", "landed"}],
           \A d \in Call \ {c} : /\ at'[d] = at[d] /\ ids'[d] = ids[d] /\ want'[d] = want[d]
                                 /\ copy'[d] = copy[d] /\ late'[d] = late[d],
           Given(ids'[c]), Is(c, {"tagDelete", "tagCreate"}) => ids'[c] = ids[c],
           copy'[c] = copy[c] \/ \E f \in Film : There(f) /\ copy'[c] = films[f],
           LateMove(c), faults' \in 0 .. MaxFaults, faults <= faults', RaceOf(c)'
    PROVE  Turn(c) /\ Inv'
<1>1. "failed" \in Stages /\ "failed" \in Ended
  BY DEF Stages, Ended
<1>2. /\ pc' \in [Call -> Stages] /\ \A d \in Call \ {c} : pc'[d] = pc[d]
      /\ pc'[c] = "failed" /\ LockMove(c) /\ Locks!TypeOK'
  BY <1>1, EndsIs
<1>3. faults' \in Nat
  BY FilmsAssumption
<1>4. Turn(c)
  <2>1. OwnMove(c)
    BY DEF OwnMove, Given, Is
  <2>2. AddMove(c)
    BY <1>2 DEF AddMove, Told
  <2> QED
    BY <1>2, <1>3, <2>1, <2>2, NothingMoves DEF Turn, SameFor
<1>5. TypeOK'
  BY <1>2 DEF Inv, TypeOK
<1>6. Own(c)'
  <2>1. Is(c, {"tagCreate"}) => ids'[c] = {}
    BY DEF Inv, CallInv, StageOf, Is
  <2> QED
    BY <1>1, <2>1, EndedOwn
<1> QED
  BY <1>4, <1>5, <1>6, TurnInv

(* The same of a call that keeps what it had.                               *)
LEMMA FailsSame ==
    ASSUME Inv, NEW c \in Call, pc[c] \notin {"new", "lock", "failed"}, Ends(c, "failed"),
           UNCHANGED <<films, label, asks, at, ids, want, copy, seen, faults, late>>, RaceOf(c)'
    PROVE  Turn(c) /\ Inv'
<1>1. Given(ids[c])
  BY DEF Inv, TagsGiven
<1>2. Given(ids'[c]) /\ LateMove(c)
  BY <1>1 DEF Given, LateMove
<1> QED
  BY <1>2, FaultsSame, FailsInv DEF Inv, TypeOK

-----------------------------------------------------------------------------
(* What an add was asked: one film, and labels.                             *)
LEMMA AddAsks ==
    ASSUME Inv, NEW c \in Call, Is(c, {"add"})
    PROVE  /\ \E f \in Film : asks[c].films = {f}
           /\ ~Is(c, {"edit"}) /\ ~Is(c, {"delete"}) /\ ~Is(c, {"edit", "delete"})
           /\ ~Is(c, {"tagDelete"}) /\ ~Is(c, {"tagCreate"})
           /\ mode[c] = "idle"
<1>1. asks[c] \in Request[c] /\ asks[c].tool = "add"
  BY DEF Is, Inv, TypeOK
<1>2. asks[c].films \in Single
  BY <1>1, Shapes DEF Shape
<1>3. mode[c] = "idle"
  BY <1>1 DEF Inv, CallInv, LockOf, StageOf, Is
<1> QED
  BY <1>1, <1>2, <1>3 DEF Single, Is

(* What a tool that changes tags was asked: it holds nothing.               *)
LEMMA TagAsks ==
    ASSUME Inv, NEW c \in Call, Is(c, {"tagDelete", "tagCreate", "tagRename"})
    PROVE  /\ Is(c, {"tagDelete"}) => asks[c].label \in Label
           /\ Is(c, {"tagCreate", "tagRename"}) => asks[c].to \in Label
           /\ Is(c, {"tagRename"}) => asks[c].label \in Label
           /\ ~Is(c, {"edit"}) /\ ~Is(c, {"add"}) /\ ~Is(c, {"delete"})
           /\ ~Is(c, {"edit", "delete"}) /\ ~Is(c, {"edit", "add"})
           /\ mode[c] = "idle" /\ ids[c] \in SUBSET Tag /\ Given(ids[c])
<1>1. asks[c] \in Request[c] /\ asks[c].tool \in {"tagDelete", "tagCreate", "tagRename"}
  BY DEF Is, Inv, TypeOK
<1>2. Shape(asks[c])
  BY <1>1, Shapes
<1>3. mode[c] = "idle"
  BY <1>1 DEF Inv, CallInv, LockOf, StageOf, Is
<1>4. ids[c] \in SUBSET Tag /\ Given(ids[c])
  BY DEF Inv, TypeOK, TagsGiven
<1> QED
  BY <1>1, <1>2, <1>3, <1>4 DEF Shape, Is

(* What Radarr's taking a write does to the films and the tags, whether its *)
(* call is there or has given up on it.  The movie editor changes the films *)
(* it is given ...                                                          *)
FilmsTyped == films' \in [Film -> FilmRecord \cup {Absent, Gone}]
OnlyFilms(fs) == \A f \in Film \ fs : films'[f] = films[f]

LEMMA EditorIs ==
    ASSUME Inv, NEW fs \in SUBSET Film, NEW changed, Editor(fs, changed),
           \A f \in fs : changed[f] \in FilmRecord
    PROVE  /\ FilmsTyped /\ OnlyFilms(fs)
           /\ \A f \in fs : There(f) /\ films'[f] = changed[f]
<1>1. /\ \A f \in fs : There(f)
      /\ films' = [f \in Film |-> IF f \in fs THEN changed[f] ELSE films[f]]
  BY DEF Editor
<1>2. \A f \in Film : films'[f] \in FilmRecord \cup {Absent, Gone}
  BY <1>1 DEF Inv, TypeOK
<1> QED
  BY <1>1, <1>2 DEF FilmsTyped, OnlyFilms

(* ... their fields ...                                                     *)
LEMMA FieldsSetIs ==
    ASSUME Inv, NEW c \in Call, Is(c, {"edit"}), FieldsSet(c)
    PROVE  /\ FilmsTyped /\ OnlyFilms(asks[c].films) /\ asks[c].films \in SUBSET Film
           /\ \A f \in asks[c].films :
                 /\ There(f) /\ films'[f] \in FilmRecord
                 /\ films'[f].path = IF "path" \in asks[c].fields THEN c ELSE films[f].path
                 /\ films'[f].mon = IF "mon" \in asks[c].fields THEN c ELSE films[f].mon
                 /\ films'[f].tags = films[f].tags
                 /\ Given(films'[f].tags)
<1> DEFINE fs == asks[c].films
           changed == [f \in fs |->
               [films[f] EXCEPT !.path = IF "path" \in asks[c].fields THEN c ELSE @,
                                !.mon  = IF "mon" \in asks[c].fields THEN c ELSE @]]
<1>1. fs \in SUBSET Film /\ Editor(fs, changed)
  BY EditAsks DEF FieldsSet, Shape
<1>2. \A f \in fs : There(f)
  BY <1>1 DEF Editor
<1>3. ASSUME NEW f \in fs
      PROVE  /\ changed[f] \in FilmRecord
             /\ changed[f].path = IF "path" \in asks[c].fields THEN c ELSE films[f].path
             /\ changed[f].mon = IF "mon" \in asks[c].fields THEN c ELSE films[f].mon
             /\ changed[f].tags = films[f].tags
             /\ Given(films[f].tags)
  BY <1>1, <1>2 DEF There, FilmRecord, Inv, TagsGiven
<1> HIDE DEF changed
<1>4. /\ FilmsTyped /\ OnlyFilms(fs)
      /\ \A f \in fs : There(f) /\ films'[f] = changed[f]
  BY <1>1, <1>3, EditorIs
<1> QED
  BY <1>1, <1>3, <1>4

(* ... or their tags ...                                                    *)
LEMMA TagsAppliedIs ==
    ASSUME Inv, NEW c \in Call, Is(c, {"edit"}), at[c] <= Len(Ops(asks[c])), TagsApplied(c)
    PROVE  /\ FilmsTyped /\ OnlyFilms(asks[c].films) /\ asks[c].films \in SUBSET Film
           /\ \A f \in asks[c].films :
                 /\ There(f) /\ films'[f] \in FilmRecord
                 /\ films'[f].path = films[f].path /\ films'[f].mon = films[f].mon
                 /\ films'[f].tags = Applied(Op(c), films[f].tags, ids[c])
                 /\ Given(films'[f].tags)
<1> DEFINE fs == asks[c].films
           changed == [f \in fs |-> [films[f] EXCEPT !.tags = Applied(Op(c), @, ids[c])]]
<1>1. fs \in SUBSET Film /\ Editor(fs, changed) /\ Op(c).apply \in {"replace", "add", "remove"}
  BY EditAsks DEF TagsApplied, Shape
<1>2. \A f \in fs : There(f)
  BY <1>1 DEF Editor
<1>3. ASSUME NEW f \in fs
      PROVE  /\ changed[f] \in FilmRecord
             /\ changed[f].path = films[f].path /\ changed[f].mon = films[f].mon
             /\ changed[f].tags = Applied(Op(c), films[f].tags, ids[c])
             /\ Given(Applied(Op(c), films[f].tags, ids[c]))
  <2>1. /\ films[f] \in FilmRecord /\ films[f].tags \in SUBSET Tag /\ ids[c] \in SUBSET Tag
        /\ Given(films[f].tags) /\ Given(ids[c])
    BY <1>1, <1>2 DEF There, FilmRecord, Inv, TypeOK, TagsGiven
  <2>2. /\ Applied(Op(c), films[f].tags, ids[c]) \in SUBSET Tag
        /\ Applied(Op(c), films[f].tags, ids[c]) \subseteq films[f].tags \cup ids[c]
    BY <1>1, <2>1 DEF Applied
  <2>3. changed[f] = [films[f] EXCEPT !.tags = Applied(Op(c), films[f].tags, ids[c])]
    OBVIOUS
  <2> QED
    BY <2>1, <2>2, <2>3 DEF FilmRecord, Given
<1> HIDE DEF changed
<1>4. /\ FilmsTyped /\ OnlyFilms(fs)
      /\ \A f \in fs : There(f) /\ films'[f] = changed[f]
  BY <1>1, <1>3, EditorIs
<1> QED
  BY <1>1, <1>3, <1>4

(* ... and a tag_delete's takes its tag off ...                             *)
LEMMA TagStrippedIs ==
    ASSUME Inv, NEW c \in Call, TagStripped(c)
    PROVE  /\ FilmsTyped
           /\ \A f \in Film : \/ films'[f] = films[f]
                              \/ There(f) /\ films'[f] = [films[f] EXCEPT !.tags = @ \ ids[c]]
<1> DEFINE fs == seen[c]
           changed == [f \in fs |-> [films[f] EXCEPT !.tags = @ \ ids[c]]]
<1>1. fs \in SUBSET Film /\ Editor(fs, changed)
  BY DEF TagStripped, Inv, TypeOK
<1>2. \A f \in fs : There(f)
  BY <1>1 DEF Editor
<1>3. ASSUME NEW f \in fs
      PROVE  changed[f] \in FilmRecord /\ changed[f] = [films[f] EXCEPT !.tags = @ \ ids[c]]
  BY <1>2 DEF There, FilmRecord
<1> HIDE DEF changed
<1>4. /\ FilmsTyped /\ OnlyFilms(fs)
      /\ \A f \in fs : There(f) /\ films'[f] = changed[f]
  BY <1>1, <1>3, EditorIs
<1> QED
  BY <1>3, <1>4 DEF OnlyFilms

(* ... a film sent back whole is what was read, in its folder ...           *)
LEMMA FilmPointedIs ==
    ASSUME Inv, NEW c \in Call, Is(c, {"edit"}), asks[c].folder # NotGiven,
           copy[c] \in FilmRecord, FilmPointed(c)
    PROVE  \E f \in Film :
              /\ asks[c].films = {f} /\ There(f) /\ FilmsTyped /\ OnlyFilms({f})
              /\ films'[f] \in FilmRecord /\ films'[f].path = asks[c].folder
              /\ Given(films'[f].tags)
<1>1. asks[c].films \in Single /\ asks[c].folder \in Call \cup {Base}
  BY EditAsks DEF Shape, EditRequests, Is
<1>2. PICK f \in Film : asks[c].films = {f}
  BY <1>1 DEF Single
<1> DEFINE new == [copy[c] EXCEPT !.path = asks[c].folder]
<1>3. There(f) /\ films' = [films EXCEPT ![f] = new]
  BY <1>2 DEF FilmPointed
<1>4. new \in FilmRecord /\ new.path = asks[c].folder /\ new.tags = copy[c].tags
  BY <1>1 DEF FilmRecord
<1>5. Given(new.tags)
  BY <1>4 DEF Inv, TagsGiven
<1> HIDE DEF new
<1>6. FilmsTyped /\ OnlyFilms({f}) /\ films'[f] = new
  BY <1>3, <1>4 DEF FilmsTyped, OnlyFilms, Inv, TypeOK
<1> QED
  BY <1>2, <1>3, <1>4, <1>5, <1>6

(* ... one is added ...                                                     *)
LEMMA FilmMadeIs ==
    ASSUME Inv, NEW c \in Call, Is(c, {"add"}), FilmMade(c)
    PROVE  /\ FilmsTyped /\ \A f \in Film : films'[f] = films[f] \/ FilmAdded(c, f)
           /\ \A f \in asks[c].films : films[f] = Absent /\ films'[f] \in FilmRecord
<1>1. PICK f \in Film : asks[c].films = {f}
  BY AddAsks
<1> DEFINE new == [path |-> c, mon |-> c, tags |-> ids[c]]
<1>2. films[f] = Absent /\ films' = [films EXCEPT ![f] = new]
  BY <1>1 DEF FilmMade
<1>3. new \in FilmRecord /\ Given(new.tags)
  BY DEF FilmRecord, Inv, TypeOK, TagsGiven
<1> HIDE DEF new
<1>4. FilmsTyped /\ films'[f] = new /\ \A g \in Film \ {f} : films'[g] = films[g]
  BY <1>2, <1>3 DEF FilmsTyped, Inv, TypeOK
<1> QED
  BY <1>1, <1>2, <1>3, <1>4 DEF FilmAdded

(* ... or deleted; a tag is created ...                                     *)
LEMMA FilmGoneIs ==
    ASSUME Inv, NEW c \in Call, Is(c, {"delete"}), FilmGone(c)
    PROVE  \E f \in Film :
              /\ asks[c].films = {f} /\ There(f) /\ FilmsTyped /\ OnlyFilms({f})
              /\ films'[f] = Gone
<1>1. asks[c] \in Request[c] /\ asks[c].tool = "delete"
  BY DEF Is, Inv, TypeOK
<1>2. PICK f \in Film : asks[c].films = {f}
  BY <1>1, Shapes DEF Shape, Single
<1>3. There(f) /\ films' = [films EXCEPT ![f] = Gone]
  BY <1>2 DEF FilmGone
<1> QED
  BY <1>2, <1>3 DEF FilmsTyped, OnlyFilms, Inv, TypeOK

LabelTyped == label' \in [Tag -> Label \cup {Unused, Deleted}]

LEMMA TagMadeIs ==
    ASSUME Inv, NEW c \in Call, NEW l \in Label, NEW t \in Tag, TagMade(c, l, t)
    PROVE  /\ LabelTyped /\ label[t] = Unused /\ label'[t] = l
           /\ \A u \in Tag \ {t} : label'[u] = label[u]
           /\ \A u \in Tag : TagMove(c, u)
<1>1. /\ label[t] = Unused /\ Labelled({l}) = {}
      /\ label' = [label EXCEPT ![t] = l]
  BY DEF TagMade, FreeTag
<1>2. /\ LabelTyped /\ label'[t] = l
      /\ \A u \in Tag \ {t} : label'[u] = label[u]
  BY <1>1 DEF LabelTyped, Inv, TypeOK
<1>3. TagNew(t)
  BY <1>1, <1>2 DEF TagNew
<1> QED
  BY <1>1, <1>2, <1>3 DEF TagMove

(* ... deleted ...                                                          *)
LEMMA TagGoneIs ==
    ASSUME Inv, NEW c \in Call, Is(c, {"tagDelete"}), TagGone(c)
    PROVE  LabelTyped /\ \A t \in Tag : TagMove(c, t)
<1>1. /\ \A t \in ids[c] : label[t] \in Label
      /\ label' = [t \in Tag |-> IF t \in ids[c] THEN Deleted ELSE label[t]]
  BY DEF TagGone
<1>2. /\ LabelTyped
      /\ \A t \in Tag \cap ids[c] : label'[t] = Deleted
      /\ \A t \in Tag \ ids[c] : label'[t] = label[t]
  BY <1>1 DEF LabelTyped, Inv, TypeOK
<1>3. ASSUME NEW t \in Tag, t \in ids[c] PROVE TagChanged(c, t)
  BY <1>1, <1>2, <1>3, Distinct DEF TagChanged, Is
<1> QED
  BY <1>2, <1>3 DEF TagMove

(* ... or put under a label.                                                *)
LEMMA TagPutIs ==
    ASSUME Inv, NEW c \in Call, Is(c, {"tagCreate", "tagRename"}), TagPut(c)
    PROVE  LabelTyped /\ \A t \in Tag : TagMove(c, t)
<1>1. asks[c].to \in Label /\ ids[c] \in SUBSET Tag /\ (Is(c, {"tagCreate"}) => ids[c] = {})
  <2>1. Is(c, {"tagDelete", "tagCreate", "tagRename"})
    BY DEF Is
  <2> QED
    BY <2>1, TagAsks DEF Inv, CallInv, StageOf
<1>2. PICK t \in Tag :
         /\ Labelled({asks[c].to}) \subseteq ids[c] /\ \A u \in ids[c] : label[u] \in Label
         /\ IF ids[c] = {} THEN FreeTag(t) ELSE t \in ids[c]
         /\ label' = [label EXCEPT ![t] = asks[c].to]
  BY DEF TagPut
<1>3. /\ LabelTyped /\ label'[t] = asks[c].to
      /\ \A u \in Tag \ {t} : label'[u] = label[u]
  BY <1>1, <1>2 DEF LabelTyped, Inv, TypeOK
<1>4. ASSUME ids[c] = {} PROVE TagMove(c, t)
  BY <1>1, <1>2, <1>3, <1>4 DEF TagMove, TagNew, FreeTag
<1>5. ASSUME ids[c] # {} PROVE TagMove(c, t)
  <2>1. Is(c, {"tagDelete", "tagRename"})
    BY <1>1, <1>5 DEF Is
  <2>2. label[t] # Unused /\ label'[t] # Unused
    BY <1>1, <1>2, <1>3, <1>5, Distinct
  <2> QED
    BY <1>3, <2>1, <2>2 DEF TagMove, TagChanged
<1> QED
  BY <1>3, <1>4, <1>5 DEF TagMove

-----------------------------------------------------------------------------
(* One lemma per action: each is a turn of its call and keeps Inv.  A call  *)
(* begins ...                                                               *)
LEMMA BeginInv ==
    ASSUME Inv, NEW c \in Call, NEW rq \in Request[c], Begin(c, rq)
    PROVE  Turn(c) /\ Inv'
<1>1. /\ pc[c] = "new" /\ pc'[c] = "find" /\ asks[c] = Nothing /\ asks'[c] = rq
      /\ rq # Nothing /\ at[c] = 1 /\ ids[c] = {} /\ want[c] = {} /\ mode[c] = "idle"
  BY Distinct DEF Begin, Step, Goes, Inv, CallInv, StageOf, CountOf, LockOf, TypeOK, Is
<1>2. Turn(c)
  <2>1. \A d \in Call \ {c} : SameFor(d)
    BY DEF Begin, Step, Goes, SameFor, Inv, TypeOK
  <2>2. OwnMove(c) /\ AddMove(c) /\ LateMove(c)
    BY <1>1 DEF OwnMove, AddMove, LateMove, Begin, Is, Told, Inv, TypeOK
  <2> QED
    BY <2>1, <2>2, NothingMoves DEF Turn, Begin, LockMove, Inv, TypeOK
<1>3. TypeOK'
  BY <1>1 DEF Begin, Step, Goes, Inv, TypeOK, Stages, Locks!TypeOK
<1>4. Own(c)'
  BY <1>1 DEF Own, StageOf, CountOf, LockOf, PointOf, TagsOf, StandOf, RaceOf, Begin,
              Is, Editing, Ended
<1> QED
  BY <1>2, <1>3, <1>4, TurnInv

(* ... a request fails ...                                                  *)
LEMMA RequestFailsInv ==
    ASSUME Inv, NEW c \in Call, RequestFails(c)
    PROVE  Turn(c) /\ Inv'
<1>1. faults' \in 0 .. MaxFaults /\ faults <= faults' /\ faults' # 0
  BY FilmsAssumption DEF RequestFails, Inv, TypeOK
<1>2. /\ pc[c] \in Stages /\ pc[c] \notin {"new", "lock", "done", "failed"} /\ Ends(c, "failed")
      /\ late' = IF pc[c] \in Writes THEN [late EXCEPT ![c] = pc[c]] ELSE late
      /\ UNCHANGED <<films, label, asks, at, ids, want, copy, seen>>
  BY DEF RequestFails, Inv, TypeOK
<1>3. late[c] = "none"
  BY <1>2 DEF Inv, CallInv, LateOf
<1>4. /\ late' \in [Call -> Writes \cup {"none", "landed"}]
      /\ late'[c] = (IF pc[c] \in Writes THEN pc[c] ELSE "none")
      /\ \A d \in Call \ {c} : late'[d] = late[d]
  BY <1>2, <1>3 DEF Inv, TypeOK
<1>5. pc'[c] = "failed"
  <2>1. "failed" \in Stages
    BY DEF Stages
  <2> QED
    BY <1>2, <2>1, EndsIs
<1>6. LateOf(c)'
  BY <1>1, <1>2, <1>4, <1>5 DEF LateOf, Writes, Is, Inv, CallInv, StageOf, CountOf
<1>7. LateMove(c) /\ Given(ids'[c])
  BY <1>2, <1>3, <1>6 DEF LateMove, Given, Inv, TagsGiven
<1>8. RaceOf(c)'
  BY <1>1, RaceSpared
<1> QED
  BY <1>1, <1>2, <1>4, <1>7, <1>8, FailsInv DEF Inv, TypeOK

(* ... a write that was given up on lands ...                               *)
LEMMA LandLateInv ==
    ASSUME Inv, NEW c \in Call, LandLate(c)
    PROVE  Turn(c) /\ Inv'
<1>1. /\ late[c] \in Writes /\ late' = [late EXCEPT ![c] = "landed"] /\ CarriedOut(c, late[c])
      /\ UNCHANGED <<pc, asks, at, ids, want, copy, seen, faults, mode, named>>
  BY DEF LandLate
<1>2. /\ LateOf(c) /\ pc[c] = "failed" /\ faults # 0 /\ late[c] # "landed" /\ late[c] # "none"
  BY <1>1 DEF Inv, CallInv, LateOf, Writes
<1>3. /\ late' \in [Call -> Writes \cup {"none", "landed"}] /\ late'[c] = "landed"
      /\ \A d \in Call \ {c} : late'[d] = late[d]
  BY <1>1 DEF Inv, TypeOK
<1>4. LateOf(c)'
  BY <1>1, <1>2, <1>3 DEF LateOf
<1>5. FilmsTyped /\ \A f \in Film : FilmMove(c, f)
  <2>1. CASE late[c] = "point" /\ FilmPointed(c)
    BY <1>1, <1>2, <1>3, <2>1, FilmPointedIs
       DEF LateOf, OnlyFilms, FilmMove, FilmLate, FilmWritten, Lands
  <2>2. CASE late[c] = "fields" /\ FieldsSet(c)
    BY <1>1, <1>2, <1>3, <2>2, FieldsSetIs
       DEF LateOf, OnlyFilms, FilmMove, FilmLate, FilmWritten, Lands
  <2>3. CASE late[c] = "apply" /\ TagsApplied(c)
    BY <1>1, <1>2, <1>3, <2>3, TagsAppliedIs
       DEF LateOf, OnlyFilms, FilmMove, FilmLate, FilmWritten, Lands
  <2>4. CASE late[c] = "post" /\ FilmMade(c)
    BY <1>2, <2>4, FilmMadeIs DEF LateOf, FilmMove
  <2>5. CASE late[c] = "delete" /\ FilmGone(c)
    BY <1>1, <1>2, <1>3, <2>5, FilmGoneIs
       DEF LateOf, OnlyFilms, FilmMove, FilmLate, FilmWritten, Lands
  <2>6. CASE late[c] = "strip" /\ TagStripped(c)
    BY <1>1, <1>2, <1>3, <2>6, TagStrippedIs DEF LateOf, FilmMove, FilmStripped, Lands
  <2>7. CASE UNCHANGED films
    BY <2>7 DEF FilmMove, FilmsTyped, Inv, TypeOK
  <2> QED
    BY <1>1, <2>1, <2>2, <2>3, <2>4, <2>5, <2>6, <2>7 DEF CarriedOut
<1>6. LabelTyped /\ \A t \in Tag : TagMove(c, t)
  <2>1. ASSUME late[c] = "create", NEW t \in Tag, TagMade(c, Wanted(c), t)
        PROVE  LabelTyped /\ \A u \in Tag : TagMove(c, u)
    <3>1. Wanted(c) \in Label
      BY <1>2, <2>1 DEF LateOf, Wanted, Inv, TypeOK
    <3> QED
      BY <2>1, <3>1, TagMadeIs
  <2>2. CASE late[c] = "drop" /\ TagGone(c)
    BY <1>2, <2>2, TagGoneIs DEF LateOf
  <2>3. CASE late[c] = "put" /\ TagPut(c)
    BY <1>2, <2>3, TagPutIs DEF LateOf
  <2>4. CASE UNCHANGED label
    BY <2>4 DEF TagMove, LabelTyped, Inv, TypeOK
  <2> QED
    BY <1>1, <2>1, <2>2, <2>3, <2>4 DEF CarriedOut
<1>7. Turn(c)
  <2>1. OwnMove(c) /\ AddMove(c) /\ LateMove(c)
    BY <1>1, <1>2, <1>4 DEF OwnMove, AddMove, LateMove, Told, Inv, TypeOK
  <2> QED
    BY <1>1, <1>3, <1>5, <1>6, <2>1, FaultsSame DEF Turn, SameFor, LockMove
<1>8. TypeOK'
  BY <1>1, <1>3, <1>5, <1>6 DEF Inv, TypeOK, FilmsTyped, LabelTyped, Locks!TypeOK
<1>9. Own(c)'
  <2>1. RaceOf(c)'
    BY <1>1, <1>7, KeptRace
  <2>2. StageOf(c)' /\ CountOf(c)'
    BY <1>1, <1>2 DEF StageOf, CountOf, Is, Editing, Inv, CallInv
  <2>3. LockOf(c)'
    BY <1>1, <1>2 DEF LockOf, Is, Ended, Inv, CallInv
  <2>4. PointOf(c)' /\ TagsOf(c)' /\ StandOf(c)'
    BY <1>1, <1>2 DEF PointOf, TagsOf, StandOf, Editing
  <2> QED
    BY <2>1, <2>2, <2>3, <2>4 DEF Own
<1> QED
  BY <1>7, <1>8, <1>9, TurnInv

(* ... an edit or a delete finds its films and asks for them ...            *)
LEMMA FindFilmsInv ==
    ASSUME Inv, NEW c \in Call, FindFilms(c)
    PROVE  Turn(c) /\ Inv'
<1>1. /\ pc[c] = "find" /\ Is(c, {"edit", "delete"}) /\ Shape(asks[c])
      /\ at[c] = 1 /\ ids[c] = {} /\ want[c] = {} /\ mode[c] = "idle"
      /\ UNCHANGED <<films, label, asks, at, ids, want, copy, seen, faults, late>>
  BY Shapes DEF FindFilms, Inv, CallInv, StageOf, CountOf, LockOf, TypeOK, Is
<1>2. OwnMove(c) /\ LateMove(c) /\ faults' \in Nat /\ faults <= faults'
  BY <1>1, FaultsSame DEF OwnMove, LateMove, Inv, TypeOK
<1>3. CASE /\ \A f \in asks[c].films : There(f)
           /\ Goes(c, "lock")
           /\ Locks!Ask(c, asks[c].films)
  <2>1. "lock" \in Stages
    BY DEF Stages
  <2>2. /\ pc' \in [Call -> Stages] /\ pc'[c] = "lock"
        /\ \A d \in Call \ {c} : pc'[d] = pc[d]
    BY <1>3, <2>1, GoesIs
  <2>3. LockMove(c)
    BY <1>1, <1>3 DEF LockMove, Shape
  <2>4. Turn(c)
    BY <1>1, <1>2, <2>2, <2>3, NothingMoves DEF Turn, SameFor, AddMove, Told
  <2>5. TypeOK'
    BY <1>1, <2>2, <2>3, LocksStep DEF Inv, TypeOK
  <2>6. mode'[c] = "asked" /\ named'[c] = asks[c].films
    BY <1>3 DEF Locks!Ask, Inv, TypeOK, Locks!TypeOK
  <2>7. LockOf(c)'
    BY <1>1, <1>3, <2>2, <2>6, Distinct DEF LockOf, There
  <2>8. Own(c)'
    BY <1>1, <2>2, <2>7 DEF Own, StageOf, CountOf, PointOf, TagsOf, StandOf, RaceOf, Editing, Is,
                            Inv, CallInv
  <2> QED
    BY <2>4, <2>5, <2>8, TurnInv
<1>4. CASE (\E f \in asks[c].films : ~There(f)) /\ Ends(c, "failed")
  <2>1. RaceOf(c)'
    BY <1>1, <1>4 DEF RaceOf, There
  <2> QED
    BY <1>1, <1>4, <2>1, FailsSame
<1> QED
  BY <1>3, <1>4 DEF FindFilms

(* What an edit goes on with: at its end when no tags are given.            *)
LEMMA NextOpIs ==
    ASSUME Inv, NEW c \in Call, Is(c, {"edit"}), NEW i \in 1 .. 4,
           i <= Len(Ops(asks[c])) + 1
    PROVE  /\ NextOp(c, i) \in {"tags", "answer"}
           /\ NextOp(c, i) = "tags" => i <= Len(Ops(asks[c]))
           /\ NextOp(c, i) = "answer" => i = Len(Ops(asks[c])) + 1
<1>1. Len(Ops(asks[c])) \in 0 .. 3
  BY EditAsks
<1> QED
  BY <1>1 DEF NextOp

(* ... is granted them ...                                                  *)
LEMMA LockedInv ==
    ASSUME Inv, NEW c \in Call, Locked(c)
    PROVE  Turn(c) /\ Inv'
<1> DEFINE to == IF asks[c].tool = "delete" THEN "delete"
                 ELSE IF asks[c].folder # NotGiven THEN "read" ELSE AfterPoint(c)
<1>1. /\ pc[c] = "lock" /\ Goes(c, to) /\ Locks!Grant(c) /\ mode[c] = "asked"
      /\ Is(c, {"edit", "delete"})
      /\ UNCHANGED <<films, label, asks, at, ids, want, copy, seen, faults, late>>
  BY DEF Locked, Step, Inv, CallInv, StageOf, LockOf
<1>2. OwnMove(c) /\ LateMove(c) /\ faults' \in Nat /\ faults <= faults'
  BY <1>1, FaultsSame DEF OwnMove, LateMove, Inv, TypeOK
<1>3. /\ to = "delete" => Is(c, {"delete"})
      /\ to # "delete" => Is(c, {"edit"}) /\ at[c] = 1
      /\ to = "read" => asks[c].folder # NotGiven
      /\ to \in {"fields", "tags", "answer"} => asks[c].folder = NotGiven
      /\ to \in {"tags", "answer"} => asks[c].fields = {}
      /\ to = "tags" => at[c] <= Len(Ops(asks[c]))
      /\ to = "answer" => at[c] = Len(Ops(asks[c])) + 1
      /\ to \in {"delete", "read", "fields", "tags", "answer"}
  <2>1. CASE Is(c, {"delete"})
    BY <2>1 DEF Is
  <2>2. CASE Is(c, {"edit"})
    <3>1. at[c] = 1 /\ Len(Ops(asks[c])) \in 0 .. 3
      BY <1>1, <2>2, EditAsks DEF Inv, CallInv, CountOf
    <3>2. /\ NextOp(c, 1) \in {"tags", "answer"}
          /\ NextOp(c, 1) = "tags" => 1 <= Len(Ops(asks[c]))
          /\ NextOp(c, 1) = "answer" => 1 = Len(Ops(asks[c])) + 1
      BY <2>2, <3>1, NextOpIs
    <3> QED
      BY <2>2, <3>1, <3>2 DEF AfterPoint, Is
  <2> QED
    BY <1>1, <2>1, <2>2 DEF Is
<1> HIDE DEF to
<1>4. to \in Stages
  BY <1>3 DEF Stages
<1>5. /\ pc' \in [Call -> Stages] /\ pc'[c] = to
      /\ \A d \in Call \ {c} : pc'[d] = pc[d]
  BY <1>1, <1>4, GoesIs
<1>6. LockMove(c)
  BY <1>1 DEF LockMove
<1>7. Turn(c)
  <2>1. AddMove(c)
    BY <1>1 DEF AddMove, Told, Is
  <2> QED
    BY <1>1, <1>2, <1>5, <1>6, <2>1, NothingMoves DEF Turn, SameFor
<1>8. TypeOK'
  BY <1>1, <1>5, <1>6, LocksStep DEF Inv, TypeOK
<1>9. mode'[c] = "held" /\ named'[c] = named[c]
  BY <1>1 DEF Locks!Grant, Inv, TypeOK, Locks!TypeOK
<1>10. LockOf(c)'
  BY <1>1, <1>3, <1>5, <1>9 DEF LockOf, Is, Ended, Inv, CallInv
<1>11. StageOf(c)' /\ CountOf(c)'
  BY <1>1, <1>3, <1>5 DEF StageOf, CountOf, Is, Op, Editing, Inv, CallInv
<1>12. PointOf(c)' /\ TagsOf(c)' /\ StandOf(c)' /\ RaceOf(c)'
  BY <1>1, <1>3, <1>5 DEF PointOf, TagsOf, StandOf, RaceOf, Acted, Pointed, Fielded, Editing, Is
<1> QED
  BY <1>7, <1>8, <1>10, <1>11, <1>12, TurnInv DEF Own

(* ... reads the film it is to point at a folder ...                        *)
LEMMA ReadFilmInv ==
    ASSUME Inv, NEW c \in Call, ReadFilm(c)
    PROVE  Turn(c) /\ Inv'
<1>1. /\ pc[c] = "read" /\ Is(c, {"edit"}) /\ asks[c].folder # NotGiven
      /\ asks[c].films \in Single /\ at[c] = 1
      /\ UNCHANGED <<films, label, asks, at, ids, want, seen, faults, late>>
  BY EditAsks DEF ReadFilm, Inv, CallInv, StageOf, CountOf, Shape, Is
<1>2. LateMove(c) /\ faults' \in Nat /\ faults <= faults'
  BY <1>1, FaultsSame DEF LateMove
<1>3. PICK f \in Film : asks[c].films = {f}
  BY <1>1 DEF Single
<1>4. ASSUME There(f), "path" \notin asks[c].fields,
             copy' = [copy EXCEPT ![c] = films[f]]
      PROVE  /\ copy' \in [Call -> FilmRecord \cup {Nothing}] /\ copy'[c] = films[f]
             /\ \A d \in Call \ {c} : copy'[d] = copy[d]
  BY <1>4 DEF Inv, TypeOK, There
<1>5. CASE /\ There(f) /\ "path" \notin asks[c].fields
           /\ copy' = [copy EXCEPT ![c] = films[f]]
           /\ GoesOn(c, "point")
  <2>1. "point" \in Stages
    BY DEF Stages
  <2>2. /\ pc' \in [Call -> Stages] /\ pc'[c] = "point"
        /\ \A d \in Call \ {c} : pc'[d] = pc[d]
        /\ LockMove(c) /\ Locks!TypeOK' /\ UNCHANGED <<mode, named>>
    BY <1>5, <2>1, GoesOnIs
  <2>3. /\ copy' \in [Call -> FilmRecord \cup {Nothing}] /\ copy'[c] = films[f]
        /\ \A d \in Call \ {c} : copy'[d] = copy[d]
    BY <1>4, <1>5
  <2>4. Turn(c)
    <3>1. OwnMove(c)
      BY <1>1, <1>5, <2>3 DEF OwnMove, Inv, TypeOK
    <3> QED
      BY <1>1, <1>2, <2>2, <2>3, <3>1, NothingMoves DEF Turn, SameFor, AddMove, Told
  <2>5. TypeOK'
    BY <1>1, <2>2, <2>3 DEF Inv, TypeOK
  <2>6. LockOf(c)'
    BY <1>1, <2>2, <2>4, GoesOnLock DEF Ended
  <2>7. StageOf(c)' /\ CountOf(c)'
    BY <1>1, <1>5, <2>2, <2>3 DEF StageOf, CountOf, Is, There, Editing, Inv, CallInv
  <2>8. PointOf(c)'
    BY <1>1, <1>3, <1>5, <2>3 DEF PointOf, There
  <2>9. TagsOf(c)' /\ StandOf(c)' /\ RaceOf(c)'
    BY <2>2 DEF TagsOf, StandOf, RaceOf, Editing
  <2> QED
    BY <2>4, <2>5, <2>6, <2>7, <2>8, <2>9, TurnInv DEF Own
<1>6. CASE /\ There(f) /\ "path" \notin asks[c].fields
           /\ copy' = [copy EXCEPT ![c] = films[f]]
           /\ films[f].path = asks[c].folder /\ Ends(c, "failed")
  <2>1. /\ copy' \in [Call -> FilmRecord \cup {Nothing}] /\ copy'[c] = films[f]
        /\ \A d \in Call \ {c} : copy'[d] = copy[d]
    BY <1>4, <1>6
  <2>2. RaceOf(c)'
    BY <1>1, <1>6, <2>1 DEF RaceOf
  <2>3. Given(ids'[c])
    BY <1>1 DEF Given, Inv, TagsGiven
  <2> QED
    BY <1>1, <1>2, <1>6, <2>1, <2>2, <2>3, FaultsSame, FailsInv DEF Inv, TypeOK
<1>7. CASE (~There(f) \/ "path" \in asks[c].fields) /\ Ends(c, "failed") /\ UNCHANGED copy
  <2>1. RaceOf(c)'
    BY <1>1, <1>3, <1>7 DEF RaceOf, There
  <2> QED
    BY <1>1, <1>7, <2>1, FailsSame
<1> QED
  BY <1>3, <1>5, <1>6, <1>7 DEF ReadFilm

(* What it goes on with once it has been pointed.                           *)
LEMMA AfterPointIs ==
    ASSUME Inv, NEW c \in Call, Is(c, {"edit"})
    PROVE  /\ AfterPoint(c) \in {"fields", "tags", "answer"} /\ AfterPoint(c) \in Stages
           /\ AfterPoint(c) # "fields" => asks[c].fields = {}
           /\ AfterPoint(c) = "tags" => 1 <= Len(Ops(asks[c]))
           /\ AfterPoint(c) = "answer" => 1 = Len(Ops(asks[c])) + 1
<1>1. Len(Ops(asks[c])) \in 0 .. 3
  BY EditAsks
<1>2. /\ NextOp(c, 1) \in {"tags", "answer"}
      /\ NextOp(c, 1) = "tags" => 1 <= Len(Ops(asks[c]))
      /\ NextOp(c, 1) = "answer" => 1 = Len(Ops(asks[c])) + 1
  BY <1>1, NextOpIs
<1> QED
  BY <1>2 DEF AfterPoint, Stages

(* At its first tag operation none is past.                                 *)
LEMMA NonePast ==
    ASSUME NEW c \in Call, at[c] = 1
    PROVE  TakenOff(c) = {} /\ PutOn(c) = {} /\ ~Past(c, "replace")
BY DEF TakenOff, PutOn, Past

(* The same of the state that follows.                                     *)
LEMMA NonePastNext ==
    ASSUME NEW c \in Call, at'[c] = 1
    PROVE  TakenOff(c)' = {} /\ PutOn(c)' = {} /\ ~Past(c, "replace")'
BY DEF TakenOff, PutOn, Past

(* ... points the film at it ...                                            *)
LEMMA PointAtInv ==
    ASSUME Inv, NEW c \in Call, PointAt(c)
    PROVE  Turn(c) /\ Inv'
<1>1. /\ pc[c] = "point" /\ Is(c, {"edit"}) /\ asks[c].folder # NotGiven
      /\ at[c] = 1 /\ mode[c] = "held" /\ named[c] = asks[c].films
      /\ copy[c] \in FilmRecord /\ "path" \notin asks[c].fields
      /\ UNCHANGED <<label, asks, at, ids, want, copy, seen, faults, late>>
  BY DEF PointAt, Inv, CallInv, StageOf, CountOf, LockOf, Is, Ended
<1>2. CASE FilmPointed(c) /\ GoesOn(c, AfterPoint(c))
  <2>1. PICK f \in Film :
           /\ asks[c].films = {f} /\ There(f) /\ FilmsTyped /\ OnlyFilms({f})
           /\ films'[f] \in FilmRecord /\ films'[f].path = asks[c].folder
           /\ Given(films'[f].tags)
    BY <1>1, <1>2, FilmPointedIs
  <2>2. AfterPoint(c) \in {"fields", "tags", "answer"} /\ AfterPoint(c) \in Stages
    BY <1>1, AfterPointIs
  <2>3. /\ pc' \in [Call -> Stages] /\ pc'[c] = AfterPoint(c)
        /\ \A d \in Call \ {c} : pc'[d] = pc[d]
        /\ LockMove(c) /\ Locks!TypeOK' /\ UNCHANGED <<mode, named>>
    BY <1>2, <2>2, GoesOnIs
  <2>4. Turn(c)
    <3>1. \A g \in Film : FilmMove(c, g)
      BY <1>1, <2>1, <2>2, <2>3 DEF FilmMove, FilmHeld, FilmWritten, OnlyFilms
    <3>2. OwnMove(c) /\ \A t \in Tag : TagMove(c, t)
      BY <1>1 DEF OwnMove, Inv, TypeOK, TagMove
    <3>3. AddMove(c) /\ LateMove(c)
      BY <1>1 DEF AddMove, LateMove, Told, Is
    <3> QED
      BY <1>1, <2>3, <3>1, <3>2, <3>3, FaultsSame DEF Turn, SameFor
  <2>5. TypeOK'
    BY <1>1, <2>1, <2>3 DEF Inv, TypeOK, FilmsTyped
  <2>6. LockOf(c)'
    BY <1>1, <2>2, <2>3, <2>4, GoesOnLock DEF Ended
  <2>7. StageOf(c)' /\ CountOf(c)'
    BY <1>1, <2>2, <2>3, AfterPointIs DEF StageOf, CountOf, Is, Inv, CallInv
  <2>8. StandOf(c)'
    <3>1. SoFar(c, f)'
      BY <1>1, <2>1, <2>2, <2>3, AfterPointIs, NonePastNext DEF SoFar, There, Fielded, Pointed
    <3> QED
      BY <1>1, <2>1, <3>1 DEF StandOf
  <2>9. PointOf(c)' /\ TagsOf(c)' /\ RaceOf(c)'
    BY <2>2, <2>3 DEF PointOf, TagsOf, RaceOf
  <2> QED
    BY <2>4, <2>5, <2>6, <2>7, <2>8, <2>9, TurnInv DEF Own
<1>3. CASE Refused(c, asks[c].films)
  <2>1. Ends(c, "failed") /\ UNCHANGED films /\ \E f \in asks[c].films : ~There(f)
    BY <1>3 DEF Refused
  <2>2. RaceOf(c)'
    BY <1>1, <2>1 DEF RaceOf, There
  <2> QED
    BY <1>1, <2>1, <2>2, FailsSame
<1> QED
  BY <1>2, <1>3 DEF PointAt

(* ... sends its fields ...                                                 *)
LEMMA EditFieldsInv ==
    ASSUME Inv, NEW c \in Call, EditFields(c)
    PROVE  Turn(c) /\ Inv'
<1> DEFINE to == NextOp(c, 1)
<1>1. /\ pc[c] = "fields" /\ Is(c, {"edit"}) /\ at[c] = 1
      /\ mode[c] = "held" /\ named[c] = asks[c].films
      /\ Pointed(c) => "path" \notin asks[c].fields
      /\ UNCHANGED <<label, asks, at, ids, want, copy, seen, faults, late>>
  BY DEF EditFields, Inv, CallInv, StageOf, CountOf, LockOf, Is, Ended, Editing, Pointed
<1>2. /\ to \in {"tags", "answer"} /\ to \in Stages
      /\ to = "tags" => 1 <= Len(Ops(asks[c]))
      /\ to = "answer" => 1 = Len(Ops(asks[c])) + 1
  <2>1. Len(Ops(asks[c])) \in 0 .. 3
    BY <1>1, EditAsks
  <2> QED
    BY <1>1, <2>1, NextOpIs DEF Stages
<1>3. CASE FieldsSet(c) /\ GoesOn(c, to)
  <2> HIDE DEF to
  <2>1. /\ FilmsTyped /\ OnlyFilms(asks[c].films) /\ asks[c].films \in SUBSET Film
        /\ \A f \in asks[c].films :
              /\ There(f) /\ films'[f] \in FilmRecord
              /\ films'[f].path = IF "path" \in asks[c].fields THEN c ELSE films[f].path
              /\ films'[f].mon = IF "mon" \in asks[c].fields THEN c ELSE films[f].mon
              /\ films'[f].tags = films[f].tags
              /\ Given(films'[f].tags)
    BY <1>1, <1>3, FieldsSetIs
  <2>2. /\ pc' \in [Call -> Stages] /\ pc'[c] = to
        /\ \A d \in Call \ {c} : pc'[d] = pc[d]
        /\ LockMove(c) /\ Locks!TypeOK' /\ UNCHANGED <<mode, named>>
    BY <1>2, <1>3, GoesOnIs
  <2>3. Turn(c)
    <3>1. \A f \in Film : FilmMove(c, f)
      BY <1>1, <1>2, <2>1, <2>2 DEF FilmMove, FilmHeld, FilmWritten, OnlyFilms
    <3>2. OwnMove(c) /\ \A t \in Tag : TagMove(c, t)
      BY <1>1 DEF OwnMove, Inv, TypeOK, TagMove
    <3>3. AddMove(c) /\ LateMove(c)
      BY <1>1 DEF AddMove, LateMove, Told, Is
    <3> QED
      BY <1>1, <2>2, <3>1, <3>2, <3>3, FaultsSame DEF Turn, SameFor
  <2>4. TypeOK'
    BY <1>1, <2>1, <2>2 DEF Inv, TypeOK, FilmsTyped
  <2>5. LockOf(c)'
    BY <1>1, <1>2, <2>2, <2>3, GoesOnLock DEF Ended
  <2>6. StageOf(c)' /\ CountOf(c)'
    BY <1>1, <1>2, <2>2 DEF StageOf, CountOf, Is, Pointed, Inv, CallInv
  <2>7. ASSUME NEW f \in asks[c].films, Quiet, ~LandedOn(f) PROVE SoFar(c, f)'
    <3>1. Pointed(c) => films[f].path = asks[c].folder
      BY <1>1, <2>7 DEF Inv, CallInv, StandOf, SoFar, Acted, Editing
    <3>2. /\ There(f)'
          /\ Pointed(c) => films'[f].path = asks[c].folder
          /\ "path" \in asks[c].fields => films'[f].path = c
          /\ "mon" \in asks[c].fields => films'[f].mon = c
      BY <1>1, <2>1, <3>1 DEF There
    <3> QED
      BY <1>1, <3>2, NonePastNext DEF SoFar, Pointed
  <2>8. StandOf(c)'
    BY <1>1, <2>3, <2>7, TurnKeeps DEF StandOf
  <2>9. PointOf(c)' /\ TagsOf(c)' /\ RaceOf(c)'
    BY <1>2, <2>2 DEF PointOf, TagsOf, RaceOf
  <2> QED
    BY <2>3, <2>4, <2>5, <2>6, <2>8, <2>9, TurnInv DEF Own
<1>4. CASE Refused(c, asks[c].films)
  <2>1. Ends(c, "failed") /\ UNCHANGED films /\ \E f \in asks[c].films : ~There(f)
    BY <1>4 DEF Refused
  <2>2. RaceOf(c)'
    BY <1>1, <2>1 DEF RaceOf, There
  <2> QED
    BY <1>1, <2>1, <2>2, FailsSame
<1> QED
  BY <1>3, <1>4 DEF EditFields

(* Which operations are past once one more is, and which can be before it.  *)
LEMMA PastNext ==
    ASSUME Inv, NEW c \in Call, Is(c, {"edit"}), pc[c] = "apply",
           asks'[c] = asks[c], at'[c] = at[c] + 1
    PROVE  /\ \A a \in {"replace", "add", "remove"} :
                 Past(c, a)' <=> Past(c, a) \/ Op(c).apply = a
           /\ ~Past(c, "remove")
           /\ Op(c).apply = "replace" => ~Past(c, "add")
           /\ Op(c).apply = "add" => ~Past(c, "add")
<1> DEFINE ops == Ops(asks[c])
           i == at[c]
<1>1. i \in 1 .. Len(ops) /\ Len(ops) \in Nat /\ i \in Nat
  BY EditAsks DEF InOrder
<1>2. \A k, j \in 1 .. Len(ops) : k < j => /\ ops[k].apply # "remove"
                                           /\ ops[j].apply # "replace"
                                           /\ ops[k].apply # ops[j].apply
  BY EditAsks DEF InOrder
<1>3. 1 .. at'[c] - 1 = (1 .. i - 1) \cup {i}
  BY <1>1
<1>4. ASSUME NEW a \in {"replace", "add", "remove"}
      PROVE  Past(c, a)' <=> Past(c, a) \/ Op(c).apply = a
  BY <1>3 DEF Past, Op
<1>5. \A k \in 1 .. i - 1 : k \in 1 .. Len(ops) /\ k < i
  BY <1>1
<1>6. \A k \in 1 .. i - 1 : /\ ops[k].apply # "remove"
                            /\ Op(c).apply # "replace"
                            /\ ops[k].apply # Op(c).apply
  BY <1>1, <1>2, <1>5 DEF Op
<1> QED
  BY <1>4, <1>6 DEF Past

(* What a film carries after a tag operation.                               *)
LEMMA CarriedNext ==
    ASSUME Inv, NEW c \in Call, Is(c, {"edit"}), pc[c] = "apply", Quiet, label' = label,
           NEW f \in Film, films[f] \in FilmRecord,
           films'[f].tags = Applied(Op(c), films[f].tags, ids[c])
    PROVE  /\ Op(c).apply = "replace" => Carried(f)' = asks[c].replace
           /\ Op(c).apply = "add" => Carried(f)' = Carried(f) \cup asks[c].add
           /\ Op(c).apply = "remove" => Carried(f)' = Carried(f) \ asks[c].remove
<1> DEFINE op == Op(c)
           tags == films[f].tags
<1>1. at[c] \in 1 .. Len(Ops(asks[c])) /\ op.apply \in {"replace", "add", "remove"}
  BY EditAsks
<1>2. /\ op.apply = "replace" => op.labels = asks[c].replace
      /\ op.apply = "add" => op.labels = asks[c].add
      /\ op.apply = "remove" => op.labels = asks[c].remove
  BY <1>1, EditAsks DEF InOrder, Op
<1>3. {label[t] : t \in ids[c]} = op.labels /\ tags \in SUBSET Tag
  BY DEF Inv, CallInv, TagsOf, CountOf, FilmRecord
<1>4. op.apply = "remove" => ids[c] = Labelled(op.labels)
  BY DEF Inv, CallInv, TagsOf
<1>5. Carried(f)' = {label[t] : t \in films'[f].tags} /\ Carried(f) = {label[t] : t \in tags}
  BY DEF Carried
<1>6. CASE op.apply = "replace"
  <2>1. films'[f].tags = ids[c]
    BY <1>6 DEF Applied
  <2> QED
    BY <1>2, <1>3, <1>5, <1>6, <2>1
<1>7. CASE op.apply = "add"
  <2>1. films'[f].tags = tags \cup ids[c]
    BY <1>7 DEF Applied
  <2>2. {label[t] : t \in tags \cup ids[c]}
          = {label[t] : t \in tags} \cup {label[t] : t \in ids[c]}
    OBVIOUS
  <2> QED
    BY <1>2, <1>3, <1>5, <1>7, <2>1, <2>2
<1>8. CASE op.apply = "remove"
  <2>1. films'[f].tags = tags \ Labelled(op.labels)
    BY <1>4, <1>8 DEF Applied
  <2>2. {label[t] : t \in tags \ Labelled(op.labels)} = {label[t] : t \in tags} \ op.labels
    BY <1>3 DEF Labelled
  <2> QED
    BY <1>2, <1>5, <1>8, <2>1, <2>2
<1> QED
  BY <1>1, <1>6, <1>7, <1>8

(* ... sends a tag operation: what was done before still stands ...         *)
LEMMA TagsStand ==
    ASSUME Inv, NEW c \in Call, Is(c, {"edit"}), pc[c] = "apply", Quiet, label' = label,
           asks'[c] = asks[c], at'[c] = at[c] + 1, pc'[c] \in {"tags", "answer"},
           NEW f \in asks[c].films, ~LandedOn(f), films[f] \in FilmRecord, films'[f] \in FilmRecord,
           films'[f].path = films[f].path, films'[f].mon = films[f].mon,
           films'[f].tags = Applied(Op(c), films[f].tags, ids[c])
    PROVE  SoFar(c, f)'
<1> DEFINE op == Op(c)
<1>1. /\ f \in Film /\ op.apply \in {"replace", "add", "remove"}
      /\ at[c] \in 1 .. Len(Ops(asks[c]))
  BY EditAsks DEF Shape
<1>2. Acted(c) => SoFar(c, f)
  BY DEF Inv, CallInv, StandOf, Editing
<1>3. /\ Past(c, "replace")' <=> Past(c, "replace") \/ op.apply = "replace"
      /\ Past(c, "add")' <=> Past(c, "add") \/ op.apply = "add"
      /\ Past(c, "remove")' <=> op.apply = "remove"
      /\ ~Past(c, "remove")
      /\ op.apply \in {"replace", "add"} => ~Past(c, "add")
  BY PastNext
<1>4. TakenOff(c) = {} /\ TakenOff(c)' = IF op.apply = "remove" THEN asks[c].remove ELSE {}
  BY <1>3 DEF TakenOff
<1>5. /\ PutOn(c) = IF Past(c, "add") THEN asks[c].add ELSE {}
      /\ PutOn(c)' = IF Past(c, "add") \/ op.apply = "add" THEN asks[c].add ELSE {}
  BY <1>3 DEF PutOn
<1>6. ASSUME Past(c, "replace") \/ Past(c, "add") PROVE Acted(c)
  <2>1. at[c] \in Nat /\ \E i \in 1 .. at[c] - 1 : TRUE
    BY <1>1, <1>6 DEF Past
  <2> QED
    BY <2>1 DEF Acted
<1>7. /\ op.apply = "replace" => Carried(f)' = asks[c].replace
      /\ op.apply = "add" => Carried(f)' = Carried(f) \cup asks[c].add
      /\ op.apply = "remove" => Carried(f)' = Carried(f) \ asks[c].remove
  BY <1>1, CarriedNext
<1>8. There(f)'
  BY DEF There
<1>9. /\ Pointed(c)' => films'[f].path = asks[c].folder
      /\ Fielded(c)' /\ "path" \in asks[c].fields => films'[f].path = c
      /\ Fielded(c)' /\ "mon" \in asks[c].fields => films'[f].mon = c
  BY <1>2 DEF Pointed, Fielded, Acted, SoFar
<1>10. Past(c, "add") => asks[c].add \subseteq Carried(f)
  BY <1>2, <1>4, <1>5, <1>6 DEF SoFar
<1>11. Past(c, "replace") => /\ asks[c].replace \subseteq Carried(f)
                             /\ Carried(f) \subseteq asks[c].replace \cup PutOn(c)
  BY <1>2, <1>4, <1>6 DEF SoFar
<1>12. Carried(f)' \cap TakenOff(c)' = {}
  BY <1>4, <1>7
<1>13. PutOn(c)' \ TakenOff(c)' \subseteq Carried(f)'
  BY <1>1, <1>3, <1>4, <1>5, <1>7, <1>10
<1>14. Past(c, "replace")' => /\ asks[c].replace \ TakenOff(c)' \subseteq Carried(f)'
                              /\ Carried(f)' \subseteq asks[c].replace \cup PutOn(c)'
  BY <1>1, <1>3, <1>4, <1>5, <1>7, <1>11
<1> QED
  BY <1>8, <1>9, <1>12, <1>13, <1>14 DEF SoFar

(* So the whole step is a turn that keeps Inv ...                          *)
LEMMA EditTagsInv ==
    ASSUME Inv, NEW c \in Call, EditTags(c)
    PROVE  Turn(c) /\ Inv'
<1> DEFINE to == NextOp(c, at[c] + 1)
<1>1. /\ pc[c] = "apply" /\ Is(c, {"edit"}) /\ at[c] <= Len(Ops(asks[c]))
      /\ mode[c] = "held" /\ named[c] = asks[c].films
      /\ at' = [at EXCEPT ![c] = @ + 1]
      /\ UNCHANGED <<label, asks, ids, want, copy, seen, faults, late>>
  BY EditAsks DEF EditTags, Inv, CallInv, StageOf, LockOf, Is, Ended
<1>2. /\ at[c] + 1 \in 1 .. 4 /\ at[c] + 1 <= Len(Ops(asks[c])) + 1
      /\ Len(Ops(asks[c])) \in 0 .. 3
  <2>1. at[c] \in 1 .. Len(Ops(asks[c])) /\ Len(Ops(asks[c])) \in 0 .. 3
    BY <1>1, EditAsks
  <2>2. \A n \in 0 .. 3 : \A i \in 1 .. n : i + 1 \in 1 .. 4 /\ i + 1 <= n + 1
    OBVIOUS
  <2> QED
    BY <2>1, <2>2
<1>3. /\ at' \in [Call -> 1 .. 5] /\ at'[c] = at[c] + 1
      /\ \A d \in Call \ {c} : at'[d] = at[d]
  BY <1>1, <1>2 DEF Inv, TypeOK
<1>4. /\ to \in {"tags", "answer"} /\ to \in Stages
      /\ to = "tags" => at[c] + 1 <= Len(Ops(asks[c]))
      /\ to = "answer" => at[c] + 1 = Len(Ops(asks[c])) + 1
  BY <1>1, <1>2, NextOpIs DEF Stages
<1>5. CASE TagsApplied(c) /\ GoesOn(c, to)
  <2> HIDE DEF to
  <2>1. /\ FilmsTyped /\ OnlyFilms(asks[c].films) /\ asks[c].films \in SUBSET Film
        /\ \A f \in asks[c].films :
              /\ There(f) /\ films'[f] \in FilmRecord
              /\ films'[f].path = films[f].path /\ films'[f].mon = films[f].mon
              /\ films'[f].tags = Applied(Op(c), films[f].tags, ids[c])
              /\ Given(films'[f].tags)
    BY <1>1, <1>5, TagsAppliedIs
  <2>2. /\ pc' \in [Call -> Stages] /\ pc'[c] = to
        /\ \A d \in Call \ {c} : pc'[d] = pc[d]
        /\ LockMove(c) /\ Locks!TypeOK' /\ UNCHANGED <<mode, named>>
    BY <1>4, <1>5, GoesOnIs
  <2>3. Turn(c)
    <3>1. \A f \in Film : FilmMove(c, f)
      BY <1>1, <1>4, <2>1, <2>2 DEF FilmMove, FilmHeld, FilmWritten, OnlyFilms
    <3>2. OwnMove(c) /\ \A t \in Tag : TagMove(c, t)
      BY <1>1 DEF OwnMove, Inv, TypeOK, TagMove
    <3>3. AddMove(c) /\ LateMove(c)
      BY <1>1 DEF AddMove, LateMove, Told, Is
    <3> QED
      BY <1>1, <1>3, <2>2, <3>1, <3>2, <3>3, FaultsSame DEF Turn, SameFor
  <2>4. TypeOK'
    BY <1>1, <1>3, <2>1, <2>2 DEF Inv, TypeOK, FilmsTyped
  <2>5. LockOf(c)'
    BY <1>1, <1>4, <2>2, <2>3, GoesOnLock DEF Ended
  <2>6. StageOf(c)' /\ CountOf(c)'
    BY <1>1, <1>3, <1>4, <2>2 DEF StageOf, CountOf, Is, Editing, Inv, CallInv
  <2>7. ASSUME NEW f \in asks[c].films, Quiet, ~LandedOn(f) PROVE SoFar(c, f)'
    <3>1. films[f] \in FilmRecord
      BY <2>1 DEF There
    <3> QED
      BY <1>1, <1>3, <1>4, <2>1, <2>2, <2>7, <3>1, TagsStand
  <2>8. StandOf(c)'
    BY <1>1, <2>3, <2>7, TurnKeeps DEF StandOf
  <2>9. PointOf(c)' /\ TagsOf(c)' /\ RaceOf(c)'
    BY <1>4, <2>2 DEF PointOf, TagsOf, RaceOf
  <2> QED
    BY <2>3, <2>4, <2>5, <2>6, <2>8, <2>9, TurnInv DEF Own
<1>6. CASE Refused(c, asks[c].films)
  <2>1. Ends(c, "failed") /\ UNCHANGED films /\ \E f \in asks[c].films : ~There(f)
    BY <1>6 DEF Refused
  <2>2. RaceOf(c)'
    BY <1>1, <2>1 DEF RaceOf, There
  <2>3. /\ Given(ids'[c]) /\ LateMove(c)
        /\ ids \in [Call -> SUBSET Tag] /\ want \in [Call -> SUBSET Label]
    BY <1>1 DEF Inv, TagsGiven, TypeOK, Given, LateMove
  <2> QED
    BY <1>1, <1>3, <2>1, <2>2, <2>3, FaultsSame, FailsInv DEF Inv, TypeOK
<1> QED
  BY <1>5, <1>6 DEF EditTags

(* While a call resolves its labels, what it has done stands.               *)
LEMMA GoesOnStand ==
    ASSUME Inv, NEW c \in Call, Turn(c), films' = films, asks'[c] = asks[c], at'[c] = at[c],
           pc[c] \in Editing \ {"fields"}, pc'[c] \in Editing \ {"fields"}
    PROVE  StandOf(c)'
<1>1. /\ Is(c, {"edit"})' <=> Is(c, {"edit"})
      /\ Acted(c)' <=> Acted(c)
      /\ TakenOff(c)' = TakenOff(c) /\ PutOn(c)' = PutOn(c)
      /\ Past(c, "replace")' <=> Past(c, "replace")
      /\ Pointed(c)' <=> Pointed(c)
      /\ Fielded(c)' <=> Fielded(c)
  BY DEF Is, Acted, TakenOff, PutOn, Past, Pointed, Fielded
<1> SUFFICES ASSUME Is(c, {"edit"}), Quiet', Acted(c), NEW f \in asks[c].films,
                    ~LandedOn(f)'
             PROVE  SoFar(c, f)'
  BY <1>1 DEF StandOf
<1>2. Quiet /\ SoFar(c, f) /\ f \in Film
  BY TurnKeeps, EditAsks DEF Inv, CallInv, StandOf, Shape
<1>3. films[f] \in FilmRecord
  BY <1>2 DEF SoFar, There
<1>4. \A t \in films[f].tags : label'[t] = label[t]
  <2>1. films[f].tags \in SUBSET Tag /\ Given(films[f].tags)
    BY <1>2, <1>3 DEF FilmRecord, Inv, TagsGiven, There
  <2> QED
    BY <2>1, QuietTags DEF Given
<1>5. Carried(f)' = Carried(f)
  BY <1>4 DEF Carried
<1> QED
  BY <1>1, <1>2, <1>5 DEF SoFar, There

(* A call that resolves labels is an edit or an add, and they are labels.   *)
LEMMA Resolves ==
    ASSUME Inv, NEW c \in Call, pc[c] \in {"tags", "create", "again"}
    PROVE  /\ Is(c, {"edit"}) \/ Is(c, {"add"})
           /\ ~Is(c, {"tagDelete"}) /\ ~Is(c, {"tagCreate"})
           /\ Refs(c) \in SUBSET Label
           /\ Is(c, {"edit"}) => Refs(c) = Op(c).labels
           /\ Is(c, {"add"}) => Resolved(c) = "post" /\ at[c] = 1 /\ Creates(c)
           /\ Is(c, {"edit"}) => /\ Resolved(c) = "apply" /\ at[c] <= Len(Ops(asks[c]))
                                 /\ Creates(c) <=> Op(c).apply # "remove"
           /\ want[c] \in SUBSET Label /\ ids[c] \in SUBSET Tag /\ Given(ids[c])
           /\ pc[c] # "tags" => Wanted(c) \in want[c] /\ Wanted(c) \in Label
<1>1. Is(c, {"edit", "add"})
  BY DEF Inv, CallInv, StageOf
<1>2. want[c] \in SUBSET Label /\ ids[c] \in SUBSET Tag /\ Given(ids[c])
  BY DEF Inv, TypeOK, TagsGiven
<1>3. pc[c] # "tags" => Wanted(c) \in want[c]
  BY DEF Wanted, Inv, CallInv, CountOf
<1>4. CASE Is(c, {"edit"})
  BY <1>2, <1>3, <1>4, EditAsks DEF Is, Refs, Resolved, Creates, Inv, CallInv, CountOf
<1>5. CASE Is(c, {"add"})
  <2>1. asks[c] \in Request[c]
    BY <1>5 DEF Is, Inv, TypeOK
  <2>2. asks[c].add \in SUBSET Label
    BY <1>5, <2>1, Shapes DEF Is, Shape
  <2> QED
    BY <1>2, <1>3, <1>5, <2>2 DEF Is, Refs, Resolved, Creates, Inv, CallInv, CountOf
<1> QED
  BY <1>1, <1>4, <1>5 DEF Is

(* ... looks up the tags of its labels ...                                  *)
LEMMA LookUpTagsInv ==
    ASSUME Inv, NEW c \in Call, LookUpTags(c)
    PROVE  Turn(c) /\ Inv'
<1> DEFINE missing == Refs(c) \ {label[t] : t \in Tag}
           to == IF missing = {} THEN Resolved(c) ELSE "create"
<1>1. /\ pc[c] = "tags"
      /\ ids' = [ids EXCEPT ![c] = Labelled(Refs(c))]
      /\ want' = [want EXCEPT ![c] = missing]
      /\ UNCHANGED <<films, label, asks, at, copy, seen, faults, late>>
  BY DEF LookUpTags
<1>2. /\ Is(c, {"edit"}) \/ Is(c, {"add"})
      /\ ~Is(c, {"tagDelete"}) /\ ~Is(c, {"tagCreate"})
      /\ Refs(c) \in SUBSET Label
      /\ Is(c, {"edit"}) => Refs(c) = Op(c).labels
      /\ Is(c, {"add"}) => Resolved(c) = "post" /\ at[c] = 1 /\ Creates(c)
      /\ Is(c, {"edit"}) => /\ Resolved(c) = "apply" /\ at[c] <= Len(Ops(asks[c]))
                            /\ Creates(c) <=> Op(c).apply # "remove"
  BY <1>1, Resolves
<1>3. missing \in SUBSET Label /\ Labelled(Refs(c)) \in SUBSET Tag
  BY <1>2 DEF Labelled
<1> HIDE DEF missing
<1>4. /\ ids' \in [Call -> SUBSET Tag] /\ want' \in [Call -> SUBSET Label]
      /\ ids'[c] = Labelled(Refs(c)) /\ want'[c] = missing
      /\ \A d \in Call \ {c} : ids'[d] = ids[d] /\ want'[d] = want[d]
  BY <1>1, <1>3 DEF Inv, TypeOK
<1>5. Given(ids'[c])
  BY <1>2, <1>4, Distinct DEF Given, Labelled
<1>6. /\ faults' \in 0 .. MaxFaults /\ faults' \in Nat /\ faults <= faults' /\ LateMove(c)
      /\ at' \in [Call -> 1 .. 5]
  BY <1>1, FaultsSame DEF LateMove, Inv, TypeOK
<1>7. CASE missing # {} /\ ~Creates(c)
  <2>1. Ends(c, "failed")
    BY <1>7 DEF LookUpTags, missing
  <2>2. Is(c, {"edit"}) /\ Op(c).apply = "remove"
    BY <1>2, <1>7
  <2>3. asks[c].remove # {}
    BY <1>1, <2>2, EditAsks DEF InOrder, Op
  <2>4. RaceOf(c)'
    BY <1>1, <2>3 DEF RaceOf
  <2> QED
    BY <1>1, <1>2, <1>4, <1>5, <1>6, <2>1, <2>4, FailsInv DEF Is, Inv, TypeOK
<1>8. CASE missing = {} \/ Creates(c)
  <2>1. Goes(c, to) /\ UNCHANGED <<mode, named>>
    BY <1>8 DEF LookUpTags, GoesOn, missing
  <2>2. /\ to \in {"post", "apply", "create"} /\ to \in Stages
        /\ to = "post" => Is(c, {"add"})
        /\ to = "apply" => Is(c, {"edit"})
        /\ to \in {"post", "apply"} => missing = {}
        /\ to = "create" => missing # {} /\ Creates(c)
    BY <1>2, <1>8 DEF Stages, Is
  <2> HIDE DEF to
  <2>3. /\ pc' \in [Call -> Stages] /\ pc'[c] = to
        /\ \A d \in Call \ {c} : pc'[d] = pc[d]
    BY <2>1, <2>2, GoesIs
  <2>4. Turn(c)
    <3>1. OwnMove(c)
      BY <1>1, <1>2, <1>4, <1>5 DEF OwnMove, Given
    <3>2. AddMove(c)
      BY <2>2, <2>3 DEF AddMove, Told
    <3> QED
      BY <1>1, <1>4, <1>6, <2>1, <2>3, <3>1, <3>2, NothingMoves DEF Turn, SameFor, LockMove
  <2>5. TypeOK'
    BY <1>1, <1>4, <2>1, <2>3 DEF Inv, TypeOK, Locks!TypeOK
  <2>6. LockOf(c)'
    BY <1>1, <2>1, <2>2, <2>3, <2>4, GoesOnLock DEF Ended
  <2>7. StageOf(c)' /\ CountOf(c)'
    BY <1>1, <1>2, <1>4, <2>2, <2>3 DEF StageOf, CountOf, Is, Op, Editing, Inv, CallInv
  <2>8. TagsOf(c)'
    <3> SUFFICES ASSUME Is(c, {"edit"})
                 PROVE  /\ {label[t] : t \in Labelled(Refs(c))} \cup missing = Op(c).labels
                        /\ to # "again"
      BY <1>1, <1>2, <1>4, <2>3 DEF TagsOf, Is, Op, Labelled
    <3>1. {label[t] : t \in Labelled(Refs(c))} = Refs(c) \cap {label[t] : t \in Tag}
      BY DEF Labelled
    <3> QED
      BY <1>2, <2>2, <3>1 DEF missing
  <2>9. StandOf(c)'
    <3>1. CASE Is(c, {"edit"})
      BY <1>1, <2>2, <2>3, <2>4, <3>1, GoesOnStand DEF Editing, Is
    <3>2. CASE ~Is(c, {"edit"})
      BY <1>1, <3>2 DEF StandOf, Is
    <3> QED
      BY <3>1, <3>2
  <2>10. PointOf(c)' /\ RaceOf(c)'
    BY <2>2, <2>3 DEF PointOf, RaceOf
  <2> QED
    BY <2>4, <2>5, <2>6, <2>7, <2>8, <2>9, <2>10, TurnInv DEF Own
<1> QED
  BY <1>7, <1>8

(* ... takes the tag of a label it wanted, once Radarr has it ...           *)
LEMMA HaveOwn ==
    ASSUME Inv, NEW c \in Call, pc[c] \in {"create", "again"}, Turn(c), NEW t \in Tag,
           Have(c, Wanted(c), t), label'[t] = Wanted(c),
           \A u \in ids[c] : label'[u] = label[u],
           UNCHANGED <<films, asks, at, copy, mode, named>>,
           pc'[c] = StillWant(c, Wanted(c))
    PROVE  Own(c)'
<1> DEFINE l == Wanted(c)
           to == StillWant(c, l)
<1>1. /\ Is(c, {"edit"}) \/ Is(c, {"add"})
      /\ Is(c, {"add"}) => Resolved(c) = "post" /\ at[c] = 1
      /\ Is(c, {"edit"}) => /\ Resolved(c) = "apply" /\ at[c] <= Len(Ops(asks[c]))
                            /\ Op(c).apply # "remove"
      /\ want[c] \in SUBSET Label /\ l \in want[c]
  BY Resolves DEF Inv, CallInv, CountOf
<1>2. ids'[c] = ids[c] \cup {t} /\ want'[c] = want[c] \ {l}
  BY DEF Have, Inv, TypeOK
<1>3. /\ to \in {"post", "apply", "create"}
      /\ to = "post" => Is(c, {"add"})
      /\ to = "apply" => Is(c, {"edit"})
      /\ to \in {"post", "apply"} => want'[c] = {}
      /\ to = "create" => want'[c] # {}
  BY <1>1, <1>2 DEF StillWant, Is
<1>4. pc'[c] = to /\ label'[t] = l
  OBVIOUS
<1> HIDE DEF to, l
<1>5. LockOf(c)'
  BY <1>3, <1>4, GoesOnLock DEF Ended
<1>6. StageOf(c)'
  BY <1>1, <1>3, <1>4 DEF StageOf, Is, Editing, Inv, CallInv
<1>7. CountOf(c)'
  BY <1>1, <1>3, <1>4 DEF CountOf, Is, Op
<1>8. TagsOf(c)'
  <2> SUFFICES ASSUME Is(c, {"edit"}), Quiet'
               PROVE  {label'[u] : u \in ids[c] \cup {t}} \cup (want[c] \ {l}) = Op(c).labels
    BY <1>1, <1>2, <1>3, <1>4 DEF TagsOf, Is, Op
  <2>1. {label[u] : u \in ids[c]} \cup want[c] = Op(c).labels
    BY TurnKeeps DEF TagsOf, Inv, CallInv
  <2>2. {label'[u] : u \in ids[c] \cup {t}} = {label[u] : u \in ids[c]} \cup {l}
    BY <1>4
  <2> QED
    BY <1>1, <2>1, <2>2
<1>9. StandOf(c)'
  <2>1. CASE Is(c, {"edit"})
    BY <1>3, <1>4, <2>1, GoesOnStand DEF Editing, Is
  <2>2. CASE ~Is(c, {"edit"})
    BY <2>2 DEF StandOf, Is
  <2> QED
    BY <2>1, <2>2
<1>10. PointOf(c)' /\ RaceOf(c)'
  BY <1>3, <1>4 DEF PointOf, RaceOf
<1> QED
  BY <1>5, <1>6, <1>7, <1>8, <1>9, <1>10 DEF Own

(* ... creates a tag, or finds that another call has just made it ...       *)
LEMMA CreateTagInv ==
    ASSUME Inv, NEW c \in Call, CreateTag(c)
    PROVE  Turn(c) /\ Inv'
<1> DEFINE l == Wanted(c)
           to == StillWant(c, l)
<1>1. pc[c] = "create" /\ UNCHANGED <<films, asks, at, copy, seen, faults, late>>
  BY DEF CreateTag
<1>2. /\ Is(c, {"edit"}) \/ Is(c, {"add"})
      /\ ~Is(c, {"tagDelete"}) /\ ~Is(c, {"tagCreate"})
      /\ want[c] \in SUBSET Label /\ ids[c] \in SUBSET Tag /\ Given(ids[c])
      /\ l \in want[c] /\ l \in Label
      /\ to \in {"post", "apply", "create"} /\ to \in Stages
  BY <1>1, Resolves DEF StillWant, Stages
<1>3. faults' \in Nat /\ faults <= faults' /\ LateMove(c)
  BY <1>1, FaultsSame DEF LateMove
<1>4. ASSUME NEW t \in Tag, TagMade(c, l, t), Have(c, l, t), GoesOn(c, to)
      PROVE  Turn(c) /\ Inv'
  <2> HIDE DEF to
  <2>1. /\ LabelTyped /\ label[t] = Unused /\ label'[t] = l
        /\ \A u \in Tag \ {t} : label'[u] = label[u]
        /\ \A u \in Tag : TagMove(c, u)
    BY <1>2, <1>4, TagMadeIs
  <2>2. \A u \in ids[c] : label'[u] = label[u]
    BY <1>2, <2>1 DEF Given
  <2>3. /\ ids' \in [Call -> SUBSET Tag] /\ want' \in [Call -> SUBSET Label]
        /\ ids'[c] = ids[c] \cup {t}
        /\ \A d \in Call \ {c} : ids'[d] = ids[d] /\ want'[d] = want[d]
    BY <1>2, <1>4 DEF Have, Inv, TypeOK
  <2>4. /\ pc' \in [Call -> Stages] /\ pc'[c] = to
        /\ \A d \in Call \ {c} : pc'[d] = pc[d]
        /\ LockMove(c) /\ Locks!TypeOK' /\ UNCHANGED <<mode, named>>
    BY <1>2, <1>4, GoesOnIs
  <2>5. Turn(c)
    <3>1. OwnMove(c)
      BY <1>1, <1>2, <2>1, <2>3, Distinct DEF OwnMove
    <3>2. AddMove(c) /\ \A f \in Film : FilmMove(c, f)
      BY <1>1, <1>2, <2>4 DEF AddMove, Told, FilmMove
    <3> QED
      BY <1>1, <1>3, <2>1, <2>3, <2>4, <3>1, <3>2 DEF Turn, SameFor
  <2>6. TypeOK'
    BY <1>1, <2>1, <2>3, <2>4 DEF Inv, TypeOK, LabelTyped
  <2>7. Own(c)'
    BY <1>1, <1>4, <2>1, <2>2, <2>4, <2>5, HaveOwn DEF to
  <2> QED
    BY <2>5, <2>6, <2>7, TurnInv
<1>5. CASE Labelled({l}) # {} /\ GoesOn(c, "again") /\ UNCHANGED <<label, ids, want>>
  <2>1. Goes(c, "again") /\ UNCHANGED <<label, ids, want, mode, named>>
    BY <1>5 DEF GoesOn
  <2>2. "again" \in Stages
    BY DEF Stages
  <2>3. /\ pc' \in [Call -> Stages] /\ pc'[c] = "again"
        /\ \A d \in Call \ {c} : pc'[d] = pc[d]
    BY <2>1, <2>2, GoesIs
  <2>4. Turn(c)
    <3>1. OwnMove(c)
      BY <1>1, <2>1 DEF OwnMove, Inv, TypeOK
    <3>2. AddMove(c)
      BY <2>3 DEF AddMove, Told
    <3> QED
      BY <1>1, <1>3, <2>1, <2>3, <3>1, <3>2, NothingMoves DEF Turn, SameFor, LockMove
  <2>5. TypeOK'
    BY <1>1, <2>1, <2>3 DEF Inv, TypeOK, Locks!TypeOK
  <2>6. LockOf(c)'
    BY <1>1, <2>1, <2>3, <2>4, GoesOnLock DEF Ended
  <2>7. StageOf(c)' /\ CountOf(c)'
    BY <1>1, <2>1, <2>3 DEF StageOf, CountOf, Is, Op, Editing, Inv, CallInv
  <2>8. TagsOf(c)'
    <3> SUFFICES ASSUME Is(c, {"edit"}), Quiet
                 PROVE  /\ {label[u] : u \in ids[c]} \cup want[c] = Op(c).labels
                        /\ Labelled({Wanted(c)}) # {}
      BY <1>1, <2>1, <2>3, <2>4, TurnKeeps DEF TagsOf, Is, Op, Wanted, Labelled
    <3> QED
      BY <1>1, <1>5 DEF TagsOf, Inv, CallInv
  <2>9. StandOf(c)'
    <3>1. CASE Is(c, {"edit"})
      BY <1>1, <2>3, <2>4, <3>1, GoesOnStand DEF Editing, Is
    <3>2. CASE ~Is(c, {"edit"})
      BY <1>1, <3>2 DEF StandOf, Is
    <3> QED
      BY <3>1, <3>2
  <2>10. PointOf(c)' /\ RaceOf(c)'
    BY <2>3 DEF PointOf, RaceOf
  <2> QED
    BY <2>4, <2>5, <2>6, <2>7, <2>8, <2>9, <2>10, TurnInv DEF Own
<1> QED
  BY <1>4, <1>5 DEF CreateTag

(* ... looks it up again ...                                                *)
LEMMA LookAgainInv ==
    ASSUME Inv, NEW c \in Call, LookAgain(c)
    PROVE  Turn(c) /\ Inv'
<1> DEFINE l == Wanted(c)
           to == StillWant(c, l)
<1>1. pc[c] = "again" /\ UNCHANGED <<films, label, asks, at, copy, seen, faults, late>>
  BY DEF LookAgain
<1>2. /\ Is(c, {"edit"}) \/ Is(c, {"add"})
      /\ ~Is(c, {"tagDelete"}) /\ ~Is(c, {"tagCreate"})
      /\ want[c] \in SUBSET Label /\ ids[c] \in SUBSET Tag /\ Given(ids[c])
      /\ l \in want[c] /\ l \in Label
      /\ to \in {"post", "apply", "create"} /\ to \in Stages
  BY <1>1, Resolves DEF StillWant, Stages
<1>3. faults' \in Nat /\ faults <= faults' /\ LateMove(c)
  BY <1>1, FaultsSame DEF LateMove
<1>4. CASE Labelled({l}) = {}
  <2>1. Ends(c, "failed") /\ UNCHANGED <<ids, want>>
    BY <1>4 DEF LookAgain
  <2>2. RaceOf(c)'
    <3>1. Is(c, {"edit"}) => ~Quiet
      BY <1>1, <1>4 DEF Inv, CallInv, TagsOf
    <3> QED
      BY <1>1, <3>1 DEF RaceOf, Quiet, Is
  <2> QED
    BY <1>1, <2>1, <2>2, FailsSame
<1>5. CASE Labelled({l}) # {}
  <2>1. Goes(c, to) /\ UNCHANGED <<mode, named>>
    BY <1>5 DEF LookAgain, GoesOn
  <2>2. PICK t \in Labelled({l}) : Have(c, l, t)
    BY <1>5 DEF LookAgain
  <2> HIDE DEF to
  <2>3. t \in Tag /\ label[t] = l
    BY DEF Labelled
  <2>4. /\ ids' \in [Call -> SUBSET Tag] /\ want' \in [Call -> SUBSET Label]
        /\ ids'[c] = ids[c] \cup {t}
        /\ \A d \in Call \ {c} : ids'[d] = ids[d] /\ want'[d] = want[d]
    BY <1>2, <2>2, <2>3 DEF Have, Inv, TypeOK
  <2>5. /\ pc' \in [Call -> Stages] /\ pc'[c] = to
        /\ \A d \in Call \ {c} : pc'[d] = pc[d]
    BY <1>2, <2>1, GoesIs
  <2>6. Turn(c)
    <3>1. OwnMove(c)
      BY <1>1, <1>2, <2>3, <2>4, Distinct DEF OwnMove
    <3>2. AddMove(c)
      BY <1>2, <2>5 DEF AddMove, Told
    <3> QED
      BY <1>1, <1>3, <2>1, <2>4, <2>5, <3>1, <3>2, NothingMoves DEF Turn, SameFor, LockMove
  <2>7. TypeOK'
    BY <1>1, <2>1, <2>4, <2>5 DEF Inv, TypeOK, Locks!TypeOK
  <2>8. Own(c)'
    BY <1>1, <2>1, <2>2, <2>3, <2>5, <2>6, HaveOwn DEF to
  <2> QED
    BY <2>6, <2>7, <2>8, TurnInv
<1> QED
  BY <1>4, <1>5

(* ... looks for the film to add ...                                        *)
LEMMA FindAddInv ==
    ASSUME Inv, NEW c \in Call, FindAdd(c)
    PROVE  Turn(c) /\ Inv'
<1> DEFINE to == IF \E f \in asks[c].films : There(f) THEN "failed"
                 ELSE IF asks[c].add = {} THEN "post" ELSE "tags"
<1>1. /\ pc[c] = "find" /\ Is(c, {"add"}) /\ Ends(c, to)
      /\ UNCHANGED <<films, label, asks, at, ids, want, copy, seen, faults, late>>
  BY DEF FindAdd
<1>2. to \in {"failed", "post", "tags"} /\ to \in Stages
  BY DEF Stages
<1> HIDE DEF to
<1>3. /\ pc' \in [Call -> Stages] /\ pc'[c] = to
      /\ \A d \in Call \ {c} : pc'[d] = pc[d]
      /\ LockMove(c) /\ Locks!TypeOK' /\ mode'[c] = "idle"
  BY <1>1, <1>2, EndsIs
<1>4. faults' \in Nat /\ faults <= faults' /\ LateMove(c)
  BY <1>1, FaultsSame DEF LateMove
<1>5. /\ ~Is(c, {"edit"}) /\ ~Is(c, {"edit", "delete"})
      /\ ~Is(c, {"tagDelete"}) /\ ~Is(c, {"tagCreate"})
      /\ at[c] = 1 /\ want[c] = {}
  BY <1>1, AddAsks DEF Inv, CallInv, CountOf
<1>6. Turn(c)
  <2>1. OwnMove(c)
    BY <1>1 DEF OwnMove, Inv, TypeOK
  <2>2. AddMove(c)
    BY <1>2, <1>3 DEF AddMove, Told
  <2> QED
    BY <1>1, <1>3, <1>4, <2>1, <2>2, NothingMoves DEF Turn, SameFor
<1>7. TypeOK'
  BY <1>1, <1>3 DEF Inv, TypeOK
<1>8. Own(c)'
  <2>1. StageOf(c)'
    BY <1>1, <1>2, <1>3, <1>5 DEF StageOf, Is
  <2>2. CountOf(c)'
    BY <1>1, <1>2, <1>3, <1>5 DEF CountOf, Is
  <2>3. LockOf(c)'
    BY <1>1, <1>2, <1>3, <1>5 DEF LockOf, Is
  <2>4. PointOf(c)' /\ TagsOf(c)' /\ StandOf(c)' /\ RaceOf(c)'
    BY <1>1, <1>2, <1>3, <1>5 DEF PointOf, TagsOf, StandOf, RaceOf, Is
  <2> QED
    BY <2>1, <2>2, <2>3, <2>4 DEF Own
<1> QED
  BY <1>6, <1>7, <1>8, TurnInv

(* ... adds it, unless it has been added since ...                          *)
LEMMA PostInv ==
    ASSUME Inv, NEW c \in Call, Post(c)
    PROVE  Turn(c) /\ Inv'
<1>1. /\ pc[c] = "post" /\ Is(c, {"add"})
      /\ UNCHANGED <<label, asks, at, ids, want, copy, seen, faults, late>>
  BY DEF Post, Inv, CallInv, StageOf
<1>2. /\ ~Is(c, {"edit"}) /\ ~Is(c, {"edit", "delete"})
      /\ ~Is(c, {"tagDelete"}) /\ ~Is(c, {"tagCreate"}) /\ mode[c] = "idle"
  BY <1>1, AddAsks
<1>3. CASE FilmMade(c) /\ GoesOn(c, "answer")
  <2>1. /\ FilmsTyped /\ \A f \in Film : films'[f] = films[f] \/ FilmAdded(c, f)
        /\ \A f \in asks[c].films : films[f] = Absent /\ films'[f] \in FilmRecord
    BY <1>1, <1>3, FilmMadeIs
  <2>2. "answer" \in Stages
    BY DEF Stages
  <2>3. /\ pc' \in [Call -> Stages] /\ pc'[c] = "answer"
        /\ \A d \in Call \ {c} : pc'[d] = pc[d]
        /\ LockMove(c) /\ Locks!TypeOK' /\ UNCHANGED <<mode, named>>
    BY <1>3, <2>2, GoesOnIs
  <2>4. Turn(c)
    <3>1. OwnMove(c) /\ \A t \in Tag : TagMove(c, t)
      BY <1>1 DEF OwnMove, Inv, TypeOK, TagMove
    <3>2. AddMove(c) /\ LateMove(c) /\ \A f \in Film : FilmMove(c, f)
      BY <1>1, <2>1 DEF AddMove, LateMove, FilmMove
    <3> QED
      BY <1>1, <2>3, <3>1, <3>2, FaultsSame DEF Turn, SameFor
  <2>5. TypeOK'
    BY <1>1, <2>1, <2>3 DEF Inv, TypeOK, FilmsTyped
  <2>6. LockOf(c)'
    BY <1>1, <2>3, <2>4, GoesOnLock DEF Ended
  <2>7. StageOf(c)' /\ CountOf(c)'
    BY <1>1, <1>2, <2>3 DEF StageOf, CountOf, Is
  <2>8. PointOf(c)' /\ TagsOf(c)' /\ StandOf(c)' /\ RaceOf(c)'
    BY <1>1, <1>2, <2>3 DEF PointOf, TagsOf, StandOf, RaceOf, Is
  <2> QED
    BY <2>4, <2>5, <2>6, <2>7, <2>8, TurnInv DEF Own
<1>4. CASE Ends(c, "failed") /\ UNCHANGED films
  <2>1. RaceOf(c)'
    BY <1>1, <1>2 DEF RaceOf, Is
  <2> QED
    BY <1>1, <1>4, <2>1, FailsSame
<1> QED
  BY <1>3, <1>4 DEF Post

(* ... or tries again, three times, while Radarr is busy with it ...        *)
LEMMA PostClashesInv ==
    ASSUME Inv, NEW c \in Call, PostClashes(c)
    PROVE  Turn(c) /\ Inv'
<1> DEFINE to == IF at[c] = 4 THEN "failed" ELSE "post"
<1>1. /\ pc[c] = "post" /\ Is(c, {"add"}) /\ Goes(c, to)
      /\ at' = [at EXCEPT ![c] = @ + 1]
      /\ FilmMade(c) \/ UNCHANGED films
      /\ UNCHANGED <<label, asks, ids, want, copy, seen, faults, late, mode, named>>
  BY DEF PostClashes, Step, Inv, CallInv, StageOf
<1>2. /\ ~Is(c, {"edit"}) /\ ~Is(c, {"edit", "delete"})
      /\ ~Is(c, {"tagDelete"}) /\ ~Is(c, {"tagCreate"}) /\ mode[c] = "idle"
  BY <1>1, AddAsks
<1>3. at[c] \in 1 .. 4
  BY <1>1 DEF Inv, CallInv, CountOf, TypeOK
<1>4. /\ at' \in [Call -> 1 .. 5] /\ at'[c] = at[c] + 1
      /\ \A d \in Call \ {c} : at'[d] = at[d]
      /\ at[c] # 4 => at'[c] <= 4
  BY <1>1, <1>3 DEF Inv, TypeOK
<1>5. to \in {"failed", "post"} /\ to \in Stages /\ (to = "post" => at'[c] <= 4)
  BY <1>4 DEF Stages
<1> HIDE DEF to
<1>6. /\ pc' \in [Call -> Stages] /\ pc'[c] = to
      /\ \A d \in Call \ {c} : pc'[d] = pc[d]
  BY <1>1, <1>5, GoesIs
<1>7. FilmsTyped /\ \A f \in Film : FilmMove(c, f)
  BY <1>1, FilmMadeIs DEF FilmMove, FilmsTyped, Inv, TypeOK
<1>8. Turn(c)
  <2>1. OwnMove(c) /\ LateMove(c) /\ \A t \in Tag : TagMove(c, t)
    BY <1>1 DEF OwnMove, LateMove, TagMove, Inv, TypeOK
  <2>2. AddMove(c)
    BY <1>5, <1>6 DEF AddMove, Told
  <2> QED
    BY <1>1, <1>4, <1>6, <1>7, <2>1, <2>2, FaultsSame DEF Turn, SameFor, LockMove
<1>9. TypeOK'
  BY <1>1, <1>4, <1>6, <1>7 DEF Inv, TypeOK, FilmsTyped, Locks!TypeOK
<1>10. StageOf(c)'
  BY <1>1, <1>2, <1>5, <1>6 DEF StageOf, Is
<1>11. CountOf(c)'
  BY <1>1, <1>2, <1>5, <1>6 DEF CountOf, Is
<1>12. LockOf(c)'
  BY <1>1, <1>2, <1>5, <1>6 DEF LockOf, Is
<1>13. PointOf(c)' /\ TagsOf(c)' /\ StandOf(c)' /\ RaceOf(c)'
  BY <1>1, <1>2, <1>5, <1>6 DEF PointOf, TagsOf, StandOf, RaceOf, Is
<1> QED
  BY <1>8, <1>9, <1>10, <1>11, <1>12, <1>13, TurnInv DEF Own

(* ... deletes the film, if told to ...                                     *)
LEMMA DeleteInv ==
    ASSUME Inv, NEW c \in Call, Delete(c)
    PROVE  Turn(c) /\ Inv'
<1>1. /\ pc[c] = "delete" /\ Is(c, {"delete"}) /\ mode[c] = "held" /\ named[c] = asks[c].films
      /\ ~Is(c, {"edit"}) /\ ~Is(c, {"add"}) /\ ~Is(c, {"tagDelete"}) /\ ~Is(c, {"tagCreate"})
      /\ UNCHANGED <<label, asks, at, ids, want, copy, seen, faults, late>>
  BY DEF Delete, Inv, CallInv, StageOf, LockOf, Is, Ended
<1>2. OwnMove(c) /\ LateMove(c) /\ \A t \in Tag : TagMove(c, t)
  BY <1>1 DEF OwnMove, LateMove, Inv, TypeOK, TagMove
<1>3. CASE FilmGone(c) /\ GoesOn(c, "answer")
  <2>1. PICK f \in Film :
           /\ asks[c].films = {f} /\ There(f) /\ FilmsTyped /\ OnlyFilms({f})
           /\ films'[f] = Gone
    BY <1>1, <1>3, FilmGoneIs
  <2>2. "answer" \in Stages
    BY DEF Stages
  <2>3. /\ pc' \in [Call -> Stages] /\ pc'[c] = "answer"
        /\ \A d \in Call \ {c} : pc'[d] = pc[d]
        /\ LockMove(c) /\ Locks!TypeOK' /\ UNCHANGED <<mode, named>>
    BY <1>3, <2>2, GoesOnIs
  <2>4. Turn(c)
    <3>1. \A g \in Film : FilmMove(c, g)
      BY <1>1, <2>1, <2>3 DEF FilmMove, FilmHeld, FilmWritten, OnlyFilms
    <3>2. AddMove(c)
      BY <1>1 DEF AddMove, Told, Is
    <3> QED
      BY <1>1, <1>2, <2>3, <3>1, <3>2, FaultsSame DEF Turn, SameFor
  <2>5. TypeOK'
    BY <1>1, <2>1, <2>3 DEF Inv, TypeOK, FilmsTyped
  <2>6. LockOf(c)'
    BY <1>1, <2>3, <2>4, GoesOnLock DEF Ended
  <2>7. StageOf(c)' /\ CountOf(c)'
    BY <1>1, <2>3 DEF StageOf, CountOf, Is
  <2>8. PointOf(c)' /\ TagsOf(c)' /\ StandOf(c)' /\ RaceOf(c)'
    BY <1>1, <2>3 DEF PointOf, TagsOf, StandOf, RaceOf, Is
  <2> QED
    BY <2>4, <2>5, <2>6, <2>7, <2>8, TurnInv DEF Own
<1>4. ASSUME NEW how \in Ended, Ends(c, how), UNCHANGED films
      PROVE  Turn(c) /\ Inv'
  <2>1. how \in Stages
    BY DEF Ended, Stages
  <2>2. /\ pc' \in [Call -> Stages] /\ pc'[c] = how
        /\ \A d \in Call \ {c} : pc'[d] = pc[d]
        /\ LockMove(c) /\ Locks!TypeOK'
    BY <1>4, <2>1, EndsIs
  <2>3. Turn(c)
    <3>1. AddMove(c)
      BY <1>1 DEF AddMove, Told, Is
    <3> QED
      BY <1>1, <1>2, <1>4, <2>2, <3>1, FaultsSame, NothingMoves DEF Turn, SameFor
  <2>4. TypeOK'
    BY <1>1, <1>4, <2>2 DEF Inv, TypeOK
  <2>5. Own(c)'
    BY <1>1, <1>4, EndedOwn, RaceSpared DEF Is
  <2> QED
    BY <2>3, <2>4, <2>5, TurnInv
<1> QED
  BY <1>3, <1>4 DEF Delete, Refused, Ended

(* One that goes on or answers promises no more than its stage.             *)
LEMMA TagOwn ==
    ASSUME Inv, NEW c \in Call, Is(c, {"tagDelete", "tagCreate", "tagRename"}),
           asks'[c] = asks[c], UNCHANGED <<mode, named>>,
           pc'[c] \in {"strip", "drop", "put", "answer"},
           pc'[c] \in {"strip", "drop"} => Is(c, {"tagDelete"}),
           pc'[c] = "put" => Is(c, {"tagCreate", "tagRename"}),
           Is(c, {"tagCreate"}) => ids'[c] = {}
    PROVE  Own(c)'
<1>1. ~Is(c, {"edit"}) /\ ~Is(c, {"add"}) /\ ~Is(c, {"edit", "delete"}) /\ mode[c] = "idle"
  BY TagAsks
<1>2. StageOf(c)'
  BY DEF StageOf, Is
<1>3. CountOf(c)'
  BY <1>1 DEF CountOf, Is
<1>4. LockOf(c)'
  BY <1>1 DEF LockOf, Is
<1>5. PointOf(c)' /\ TagsOf(c)' /\ StandOf(c)' /\ RaceOf(c)'
  BY <1>1 DEF PointOf, TagsOf, StandOf, RaceOf, Is
<1> QED
  BY <1>2, <1>3, <1>4, <1>5 DEF Own

(* ... finds the tag to delete, and the films that carry it ...             *)
LEMMA FindTagInv ==
    ASSUME Inv, NEW c \in Call, FindTag(c)
    PROVE  Turn(c) /\ Inv'
<1>1. /\ pc[c] = "find" /\ Is(c, {"tagDelete"}) /\ asks[c].tool = "tagDelete"
      /\ Is(c, {"tagDelete", "tagCreate", "tagRename"})
      /\ UNCHANGED <<films, label, asks, at, want, copy, faults, late>>
  BY DEF FindTag, Is
<1>2. asks[c].label \in Label /\ ids[c] = {} /\ ~Is(c, {"edit"}) /\ ~Is(c, {"tagCreate"})
  BY <1>1, TagAsks DEF Inv, CallInv, CountOf, Is
<1>3. faults' \in Nat /\ faults <= faults' /\ LateMove(c)
  BY <1>1, FaultsSame DEF LateMove
<1>4. CASE Ends(c, "failed") /\ UNCHANGED <<ids, seen>>
  <2>1. RaceOf(c)'
    BY <1>1, <1>2 DEF RaceOf, Is
  <2> QED
    BY <1>1, <1>4, <2>1, FailsSame
<1>5. ASSUME NEW t \in Labelled({asks[c].label}), NEW carriers \in SUBSET Film,
             Goes(c, IF carriers = {} THEN "drop" ELSE "strip"),
             ids' = [ids EXCEPT ![c] = {t}], seen' = [seen EXCEPT ![c] = carriers],
             UNCHANGED <<mode, named>>
      PROVE  Turn(c) /\ Inv'
  <2> DEFINE to == IF carriers = {} THEN "drop" ELSE "strip"
  <2>1. to \in {"drop", "strip"} /\ to \in Stages
    BY DEF Stages
  <2>2. Goes(c, to)
    BY <1>5
  <2> HIDE DEF to
  <2>3. /\ pc' \in [Call -> Stages] /\ pc'[c] = to
        /\ \A d \in Call \ {c} : pc'[d] = pc[d]
    BY <2>1, <2>2, GoesIs
  <2>4. t \in Tag /\ label[t] # Unused
    BY <1>2, Distinct DEF Labelled
  <2>5. /\ ids' \in [Call -> SUBSET Tag] /\ ids'[c] = {t}
        /\ \A d \in Call \ {c} : ids'[d] = ids[d]
        /\ seen' \in [Call -> SUBSET Film]
    BY <1>5, <2>4 DEF Inv, TypeOK
  <2>6. Turn(c)
    <3>1. OwnMove(c)
      BY <1>1, <1>2, <2>4, <2>5 DEF OwnMove
    <3>2. AddMove(c)
      BY <2>1, <2>3 DEF AddMove, Told
    <3> QED
      BY <1>1, <1>3, <1>5, <2>3, <2>5, <3>1, <3>2, NothingMoves DEF Turn, SameFor, LockMove
  <2>7. TypeOK'
    BY <1>1, <1>5, <2>3, <2>5 DEF Inv, TypeOK, Locks!TypeOK
  <2>8. Own(c)'
    BY <1>1, <1>2, <1>5, <2>1, <2>3, TagOwn
  <2> QED
    BY <2>6, <2>7, <2>8, TurnInv
<1>6. \A t \in Tag : {f \in Film : There(f) /\ t \in films[f].tags} \in SUBSET Film
  OBVIOUS
<1> QED
  BY <1>4, <1>5, <1>6 DEF FindTag, GoesOn, Labelled

(* ... takes it off them ...                                                *)
LEMMA TakeOffInv ==
    ASSUME Inv, NEW c \in Call, TakeOff(c)
    PROVE  Turn(c) /\ Inv'
<1>1. /\ pc[c] = "strip" /\ Is(c, {"tagDelete"}) /\ Is(c, {"tagDelete", "tagCreate", "tagRename"})
      /\ UNCHANGED <<label, asks, at, ids, want, copy, seen, faults, late>>
  BY DEF TakeOff, Inv, CallInv, StageOf, Is
<1>2. ~Is(c, {"edit"}) /\ ~Is(c, {"add"}) /\ ~Is(c, {"tagCreate"})
  BY <1>1 DEF Is
<1>3. CASE TagStripped(c) /\ GoesOn(c, "drop")
  <2>1. /\ FilmsTyped
        /\ \A f \in Film : \/ films'[f] = films[f]
                           \/ There(f) /\ films'[f] = [films[f] EXCEPT !.tags = @ \ ids[c]]
    BY <1>3, TagStrippedIs
  <2>2. "drop" \in Stages
    BY DEF Stages
  <2>3. /\ pc' \in [Call -> Stages] /\ pc'[c] = "drop"
        /\ \A d \in Call \ {c} : pc'[d] = pc[d]
        /\ LockMove(c) /\ Locks!TypeOK' /\ UNCHANGED <<mode, named>>
    BY <1>3, <2>2, GoesOnIs
  <2>4. Turn(c)
    <3>1. \A f \in Film : FilmMove(c, f)
      BY <1>1, <2>1, <2>3 DEF FilmMove, FilmStripped, Strips
    <3>2. OwnMove(c) /\ \A t \in Tag : TagMove(c, t)
      BY <1>1 DEF OwnMove, Inv, TypeOK, TagMove
    <3>3. AddMove(c) /\ LateMove(c)
      BY <1>1, <1>2 DEF AddMove, LateMove, Told, Is
    <3> QED
      BY <1>1, <2>3, <3>1, <3>2, <3>3, FaultsSame DEF Turn, SameFor
  <2>5. TypeOK'
    BY <1>1, <2>1, <2>3 DEF Inv, TypeOK, FilmsTyped
  <2>6. Own(c)'
    BY <1>1, <1>2, <2>3, TagOwn
  <2> QED
    BY <2>4, <2>5, <2>6, TurnInv
<1>4. CASE Refused(c, seen[c])
  <2>1. Ends(c, "failed") /\ UNCHANGED films
    BY <1>4 DEF Refused
  <2>2. RaceOf(c)'
    BY <1>1, <1>2 DEF RaceOf, Is
  <2> QED
    BY <1>1, <2>1, <2>2, FailsSame
<1> QED
  BY <1>3, <1>4 DEF TakeOff

(* ... and deletes it; tag_create and tag_rename look for the label ...     *)
LEMMA DeleteTagInv ==
    ASSUME Inv, NEW c \in Call, DeleteTag(c)
    PROVE  Turn(c) /\ Inv'
<1>1. /\ pc[c] = "drop" /\ Is(c, {"tagDelete"}) /\ Is(c, {"tagDelete", "tagCreate", "tagRename"})
      /\ UNCHANGED <<films, asks, at, ids, want, copy, seen, faults, late>>
  BY DEF DeleteTag, Inv, CallInv, StageOf, Is
<1>2. ~Is(c, {"edit"}) /\ ~Is(c, {"add"}) /\ (Is(c, {"tagCreate"}) => ids'[c] = {})
  BY <1>1 DEF Is, Inv, CallInv, StageOf
<1>3. CASE TagGone(c) /\ GoesOn(c, "answer")
  <2>1. LabelTyped /\ \A t \in Tag : TagMove(c, t)
    BY <1>1, <1>3, TagGoneIs
  <2>2. "answer" \in Stages
    BY DEF Stages
  <2>3. /\ pc' \in [Call -> Stages] /\ pc'[c] = "answer"
        /\ \A d \in Call \ {c} : pc'[d] = pc[d]
        /\ LockMove(c) /\ Locks!TypeOK' /\ UNCHANGED <<mode, named>>
    BY <1>3, <2>2, GoesOnIs
  <2>4. Turn(c)
    <3>1. OwnMove(c) /\ \A f \in Film : FilmMove(c, f)
      BY <1>1 DEF OwnMove, Inv, TypeOK, FilmMove
    <3>2. AddMove(c) /\ LateMove(c)
      BY <1>1, <1>2 DEF AddMove, LateMove, Told, Is
    <3> QED
      BY <1>1, <2>1, <2>3, <3>1, <3>2, FaultsSame DEF Turn, SameFor
  <2>5. TypeOK'
    BY <1>1, <2>1, <2>3 DEF Inv, TypeOK, LabelTyped
  <2>6. Own(c)'
    BY <1>1, <1>2, <2>3, TagOwn
  <2> QED
    BY <2>4, <2>5, <2>6, TurnInv
<1>4. CASE Ends(c, "failed") /\ UNCHANGED label
  <2>1. RaceOf(c)'
    BY <1>1, <1>2 DEF RaceOf, Is
  <2> QED
    BY <1>1, <1>4, <2>1, FailsSame
<1> QED
  BY <1>3, <1>4 DEF DeleteTag

(* ... of which none has it yet ...                                        *)
LEMMA FindLabelInv ==
    ASSUME Inv, NEW c \in Call, FindLabel(c)
    PROVE  Turn(c) /\ Inv'
<1> DEFINE own == IF asks[c].tool = "tagRename" THEN Labelled({asks[c].label}) ELSE {}
<1>1. /\ pc[c] = "find" /\ Is(c, {"tagCreate", "tagRename"})
      /\ Is(c, {"tagDelete", "tagCreate", "tagRename"})
      /\ UNCHANGED <<films, label, asks, at, want, copy, seen, faults, late>>
  BY DEF FindLabel, Is
<1>2. /\ ~Is(c, {"edit"}) /\ ~Is(c, {"tagDelete"})
      /\ Is(c, {"tagCreate"}) <=> ~Is(c, {"tagRename"})
      /\ asks[c].tool = "tagRename" => asks[c].label \in Label
  BY <1>1, TagAsks DEF Is
<1>3. faults' \in Nat /\ faults <= faults' /\ LateMove(c)
  BY <1>1, FaultsSame DEF LateMove
<1>4. own \in SUBSET Tag /\ Given(own) /\ (Is(c, {"tagCreate"}) => own = {})
  BY <1>2, Distinct DEF Labelled, Given, Is
<1>5. CASE Goes(c, "put") /\ ids' = [ids EXCEPT ![c] = own] /\ UNCHANGED <<mode, named>>
  <2> HIDE DEF own
  <2>1. "put" \in Stages
    BY DEF Stages
  <2>2. /\ pc' \in [Call -> Stages] /\ pc'[c] = "put"
        /\ \A d \in Call \ {c} : pc'[d] = pc[d]
    BY <1>5, <2>1, GoesIs
  <2>3. /\ ids' \in [Call -> SUBSET Tag] /\ ids'[c] = own
        /\ \A d \in Call \ {c} : ids'[d] = ids[d]
    BY <1>4, <1>5 DEF Inv, TypeOK
  <2>4. Turn(c)
    <3>1. OwnMove(c)
      BY <1>1, <1>2, <1>4, <2>3 DEF OwnMove, Given
    <3>2. AddMove(c)
      BY <2>2 DEF AddMove, Told
    <3> QED
      BY <1>1, <1>3, <1>5, <2>2, <2>3, <3>1, <3>2, NothingMoves DEF Turn, SameFor, LockMove
  <2>5. TypeOK'
    BY <1>1, <1>5, <2>2, <2>3 DEF Inv, TypeOK, Locks!TypeOK
  <2>6. Own(c)'
    BY <1>1, <1>4, <1>5, <2>2, <2>3, TagOwn
  <2> QED
    BY <2>4, <2>5, <2>6, TurnInv
<1>6. CASE Ends(c, "failed") /\ UNCHANGED ids
  <2>1. RaceOf(c)'
    BY <1>1, <1>2 DEF RaceOf, Is
  <2> QED
    BY <1>1, <1>6, <2>1, FailsSame
<1> QED
  BY <1>5, <1>6 DEF FindLabel, GoesOn

(* ... and put the tag under it ...                                         *)
LEMMA PutTagInv ==
    ASSUME Inv, NEW c \in Call, PutTag(c)
    PROVE  Turn(c) /\ Inv'
<1>1. /\ pc[c] = "put" /\ Is(c, {"tagCreate", "tagRename"})
      /\ Is(c, {"tagDelete", "tagCreate", "tagRename"})
      /\ UNCHANGED <<films, asks, at, ids, want, copy, seen, faults, late>>
  BY DEF PutTag, Inv, CallInv, StageOf, Is
<1>2. ~Is(c, {"edit"}) /\ ~Is(c, {"add"}) /\ (Is(c, {"tagCreate"}) => ids'[c] = {})
  BY <1>1 DEF Is, Inv, CallInv, StageOf
<1>3. CASE TagPut(c) /\ GoesOn(c, "answer")
  <2>1. LabelTyped /\ \A t \in Tag : TagMove(c, t)
    BY <1>1, <1>3, TagPutIs
  <2>2. "answer" \in Stages
    BY DEF Stages
  <2>3. /\ pc' \in [Call -> Stages] /\ pc'[c] = "answer"
        /\ \A d \in Call \ {c} : pc'[d] = pc[d]
        /\ LockMove(c) /\ Locks!TypeOK' /\ UNCHANGED <<mode, named>>
    BY <1>3, <2>2, GoesOnIs
  <2>4. Turn(c)
    <3>1. OwnMove(c) /\ \A f \in Film : FilmMove(c, f)
      BY <1>1 DEF OwnMove, Inv, TypeOK, FilmMove
    <3>2. AddMove(c) /\ LateMove(c)
      BY <1>1, <1>2 DEF AddMove, LateMove, Told, Is
    <3> QED
      BY <1>1, <2>1, <2>3, <3>1, <3>2, FaultsSame DEF Turn, SameFor
  <2>5. TypeOK'
    BY <1>1, <2>1, <2>3 DEF Inv, TypeOK, LabelTyped
  <2>6. Own(c)'
    BY <1>1, <1>2, <2>3, TagOwn
  <2> QED
    BY <2>4, <2>5, <2>6, TurnInv
<1>4. CASE Ends(c, "failed") /\ UNCHANGED label
  <2>1. RaceOf(c)'
    BY <1>1, <1>2 DEF RaceOf, Is
  <2> QED
    BY <1>1, <1>4, <2>1, FailsSame
<1> QED
  BY <1>3, <1>4 DEF PutTag

(* ... and any call answers.                                                *)
LEMMA AnswerInv ==
    ASSUME Inv, NEW c \in Call, Answer(c)
    PROVE  Turn(c) /\ Inv'
<1>1. /\ pc[c] = "answer" /\ Ends(c, "done")
      /\ UNCHANGED <<films, label, asks, at, ids, want, copy, seen, faults, late>>
  BY DEF Answer
<1>2. "done" \in Stages /\ "done" \in Ended
  BY DEF Stages, Ended
<1>3. /\ pc' \in [Call -> Stages] /\ pc'[c] = "done"
      /\ \A d \in Call \ {c} : pc'[d] = pc[d]
      /\ LockMove(c) /\ Locks!TypeOK'
  BY <1>1, <1>2, EndsIs
<1>4. faults' \in Nat /\ faults <= faults' /\ LateMove(c)
  BY <1>1, FaultsSame DEF LateMove
<1>5. Turn(c)
  <2>1. OwnMove(c) /\ AddMove(c)
    BY <1>1 DEF OwnMove, AddMove, Told, Is, Inv, TypeOK
  <2> QED
    BY <1>1, <1>3, <1>4, <2>1, NothingMoves DEF Turn, SameFor
<1>6. TypeOK'
  BY <1>1, <1>3 DEF Inv, TypeOK
<1>7. Own(c)'
  <2>1. Is(c, {"tagCreate"}) => ids'[c] = {}
    BY <1>1 DEF Inv, CallInv, StageOf, Is
  <2> QED
    BY <1>1, <1>2, <1>3, <2>1, EndedOwn, RaceSpared
<1> QED
  BY <1>5, <1>6, <1>7, TurnInv

-----------------------------------------------------------------------------
(* It holds when a turn begins ...                                          *)
LEMMA InitInv == Init => Inv
<1> SUFFICES ASSUME Init PROVE Inv
  OBVIOUS
<1> DEFINE tags(f) == IF f \in Tagged THEN 1 .. Len(Kept) ELSE {}
<1>1. /\ pc = [c \in Call |-> "new"] /\ asks = [c \in Call |-> Nothing]
      /\ at = [c \in Call |-> 1] /\ ids = [c \in Call |-> {}]
      /\ want = [c \in Call |-> {}] /\ copy = [c \in Call |-> Nothing]
      /\ seen = [c \in Call |-> {}] /\ faults = 0 /\ late = [c \in Call |-> "none"] /\ Locks!Init
  BY DEF Init
<1>2. PICK missing \in SUBSET Addable :
         films = [f \in Film |-> IF f \in missing THEN Absent
                                 ELSE [path |-> Base, mon |-> Base, tags |-> tags(f)]]
  BY DEF Init
<1>3. Len(Kept) \in Nat /\ \A t \in 1 .. Len(Kept) : Kept[t] \in Label
  <2>1. Kept \in Seq(Label)
    BY FilmsAssumption
  <2> QED
    BY <2>1, LenProperties, ElementOfSeq
<1>4. \A f \in Film : tags(f) \in SUBSET Tag
  BY FilmsAssumption
<1>5. label \in [Tag -> Label \cup {Unused, Deleted}]
      /\ \A t \in 1 .. Len(Kept) : label[t] # Unused
  <2>1. \A t \in Tag : t \in Nat /\ t >= 1
    <3> DEFINE n == Cardinality(Tag)
    <3>1. Tag = 1 .. n
      BY FilmsAssumption
    <3> HIDE DEF n
    <3> QED
      BY <3>1
  <2>2. label = [t \in Tag |-> IF t <= Len(Kept) THEN Kept[t] ELSE Unused]
    BY DEF Init
  <2>3. \A t \in Tag : t <= Len(Kept) => t \in 1 .. Len(Kept)
    BY <1>3, <2>1
  <2>4. \A t \in Tag : label[t] \in Label \cup {Unused, Deleted}
    BY <1>3, <2>2, <2>3
  <2>5. \A t \in 1 .. Len(Kept) : t \in Tag /\ t <= Len(Kept)
    BY <1>3, FilmsAssumption
  <2> QED
    BY <1>3, <2>2, <2>4, <2>5, Distinct
<1>6. \A f \in Film : \/ films[f] = Absent
                      \/ films[f] \in FilmRecord /\ films[f].tags = tags(f)
  BY <1>2, <1>4 DEF FilmRecord
<1>7. films \in [Film -> FilmRecord \cup {Absent, Gone}]
  <2>1. \A f \in Film : films[f] \in FilmRecord \cup {Absent, Gone}
    BY <1>6
  <2> QED
    BY <1>2, <2>1
<1>8. TypeOK
  BY <1>1, <1>5, <1>7, FilmsAssumption DEF TypeOK, Stages, Locks!Init, Locks!TypeOK, Locks!Modes
<1>9. Locks!Exclusion
  BY <1>1 DEF Locks!Init, Locks!Exclusion
<1>10. TagsGiven
  <2>1. \A f \in Film : There(f) => Given(films[f].tags)
    BY <1>5, <1>6, Distinct DEF There, Given
  <2> QED
    BY <1>1, <2>1, Distinct DEF TagsGiven, Given
<1>11. ASSUME NEW c \in Call PROVE CallInv(c)
  <2>1. pc[c] = "new" /\ asks[c] = Nothing /\ at[c] = 1 /\ ids[c] = {} /\ want[c] = {}
        /\ late[c] = "none"
    BY <1>1
  <2>2. mode[c] = "idle"
    BY <1>1 DEF Locks!Init
  <2>3. StageOf(c) /\ CountOf(c) /\ LockOf(c) /\ LateOf(c) /\ PointOf(c)
    BY <2>1, <2>2 DEF StageOf, CountOf, LockOf, LateOf, PointOf, Is, Editing
  <2>4. TagsOf(c) /\ StandOf(c) /\ RaceOf(c) /\ AddOf(c)
    BY <2>1 DEF TagsOf, StandOf, RaceOf, AddOf, Told, Is
  <2> QED
    BY <2>3, <2>4 DEF CallInv
<1> QED
  BY <1>8, <1>9, <1>10, <1>11 DEF Inv

(* ... and every step is a turn of one call, and keeps it.                  *)
LEMMA NextInv ==
    ASSUME Inv, Next
    PROVE  (\E c \in Call : Turn(c)) /\ Inv'
<1>1. PICK c \in Call : \/ \E rq \in Request[c] : Begin(c, rq)
                        \/ Steps(c) \/ RequestFails(c) \/ LandLate(c)
  BY DEF Next
<1>2. CASE \E rq \in Request[c] : Begin(c, rq)  BY <1>2, BeginInv
<1>3. CASE RequestFails(c)                      BY <1>3, RequestFailsInv
<1>4. CASE LandLate(c)                          BY <1>4, LandLateInv
<1>5. CASE Steps(c)
  <2>1. CASE FindFilms(c)    BY <2>1, FindFilmsInv
  <2>2. CASE FindAdd(c)      BY <2>2, FindAddInv
  <2>3. CASE FindTag(c)      BY <2>3, FindTagInv
  <2>4. CASE FindLabel(c)    BY <2>4, FindLabelInv
  <2>5. CASE Locked(c)       BY <2>5, LockedInv
  <2>6. CASE ReadFilm(c)     BY <2>6, ReadFilmInv
  <2>7. CASE PointAt(c)      BY <2>7, PointAtInv
  <2>8. CASE EditFields(c)   BY <2>8, EditFieldsInv
  <2>9. CASE EditTags(c)     BY <2>9, EditTagsInv
  <2>10. CASE LookUpTags(c)  BY <2>10, LookUpTagsInv
  <2>11. CASE CreateTag(c)   BY <2>11, CreateTagInv
  <2>12. CASE LookAgain(c)   BY <2>12, LookAgainInv
  <2>13. CASE Post(c)        BY <2>13, PostInv
  <2>14. CASE PostClashes(c) BY <2>14, PostClashesInv
  <2>15. CASE Delete(c)      BY <2>15, DeleteInv
  <2>16. CASE TakeOff(c)     BY <2>16, TakeOffInv
  <2>17. CASE DeleteTag(c)   BY <2>17, DeleteTagInv
  <2>18. CASE PutTag(c)      BY <2>18, PutTagInv
  <2>19. CASE Answer(c)      BY <2>19, AnswerInv
  <2> QED
    BY <1>5, <2>1, <2>2, <2>3, <2>4, <2>5, <2>6, <2>7, <2>8, <2>9, <2>10, <2>11, <2>12,
       <2>13, <2>14, <2>15, <2>16, <2>17, <2>18, <2>19 DEF Steps
<1> QED
  BY <1>1, <1>2, <1>3, <1>5, <1>4

(* A step in which nothing happens keeps it too.                            *)
LEMMA StutterInv ==
    ASSUME Inv, UNCHANGED vars
    PROVE  Inv'
<1> USE DEF vars
<1>1. TypeOK' /\ Locks!Exclusion' /\ TagsGiven'
  BY DEF Inv, TypeOK, Locks!TypeOK, Locks!Exclusion, TagsGiven, There, Given
<1>2. ASSUME NEW c \in Call PROVE CallInv(c)'
  <2>1. CallInv(c)
    BY DEF Inv
  <2>2. StageOf(c)' /\ CountOf(c)' /\ LockOf(c)' /\ LateOf(c)' /\ PointOf(c)'
    BY <2>1 DEF CallInv, StageOf, CountOf, LockOf, LateOf, PointOf, LandedOn, Is, There, Op
  <2>3. TagsOf(c)'
    BY <2>1 DEF CallInv, TagsOf, Is, Quiet, Op, Labelled, Wanted
  <2>4. StandOf(c)'
    BY <2>1 DEF CallInv, StandOf, SoFar, LandedOn, Is, Quiet, Acted, Pointed, Fielded, TakenOff, PutOn, Past,
                There, Carried
  <2>5. RaceOf(c)' /\ AddOf(c)'
    BY <2>1 DEF CallInv, RaceOf, AddOf, Told, Is, Quiet, There
  <2> QED
    BY <2>2, <2>3, <2>4, <2>5 DEF CallInv
<1> QED
  BY <1>1, <1>2 DEF Inv

(* The invariant that all of the below rest on.                             *)
THEOREM Invariance == Spec => []Inv
<1>1. ASSUME Inv, [Next]_vars PROVE Inv'
  BY <1>1, NextInv, StutterInv
<1> QED
  BY <1>1, InitInv, PTL DEF Spec

(* Films, tags, calls and locks are always what they should be.             *)
THEOREM TypeCorrect == Spec => []TypeOK
<1>1. Inv => TypeOK
  BY DEF Inv
<1> QED
  BY <1>1, Invariance, PTL

(* "An edit of a film holds it, so that pointing it at a folder, which      *)
(* sends the whole film back, cannot be read before the edit and written    *)
(* after it" (locks.go:37): the film about to be sent back is the film as   *)
(* Radarr has it, but for tags that a tag_delete is taking off, unless a    *)
(* write to it landed that its call had given up on.                        *)
THEOREM UndoesOnlyTagDeletes == Spec => []PointUndoesOnlyTagDeletes
<1>1. Inv => PointUndoesOnlyTagDeletes
  BY DEF Inv, CallInv, PointOf, PointUndoesOnlyTagDeletes
<1> QED
  BY <1>1, Invariance, PTL

(* An edit about to answer has done all it was asked to, each tag operation *)
(* given among it, so with what it has done all it was asked stands.        *)
LEMMA AllPast ==
    ASSUME Inv, NEW c \in Call, pc[c] = "answer", Is(c, {"edit"})
    PROVE  /\ Acted(c)
           /\ TakenOff(c) = asks[c].remove /\ PutOn(c) = asks[c].add
           /\ asks[c].replace # NotGiven => Past(c, "replace")
           /\ asks[c].fields # {} => Fielded(c)
<1> DEFINE ops == Ops(asks[c])
<1>1. /\ Gives(asks[c])
      /\ Len(ops) \in 0 .. 3
      /\ asks[c].replace # NotGiven => \E i \in 1 .. Len(ops) : ops[i].apply = "replace"
      /\ asks[c].add # {} => \E i \in 1 .. Len(ops) : ops[i].apply = "add"
      /\ asks[c].remove # {} => \E i \in 1 .. Len(ops) : ops[i].apply = "remove"
  BY EditAsks DEF Shape, InOrder, Is
<1>2. at[c] = Len(ops) + 1
  BY DEF Inv, CallInv, CountOf
<1>3. 1 .. at[c] - 1 = 1 .. Len(ops)
  BY <1>1, <1>2
<1>4. /\ asks[c].replace # NotGiven => Past(c, "replace")
      /\ asks[c].add # {} => Past(c, "add")
      /\ asks[c].remove # {} => Past(c, "remove")
  BY <1>1, <1>3 DEF Past
<1>5. TakenOff(c) = asks[c].remove /\ PutOn(c) = asks[c].add
  BY <1>4 DEF TakenOff, PutOn
<1>6. asks[c].fields # {} => Fielded(c)
  BY DEF Fielded
<1>7. Acted(c)
  <2>1. CASE asks[c].folder # NotGiven \/ asks[c].fields # {}
    BY <1>6, <2>1 DEF Acted, Pointed
  <2>2. CASE asks[c].replace # NotGiven \/ asks[c].add # {} \/ asks[c].remove # {}
    <3>1. Len(ops) # 0
      BY <1>1, <2>2
    <3> QED
      BY <1>1, <1>2, <3>1 DEF Acted
  <2> QED
    BY <1>1, <2>1, <2>2 DEF Gives
<1> QED
  BY <1>4, <1>5, <1>6, <1>7

(* While no call that changes tags themselves has begun, an edit that is    *)
(* about to answer finds its films as it was told to make them              *)
(* (movie_edits.go:571), but one that a write given up on has landed on.    *)
THEOREM EditsStand == Spec => []EditStands
<1>1. ASSUME Inv PROVE EditStands
  <2> SUFFICES ASSUME NEW c \in Call, pc[c] = "answer", Is(c, {"edit"}), Quiet,
                      NEW f \in asks[c].films, ~LandedOn(f)
               PROVE  There(f) /\ AsAsked(c, f)
    BY DEF EditStands
  <2>1. /\ Acted(c)
        /\ TakenOff(c) = asks[c].remove /\ PutOn(c) = asks[c].add
        /\ asks[c].replace # NotGiven => Past(c, "replace")
        /\ asks[c].fields # {} => Fielded(c)
    BY <1>1, AllPast
  <2>2. SoFar(c, f)
    BY <1>1, <2>1 DEF Inv, CallInv, StandOf, Editing
  <2> QED
    BY <2>1, <2>2 DEF SoFar, AsAsked, Pointed
<1> QED
  BY <1>1, Invariance, PTL

(* "Another call made it between our read and our create: use it"           *)
(* (radarr.go:333): two calls that want the same new tag are no error.      *)
THEOREM RacesAreNoError == Spec => []RaceIsNoError
<1>1. Inv => RaceIsNoError
  BY DEF Inv, CallInv, RaceOf, RaceIsNoError
<1> QED
  BY <1>1, Invariance, PTL

(* A film is added once, however many calls found it missing                *)
(* (movie_edits.go:79, 682).                                                *)
THEOREM AddsOnce == Spec => []AddedOnce
<1>1. Inv => AddedOnce
  BY DEF Inv, CallInv, AddOf, Told, AddedOnce
<1> QED
  BY <1>1, Invariance, PTL

(* A film changes under an edit that holds it only by that edit, by a       *)
(* tag_delete, or by a write that its call gave up on before, and not under *)
(* a delete's ("an edit of this film in the same turn finishes first",      *)
(* movie_edits.go:232).                                                     *)
THEOREM HoldsItsOwn == Spec => HeldIsOwn
<1> DEFINE Holds == \A c \in Call : mode[c] = "held" /\ pc'[c] = pc[c] =>
                       \A f \in named[c] :
                          films'[f] = films[f] \/ \E d \in Call : Strips(d) \/ Lands(d, f)
<1>1. ASSUME Inv, [Next]_vars PROVE [Holds]_vars
  <2>1. CASE UNCHANGED vars
    BY <2>1
  <2>2. CASE Next
    <3>1. PICK d \in Call : Turn(d)
      BY <1>1, <2>2, NextInv
    <3> SUFFICES ASSUME NEW c \in Call, mode[c] = "held", pc'[c] = pc[c], NEW f \in named[c]
                 PROVE  films'[f] = films[f] \/ FilmLate(d, f) \/ FilmStripped(d, f)
      BY DEF FilmLate, FilmStripped
    <3>2. CASE d # c
      BY <1>1, <3>1, <3>2, HeldByOther
    <3>3. CASE d = c
      <4>1. f \in Film
        BY <1>1 DEF Inv, TypeOK, Locks!TypeOK
      <4>2. ~FilmAdded(c, f)
        BY <1>1, AddAsks DEF FilmAdded
      <4>3. ~FilmHeld(c, f)
        BY DEF FilmHeld
      <4> QED
        BY <3>1, <3>3, <4>1, <4>2, <4>3 DEF Turn, FilmMove
    <3> QED
      BY <3>2, <3>3
  <2> QED
    BY <1>1, <2>1, <2>2
<1> HIDE DEF Holds
<1>2. Spec => [][Holds]_vars
  BY <1>1, Invariance, PTL DEF Spec
<1> QED
  BY <1>2 DEF HeldIsOwn, Holds
=============================================================================
