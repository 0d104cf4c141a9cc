--------------------------- MODULE RequestsProofs ---------------------------
(***************************************************************************)
(* Proofs about Requests, for any calls and any number of tries: its state *)
(* keeps its types, a write is carried out at most once and told truly,    *)
(* one call at a time reads the library, and an edit answers with its own  *)
(* change.                                                                 *)
(***************************************************************************)
EXTENDS Requests, TLAPS

(* The call that reads the library is the one in flight, and nobody waits   *)
(* for none.                                                                *)
Flights == /\ \A c \in Call : pc[c] = "read" <=> flight = c
           /\ flight = None => \A c \in Call : pc[c] # "wait"

(* A call has a request out when it writes or reads, and only then.         *)
Nets == \A c \in Call : net[c] # "off" <=> pc[c] \in {"write", "read"}

(* What a call has been told of its write, and where the write is.          *)
WriteOf(c) ==
    /\ pc[c] \in {"new", "write"} => told[c] = "nothing"
    /\ pc[c] = "write" => c \in edits
    /\ pc[c] = "write" /\ net[c] = "acted" => landed[c] = 1 /\ stray[c] = 0
    /\ told[c] = "nothing" /\ ~(pc[c] = "write" /\ net[c] = "acted") => landed[c] = 0 /\ stray[c] = 0
    /\ told[c] = "ok" => landed[c] = 1 /\ stray[c] = 0
    /\ told[c] = "refused" => landed[c] = 0 /\ stray[c] = 0
    /\ told[c] = "unknown" => landed[c] + stray[c] <= 1
    /\ c \in edits /\ pc[c] \in {"read", "wait", "got", "done"} => told[c] = "ok"
Writes == \A c \in Call : WriteOf(c)

(* An edit's change is in what was read since it was made.                  *)
ViewOf(c) ==
    /\ pc[c] = "read" /\ net[c] = "acted" => c \in view
    /\ pc[c] = "wait" /\ c \notin behind /\ net[flight] = "acted" => c \in view
    /\ pc[c] = "got" /\ err[c] = "none" /\ c \notin behind => c \in seen[c]
    /\ pc[c] = "done" /\ c \notin behind => c \in seen[c]
Views == \A c \in edits : ViewOf(c)

(* What has failed was cancelled, or some request has failed.               *)
Spared == \A c \in Call : /\ pc[c] = "failed" => c \in cancelled \/ faulted # {}
                          /\ err[c] # "none" => faulted # {}

Inv == TypeOK /\ Flights /\ Nets /\ Writes /\ Views /\ Spared

-----------------------------------------------------------------------------
(* It holds at first.                                                       *)
LEMMA InitInv == Init => Inv
<1> SUFFICES ASSUME Init PROVE Inv
  OBVIOUS
<1> USE RequestsAssumption DEF Init
<1>1. TypeOK
  BY DEF TypeOK
<1>2. Flights /\ Nets /\ Spared
  BY DEF Flights, Nets, Spared
<1>3. Writes
  BY DEF Writes, WriteOf
<1>4. Views
  BY DEF Views, ViewOf
<1> QED
  BY <1>1, <1>2, <1>3, <1>4 DEF Inv

(* A call begins.                                                           *)
LEMMA BeginInv == ASSUME Inv, NEW c \in Call, Begin(c) PROVE Inv'
<1> USE RequestsAssumption DEF Inv, Begin, Join
<1>1. TypeOK'
  BY DEF TypeOK
<1>2. Flights' /\ Nets'
  BY DEF TypeOK, Flights, Nets
<1>3. Writes'
  BY DEF TypeOK, Nets, Writes, WriteOf
<1>4. Views'
  BY DEF TypeOK, Flights, Nets, Writes, WriteOf, Views, ViewOf
<1>5. Spared'
  BY DEF TypeOK, Nets, Spared
<1> QED
  BY <1>1, <1>2, <1>3, <1>4, <1>5

(* Radarr acts.                                                             *)
LEMMA ActInv == ASSUME Inv, NEW c \in Call, Act(c) PROVE Inv'
<1> USE RequestsAssumption DEF Inv, Act
<1>1. TypeOK'
  BY DEF TypeOK, Nets, Writes, WriteOf
<1>2. Flights' /\ Nets'
  BY DEF TypeOK, Flights, Nets
<1>3. Writes'
  BY DEF TypeOK, Nets, Writes, WriteOf
<1>4. Views'
  BY DEF TypeOK, Flights, Nets, Writes, WriteOf, Views, ViewOf
<1>5. Spared'
  BY DEF TypeOK, Nets, Spared
<1> QED
  BY <1>1, <1>2, <1>3, <1>4, <1>5

(* The answer comes.                                                        *)
LEMMA AnswerInv == ASSUME Inv, NEW c \in Call, Answer(c) PROVE Inv'
<1> USE RequestsAssumption DEF Inv, Answer, Join, HandOver
<1>1. TypeOK'
  BY DEF TypeOK, Nets, Writes, WriteOf
<1>2. Flights' /\ Nets'
  BY DEF TypeOK, Flights, Nets
<1>3. Writes'
  BY DEF TypeOK, Nets, Writes, WriteOf
<1>4. Views'
  BY DEF TypeOK, Flights, Nets, Writes, WriteOf, Views, ViewOf
<1>5. Spared'
  BY DEF TypeOK, Nets, Spared
<1> QED
  BY <1>1, <1>2, <1>3, <1>4, <1>5

(* The request is turned away.                                              *)
LEMMA TooManyInv == ASSUME Inv, NEW c \in Call, TooMany(c) PROVE Inv'
<1> USE RequestsAssumption DEF Inv, TooMany, Out, Left, Backoff, GivenUpOn, GivenUp, HandOver
<1>1. TypeOK'
  BY DEF TypeOK, Nets, Writes, WriteOf
<1>2. Flights' /\ Nets'
  BY DEF TypeOK, Flights, Nets
<1>3. Writes'
  BY DEF TypeOK, Nets, Writes, WriteOf
<1>4. Views'
  BY DEF TypeOK, Flights, Nets, Writes, WriteOf, Views, ViewOf
<1>5. Spared'
  <2>1. CASE Backoff(c)
    BY <2>1 DEF Spared
  <2>2. CASE GivenUpOn(c, "refused")
    <3>1. faulted' # {}
      BY <2>2
    <3> QED
      BY <3>1 DEF Spared
  <2> QED
    BY <2>1, <2>2
<1> QED
  BY <1>1, <1>2, <1>3, <1>4, <1>5

(* The request is refused.                                                  *)
LEMMA RefusedInv == ASSUME Inv, NEW c \in Call, Refused(c) PROVE Inv'
<1> USE RequestsAssumption DEF Inv, Refused, GivenUpOn, GivenUp, HandOver
<1>1. TypeOK'
  BY DEF TypeOK, Nets, Writes, WriteOf
<1>2. Flights' /\ Nets'
  BY DEF TypeOK, Flights, Nets
<1>3. Writes'
  BY DEF TypeOK, Nets, Writes, WriteOf
<1>4. Views'
  BY DEF TypeOK, Flights, Nets, Writes, WriteOf, Views, ViewOf
<1>5. Spared'
  BY DEF TypeOK, Nets, Spared
<1> QED
  BY <1>1, <1>2, <1>3, <1>4, <1>5

(* The answer is lost.                                                      *)
LEMMA LostInv == ASSUME Inv, NEW c \in Call, Lost(c) PROVE Inv'
<1> USE RequestsAssumption DEF Inv, Lost, Out, Safe, Left, Backoff, GivenUpOn, GivenUp, HandOver
<1>1. TypeOK'
  BY DEF TypeOK, Nets, Writes, WriteOf
<1>2. Flights' /\ Nets'
  BY DEF TypeOK, Flights, Nets
<1>3. Writes'
  BY DEF TypeOK, Nets, Writes, WriteOf
<1>4. Views'
  BY DEF TypeOK, Flights, Nets, Writes, WriteOf, Views, ViewOf
<1>5. Spared'
  <2>1. CASE Backoff(c)
    BY <2>1 DEF Spared
  <2>2. CASE GivenUpOn(c, "unknown")
    <3>1. faulted' # {}
      BY <2>2
    <3> QED
      BY <3>1 DEF Spared
  <2> QED
    BY <2>1, <2>2
<1> QED
  BY <1>1, <1>2, <1>3, <1>4, <1>5

(* The request times out.                                                   *)
LEMMA TimeoutInv == ASSUME Inv, NEW c \in Call, Timeout(c) PROVE Inv'
<1> USE RequestsAssumption DEF Inv, Timeout, Out, GivenUpOn, GivenUp, HandOver
<1>1. TypeOK'
  BY DEF TypeOK, Nets, Writes, WriteOf
<1>2. Flights' /\ Nets'
  BY DEF TypeOK, Flights, Nets
<1>3. Writes'
  BY DEF TypeOK, Nets, Writes, WriteOf
<1>4. Views'
  BY DEF TypeOK, Flights, Nets, Writes, WriteOf, Views, ViewOf
<1>5. Spared'
  BY DEF TypeOK, Nets, Spared
<1> QED
  BY <1>1, <1>2, <1>3, <1>4, <1>5

(* It is sent again.                                                        *)
LEMMA ResendInv == ASSUME Inv, NEW c \in Call, Resend(c) PROVE Inv'
<1> USE RequestsAssumption DEF Inv, Resend
<1>1. TypeOK'
  BY DEF TypeOK, Nets, Writes, WriteOf
<1>2. Flights' /\ Nets'
  BY DEF TypeOK, Flights, Nets
<1>3. Writes'
  BY DEF TypeOK, Nets, Writes, WriteOf
<1>4. Views'
  BY DEF TypeOK, Flights, Nets, Writes, WriteOf, Views, ViewOf
<1>5. Spared'
  BY DEF TypeOK, Nets, Spared
<1> QED
  BY <1>1, <1>2, <1>3, <1>4, <1>5

(* The call is cancelled.                                                   *)
LEMMA CancelInv == ASSUME Inv, NEW c \in Call, Cancel(c) PROVE Inv'
<1> USE RequestsAssumption DEF Inv, Cancel
<1>1. TypeOK'
  BY DEF TypeOK, Nets, Writes, WriteOf
<1>2. Flights' /\ Nets'
  BY DEF TypeOK, Flights, Nets
<1>3. Writes'
  BY DEF TypeOK, Nets, Writes, WriteOf
<1>4. Views'
  BY DEF TypeOK, Flights, Nets, Writes, WriteOf, Views, ViewOf
<1>5. Spared'
  BY DEF TypeOK, Nets, Spared
<1> QED
  BY <1>1, <1>2, <1>3, <1>4, <1>5

(* The write ends with its call.                                            *)
LEMMA StoppedInv == ASSUME Inv, NEW c \in Call, Stopped(c) PROVE Inv'
<1> USE RequestsAssumption DEF Inv, Stopped, GivenUp, HandOver
<1>1. TypeOK'
  BY DEF TypeOK, Nets, Writes, WriteOf
<1>2. Flights' /\ Nets'
  BY DEF TypeOK, Flights, Nets
<1>3. Writes'
  BY DEF TypeOK, Nets, Writes, WriteOf
<1>4. Views'
  BY DEF TypeOK, Flights, Nets, Writes, WriteOf, Views, ViewOf
<1>5. Spared'
  BY DEF TypeOK, Nets, Spared
<1> QED
  BY <1>1, <1>2, <1>3, <1>4, <1>5

(* The call goes on with the library.                                       *)
LEMMA GoOnInv == ASSUME Inv, NEW c \in Call, GoOn(c) PROVE Inv'
<1> USE RequestsAssumption DEF Inv, GoOn
<1>1. TypeOK'
  BY DEF TypeOK, Nets, Writes, WriteOf
<1>2. Flights' /\ Nets'
  BY DEF TypeOK, Flights, Nets
<1>3. Writes'
  BY DEF TypeOK, Nets, Writes, WriteOf
<1>4. Views'
  BY DEF TypeOK, Flights, Nets, Writes, WriteOf, Views, ViewOf
<1>5. Spared'
  BY DEF TypeOK, Nets, Spared
<1> QED
  BY <1>1, <1>2, <1>3, <1>4, <1>5

(* A write lands late.                                                      *)
LEMMA LandLateInv == ASSUME Inv, NEW c \in Call, LandLate(c) PROVE Inv'
<1> USE RequestsAssumption DEF Inv, LandLate
<1>1. TypeOK'
  BY DEF TypeOK, Nets, Writes, WriteOf
<1>2. Flights' /\ Nets'
  BY DEF TypeOK, Flights, Nets
<1>3. Writes'
  BY DEF TypeOK, Nets, Writes, WriteOf
<1>4. Views'
  BY DEF TypeOK, Flights, Nets, Writes, WriteOf, Views, ViewOf
<1>5. Spared'
  BY DEF TypeOK, Nets, Spared
<1> QED
  BY <1>1, <1>2, <1>3, <1>4, <1>5

(* So does every step of every call.                                        *)
LEMMA StepInv == Inv /\ [Next]_vars => Inv'
<1> SUFFICES ASSUME Inv, [Next]_vars PROVE Inv'
  OBVIOUS
<1>1. ASSUME UNCHANGED vars PROVE Inv'
  BY <1>1 DEF vars, Inv, TypeOK, Flights, Nets, Writes, WriteOf, Views, ViewOf, Spared
<1>2. ASSUME NEW c \in Call, Begin(c) \/ Steps(c) \/ Cancel(c) \/ LandLate(c) PROVE Inv'
  BY <1>2, BeginInv, ActInv, AnswerInv, TooManyInv, RefusedInv, LostInv, TimeoutInv,
     ResendInv, StoppedInv, GoOnInv, CancelInv, LandLateInv DEF Steps
<1> QED
  BY <1>1, <1>2 DEF Next

(* The invariant holds of every behaviour.                                  *)
THEOREM Invariance == Spec => []Inv
BY InitInv, StepInv, PTL DEF Spec

-----------------------------------------------------------------------------
(* Whatever becomes of its requests, the state keeps its types, and no      *)
(* request is sent more than Tries times.                                   *)
THEOREM TypeCorrect == Spec => []TypeOK
<1>1. Inv => TypeOK
  BY DEF Inv
<1> QED
  BY <1>1, Invariance, PTL

(* A write is carried out at most once, now or later (http.go:60).          *)
THEOREM WrittenOnce == Spec => []AtMostOnce
<1>1. Inv => AtMostOnce
  <2> SUFFICES ASSUME Inv, NEW c \in Call PROVE landed[c] + stray[c] <= 1
    BY DEF AtMostOnce
  <2>1. told[c] \in {"nothing", "ok", "refused", "unknown"} /\ landed[c] \in Nat /\ stray[c] \in Nat
    BY RequestsAssumption DEF Inv, TypeOK
  <2> QED
    BY <2>1 DEF Inv, Writes, WriteOf
<1> QED
  BY <1>1, Invariance, PTL

(* A call is told the truth about its write.                                *)
THEOREM ToldTrue == Spec => []AnswerTrue
<1>1. Inv => AnswerTrue
  BY DEF Inv, Writes, WriteOf, AnswerTrue
<1> QED
  BY <1>1, Invariance, PTL

(* One call at a time reads the library (radarr.go:52).                     *)
THEOREM OneReader == Spec => []OneLibraryRead
<1>1. Inv => OneLibraryRead
  BY DEF Inv, Flights, OneLibraryRead
<1> QED
  BY <1>1, Invariance, PTL

(* An edit that answers, and did not join a read that Radarr had answered,  *)
(* shows its own change.                                                    *)
THEOREM ShownItsEdit == Spec => []ShowsTheEdit
<1>1. Inv => ShowsTheEdit
  BY DEF Inv, Views, ViewOf, ShowsTheEdit
<1> QED
  BY <1>1, Invariance, PTL

(* While Radarr and the way to it do what is asked of them, no call fails   *)
(* for another's being cancelled (radarr.go:34).                            *)
THEOREM OwnCancelOnly == Spec => []SparedOthersCancel
<1>1. Inv => SparedOthersCancel
  BY DEF Inv, Spared, SparedOthersCancel
<1> QED
  BY <1>1, Invariance, PTL
=============================================================================
