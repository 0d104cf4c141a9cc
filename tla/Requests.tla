------------------------------ MODULE Requests ------------------------------
(***************************************************************************)
(* How a tool call's requests reach Radarr: httpc's retries (Fetch and     *)
(* RoundTrip), and the read of the whole library that calls share          *)
(* (allMovies, through singleflight).  A call writes and then reads the    *)
(* library to answer with, or only reads it.  Any answer may be a refusal, *)
(* get lost or never come, and a call may be cancelled at any time.        *)
(***************************************************************************)
EXTENDS Naturals, FiniteSets

CONSTANTS
    Call,
    Editors,    \* the calls that may write
    Tries,  \* how often one request may be sent
    None    \* no read in flight

ASSUME RequestsAssumption == Tries \in Nat \ {0} /\ None \notin Call /\ Editors \subseteq Call

VARIABLES
    pc,     \* where each call is
    edits,  \* the calls that write before they read
    net,    \* net[c]: where the request c has out is
    again,  \* how often it has been sent again: resent.n, which Fetch and RoundTrip share
    landed, \* how often Radarr has carried out c's write
    stray,  \* the copies of c's write that were given up on and may still get to Radarr
    cancelled,  \* the calls whose context has ended
    flight, \* the call that leads the library read in flight
    view,   \* the writes that show in what Radarr answered it
    seen,   \* the writes that show in what c was handed
    err,    \* why the read c was handed failed, if it did
    told,   \* what c was told of its write
    behind, \* the calls that joined a read Radarr had already answered
    faulted \* the calls that a request has failed for what Radarr or the way to it did

vars == <<pc, edits, net, again, landed, stray, cancelled, flight, view, seen, err, told, behind,
          faulted>>

TypeOK == /\ pc \in [Call -> {"new", "write", "read", "wait", "got", "done", "failed"}]
          /\ edits \in SUBSET Editors
          /\ net \in [Call -> {"off", "sent", "acted", "backoff"}]
          /\ again \in [Call -> 0 .. Tries - 1]
          /\ landed \in [Call -> 0 .. Tries]
          /\ stray \in [Call -> 0 .. Tries]
          /\ cancelled \in SUBSET Call
          /\ flight \in Call \cup {None}
          /\ view \in SUBSET Call
          /\ seen \in [Call -> SUBSET Call]
          /\ err \in [Call -> {"none", "request"}]
          /\ told \in [Call -> {"nothing", "ok", "refused", "unknown"}]
          /\ behind \in SUBSET Call
          /\ faulted \in SUBSET Call

Init == /\ pc = [c \in Call |-> "new"]
        /\ edits \in SUBSET Editors
        /\ net = [c \in Call |-> "off"]
        /\ again = [c \in Call |-> 0]
        /\ landed = [c \in Call |-> 0]
        /\ stray = [c \in Call |-> 0]
        /\ cancelled = {}
        /\ flight = None
        /\ view = {}
        /\ seen = [c \in Call |-> {}]
        /\ err = [c \in Call |-> "none"]
        /\ told = [c \in Call |-> "nothing"]
        /\ behind = {}
        /\ faulted = {}

-----------------------------------------------------------------------------
(* Slips in what follows, each caught by a property below.                   *)
SafeAlways(c) == TRUE           \* a write sent again though it may have landed

LeftOneMore(c) == again[c] < Tries      \* one try too many

JoinAlone(c) ==                 \* every call reads the library for itself
    /\ flight' = c
    /\ pc' = [pc EXCEPT ![c] = "read"]
    /\ net' = [net EXCEPT ![c] = "sent"]
    /\ again' = [again EXCEPT ![c] = 0]
    /\ UNCHANGED behind

(* retrySafe: a read may be sent again whatever became of it, a write not.  *)
Safe(c) == pc[c] = "read"
Left(c) == again[c] < Tries - 1
Out(c) == net[c] \in {"sent", "acted"}

Backoff(c) == /\ again' = [again EXCEPT ![c] = @ + 1]
              /\ net' = [net EXCEPT ![c] = "backoff"]
              /\ UNCHANGED <<pc, flight, seen, err, told, stray, faulted>>

(* singleflight's Do: the first to want the library reads it, and those     *)
(* that come while it does wait for the same answer.                        *)
Join(c) ==
    IF flight = None
    THEN /\ flight' = c
         /\ pc' = [pc EXCEPT ![c] = "read"]
         /\ net' = [net EXCEPT ![c] = "sent"]
         /\ again' = [again EXCEPT ![c] = 0]
         /\ UNCHANGED behind
    ELSE /\ pc' = [pc EXCEPT ![c] = "wait"]
         /\ net' = [net EXCEPT ![c] = "off"]
         /\ behind' = IF net[flight] = "acted" THEN behind \cup {c} ELSE behind
         /\ UNCHANGED <<flight, again>>

(* doCall: the answer, or the error, is everybody's.                        *)
HandOver(c, why) ==
    LET party == {c} \cup {d \in Call : pc[d] = "wait"}
    IN  /\ flight' = None
        /\ pc' = [d \in Call |-> IF d \in party THEN "got" ELSE pc[d]]
        /\ seen' = [d \in Call |-> IF d \in party THEN view ELSE seen[d]]
        /\ err' = [d \in Call |-> IF d \in party THEN why ELSE err[d]]
        /\ net' = [net EXCEPT ![c] = "off"]
        /\ UNCHANGED <<again, told, stray>>

(* The request is given up.  A write still on its way may yet be carried    *)
(* out.                                                                     *)
GivenUp(c, word) ==
    IF pc[c] = "read"
    THEN HandOver(c, "request")
    ELSE /\ pc' = [pc EXCEPT ![c] = "failed"]
         /\ told' = [told EXCEPT ![c] = word]
         /\ stray' = IF net[c] = "sent" /\ word = "unknown" THEN [stray EXCEPT ![c] = @ + 1] ELSE stray
         /\ net' = [net EXCEPT ![c] = "off"]
         /\ UNCHANGED <<again, flight, seen, err>>

GivenUpOn(c, word) == GivenUp(c, word) /\ faulted' = faulted \cup {c}

-----------------------------------------------------------------------------
(* Slips in what comes of a request.                                        *)
LostRefused(c) ==               \* an error status taken for a refusal
    /\ Out(c)
    /\ IF Safe(c) /\ Left(c) THEN Backoff(c) ELSE GivenUpOn(c, "refused")
    /\ UNCHANGED <<edits, landed, cancelled, view, behind>>

LostForgiven(c) ==              \* a write that got no answer taken for done
    /\ Out(c)
    /\ IF pc[c] = "read"
       THEN GivenUpOn(c, "unknown") /\ UNCHANGED behind
       ELSE Join(c) /\ UNCHANGED <<seen, err, told, stray, faulted>>
    /\ UNCHANGED <<edits, landed, cancelled, view>>

LostUncounted(c) ==             \* Fetch's re-read counted on its own
    /\ Out(c)
    /\ IF Safe(c)
       THEN /\ net' = [net EXCEPT ![c] = "backoff"]
            /\ UNCHANGED <<pc, again, flight, seen, err, told, stray, faulted>>
       ELSE GivenUpOn(c, "unknown")
    /\ UNCHANGED <<edits, landed, cancelled, view, behind>>

StoppedShared(c) ==             \* the library read ends with its leader's context
    /\ c \in cancelled
    /\ net[c] # "off"
    /\ GivenUp(c, "unknown")
    /\ UNCHANGED <<edits, landed, cancelled, view, behind, faulted>>

-----------------------------------------------------------------------------
(* A call begins with its write, or with the library.                       *)
Begin(c) ==
    /\ pc[c] = "new"
    /\ IF c \in edits
       THEN /\ pc' = [pc EXCEPT ![c] = "write"]
            /\ net' = [net EXCEPT ![c] = "sent"]
            /\ UNCHANGED <<again, flight, behind>>
       ELSE Join(c)
    /\ UNCHANGED <<edits, landed, stray, cancelled, view, seen, err, told, faulted>>

(* Radarr acts on what gets to it: a write is carried out, or the library   *)
(* is read.                                                                 *)
Act(c) ==
    /\ net[c] = "sent"
    /\ net' = [net EXCEPT ![c] = "acted"]
    /\ IF pc[c] = "write"
       THEN landed' = [landed EXCEPT ![c] = @ + 1] /\ UNCHANGED view
       ELSE view' = {d \in Call : landed[d] > 0} /\ UNCHANGED landed
    /\ UNCHANGED <<pc, edits, again, stray, cancelled, flight, seen, err, told, behind, faulted>>

(* The answer comes whole.  After a write the library is read.              *)
Answer(c) ==
    /\ net[c] = "acted"
    /\ IF pc[c] = "write"
       THEN /\ told' = [told EXCEPT ![c] = "ok"]
            /\ Join(c)
            /\ UNCHANGED <<seen, err, stray>>
       ELSE HandOver(c, "none") /\ UNCHANGED behind
    /\ UNCHANGED <<edits, landed, cancelled, view, faulted>>

(* 429: Radarr turned the request away, so anything may be sent again.      *)
TooMany(c) ==
    /\ net[c] = "sent"
    /\ IF Left(c) THEN Backoff(c) ELSE GivenUpOn(c, "refused")
    /\ UNCHANGED <<edits, landed, cancelled, view, behind>>

(* Any other refusal is final.                                              *)
Refused(c) ==
    /\ net[c] = "sent"
    /\ GivenUpOn(c, "refused")
    /\ UNCHANGED <<edits, landed, cancelled, view, behind>>

(* 502, 503 or 504, a dropped connection, or an answer that stops part way: *)
(* whether Radarr acted is not known.                                       *)
Lost(c) ==
    /\ Out(c)
    /\ IF Safe(c) /\ Left(c) THEN Backoff(c) ELSE GivenUpOn(c, "unknown")
    /\ UNCHANGED <<edits, landed, cancelled, view, behind>>

(* A timeout, or a 500 from the middle of the work: never sent again.       *)
Timeout(c) ==
    /\ Out(c)
    /\ GivenUpOn(c, "unknown")
    /\ UNCHANGED <<edits, landed, cancelled, view, behind>>

(* The wait is over.                                                        *)
Resend(c) ==
    /\ net[c] = "backoff"
    /\ net' = [net EXCEPT ![c] = "sent"]
    /\ UNCHANGED <<pc, edits, again, landed, stray, cancelled, flight, view, seen, err, told, behind,
                   faulted>>

(* The client of the tools gives up on a call: its context ends, and a      *)
(* write, out or waiting, with it.  The shared read has a context that does *)
(* not (WithoutCancel), and Do waits whatever becomes of the caller's.      *)
Cancel(c) ==
    /\ pc[c] \notin {"new", "done", "failed"}
    /\ cancelled' = cancelled \cup {c}
    /\ UNCHANGED <<pc, edits, net, again, landed, stray, flight, view, seen, err, told, behind, faulted>>

Stopped(c) ==
    /\ c \in cancelled
    /\ pc[c] = "write"
    /\ GivenUp(c, "unknown")
    /\ UNCHANGED <<edits, landed, cancelled, view, behind, faulted>>

(* With the library in hand the call goes on, if it still can.              *)
GoOn(c) ==
    /\ pc[c] = "got"
    /\ pc' = [pc EXCEPT ![c] = IF err[c] = "none" /\ c \notin cancelled THEN "done" ELSE "failed"]
    /\ UNCHANGED <<edits, net, again, landed, stray, cancelled, flight, view, seen, err, told, behind,
                   faulted>>

(* A copy that was given up on is carried out, or never gets there.         *)
LandLate(c) ==
    /\ stray[c] > 0
    /\ stray' = [stray EXCEPT ![c] = @ - 1]
    /\ \/ landed' = [landed EXCEPT ![c] = @ + 1]
       \/ UNCHANGED landed
    /\ UNCHANGED <<pc, edits, net, again, cancelled, flight, view, seen, err, told, behind,
                   faulted>>

-----------------------------------------------------------------------------
Steps(c) == \/ Act(c) \/ Answer(c) \/ TooMany(c) \/ Refused(c) \/ Lost(c) \/ Timeout(c)
            \/ Resend(c) \/ Stopped(c) \/ GoOn(c)

Next == \E c \in Call : Begin(c) \/ Steps(c) \/ Cancel(c) \/ LandLate(c)

Spec == Init /\ [][Next]_vars

(* A request is answered or times out, and the wait for the next is over.   *)
FairSpec == Spec /\ \A c \in Call : WF_vars(Steps(c))

-----------------------------------------------------------------------------
(* "A request is sent again only when that cannot do the work twice"        *)
(* (http.go:60): whatever is refused, lost or cancelled, now or later, a    *)
(* write is carried out at most once.                                       *)
AtMostOnce == \A c \in Call : landed[c] + stray[c] <= 1

(* A call told its write is done finds it done, and one told it was refused *)
(* that it was not, and never will be.                                      *)
AnswerTrue == \A c \in Call : /\ told[c] = "ok" => landed[c] = 1
                              /\ told[c] = "refused" => landed[c] + stray[c] = 0

(* The library is a hundred megabytes, "and two read side by side were      *)
(* enough to make Radarr stop answering" (radarr.go:52): of all the calls   *)
(* one at a time has it read, retries and waits between them included.  (A  *)
(* read that has timed out may still be with Radarr when the next is sent.) *)
OneLibraryRead == \A c, d \in Call : pc[c] = "read" /\ pc[d] = "read" => c = d

(* "One caller giving up does not end it for the others" (radarr.go:34):    *)
(* as long as no request has been refused, lost or timed out for good, a    *)
(* call fails only if it was cancelled itself, whoever led the read it      *)
(* waited for and whatever became of that call.                             *)
SparedOthersCancel == \A c \in Call : pc[c] = "failed" => c \in cancelled \/ faulted # {}

(* An edit answers with the library as it stands after it, unless it joined *)
(* a read Radarr had already answered for another call.                     *)
ShowsTheEdit ==
    \A c \in edits : pc[c] = "done" /\ c \notin behind => c \in seen[c]

(* Every call ends, however often Radarr turns it away.                     *)
CallsEnd == \A c \in Call : pc[c] # "new" ~> pc[c] \in {"done", "failed"}
=============================================================================
