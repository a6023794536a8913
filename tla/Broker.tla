------------------------------- MODULE Broker -------------------------------
(***************************************************************************)
(* The read-permission broker of one site (internal/server/broker.go): a    *)
(* request for a file no root covers is held open while the user is asked   *)
(* about a folder, and is answered by that dialog, by a grant made for      *)
(* others, by its own deadline or by the shutdown of the site.              *)
(*                                                                         *)
(* Files and folders are the nodes of the tree under the home directory.    *)
(* The slice of parked waiters is the set of its readers with the order in  *)
(* which they parked.  Time is abstract: a timer that ticks may fire, a     *)
(* batch may be too old to be extended, a deadline may pass, at any moment. *)
(***************************************************************************)
EXTENDS Naturals, FiniteSets

CONSTANTS
    Nodes, Home,
    Above,       \* the folders a node lies in, from its own up to Home
    Real,        \* where a name leads once its symbolic links are resolved
    Barred,      \* folders CanGrant refuses: hidden, or vetoed by the guard
    Readers,     \* requests, each of which misses every root at most once
    Callers,     \* dialogs raised outside the grant pipeline
    Wanted,      \* what requests ask for
    ParkCap,     \* brokerParkCap
    Happens,     \* what this instance lets happen around the broker
    None

AtOrAbove(n) == Above[n] \cup {n}

ASSUME TreeAssumption ==
    /\ Home \in Nodes
    /\ Above \in [Nodes -> SUBSET Nodes]
    /\ \A n \in Nodes \ {Home} : \E d \in Nodes : AtOrAbove(d) = Above[n]
    /\ \A ds \in (SUBSET Nodes) \ {{}} : \E d \in Nodes :
          AtOrAbove(d) = {e \in Nodes : \A x \in ds : e \in AtOrAbove(x)}

ASSUME SiteAssumption ==
    /\ Real \in [Nodes -> Nodes]
    /\ Barred \subseteq Nodes
    /\ Wanted \subseteq Nodes \ {Home}
    /\ ParkCap \in Nat
    /\ Happens \subseteq {"open", "untrust", "leave", "shutdown"}
    /\ IsFiniteSet(Readers)
    /\ None \notin Nodes \cup {"allow", "deny"}

VARIABLES
    pc,          \* where each request is
    want,        \* the path each request asks for
    ch,          \* the answer put on each parked request's channel
    arrival,     \* the order in which requests parked
    waiters, suppressed, prompting, closed,      \* the broker's own fields
    timer,       \* the broker's timer: none, ticking, or fired and not cleared
    flushes,     \* calls of flush that have yet to take the lock
    dialog,      \* the grant prompt in progress
    caller,      \* where each caller of runPrompt is
    opened,      \* read roots installed because the user opened a file there
    granted,     \* read roots installed by a grant
    revoked,     \* RevokeAll has run
    allowed,     \* history: the folders the user has opened or allowed
    refused      \* history: the folders a dialog was settled against

parking == <<pc, want, ch, arrival, waiters>>
batch   == <<timer, flushes>>
roots   == <<opened, granted, revoked>>
answers == <<allowed, refused>>
vars    == <<parking, batch, suppressed, prompting, closed, dialog, caller, roots, answers>>

-----------------------------------------------------------------------------
(* Paths *)

ContainWithinHome(root, n) == root \in Above[n]
EqualOrUnder(n, root)      == root \in AtOrAbove(n)

Dir(n)        == CHOOSE d \in Nodes : AtOrAbove(d) = Above[n]
topSegment(n) == CHOOSE m \in AtOrAbove(n) : Above[m] = {Home}

(* The deepest folder of the group, which need not contain the others.      *)
BugCommonDir(ds) == CHOOSE d \in ds : \A e \in ds : Cardinality(Above[e]) <= Cardinality(Above[d])

commonDir(ds) == CHOOSE d \in Nodes : AtOrAbove(d) = {e \in Nodes : \A x \in ds : EqualOrUnder(x, e)}

AssetRoot(n) == \E root \in opened \cup granted : ContainWithinHome(root, n)
CanGrant(d)  == d \in Nodes \ Barred /\ ContainWithinHome(Home, d)

isSuppressed(n) == \E root \in suppressed : EqualOrUnder(n, root)

(* After a grant that landed under another name than the one asked for, the *)
(* resolved path is tried too.                                              *)
authorizedNow(n, aliased) == AssetRoot(n) \/ (aliased /\ AssetRoot(Real[n]))

-----------------------------------------------------------------------------
(* The requests *)

NoDialog == [st |-> "none", group |-> {}, lca |-> None]

Init ==
    /\ pc = [r \in Readers |-> "idle"]
    /\ want = [r \in Readers |-> None]
    /\ ch = [r \in Readers |-> None]
    /\ arrival = [r \in Readers |-> 0]
    /\ waiters = {} /\ suppressed = {}
    /\ prompting = FALSE /\ closed = FALSE
    /\ timer = "none" /\ flushes = 0
    /\ dialog = NoDialog
    /\ caller = [c \in Callers |-> "idle"]
    /\ opened = {} /\ granted = {} /\ revoked = FALSE
    /\ allowed = {} /\ refused = {}

(* serveAsset finds no root over the path and calls await.                  *)
Miss(r) ==
    /\ pc[r] = "idle"
    /\ \E n \in Wanted :
          /\ ~AssetRoot(n)
          /\ want' = [want EXCEPT ![r] = n]
    /\ pc' = [pc EXCEPT ![r] = "missed"]
    /\ UNCHANGED <<ch, arrival, waiters, batch, suppressed, prompting, closed, dialog, caller, roots, answers>>

TurnedAway(r) ==
    \/ closed
    \/ ~AssetRoot(want[r]) /\ (isSuppressed(want[r]) \/ Cardinality(waiters) >= ParkCap)

(* A dialog re-arms the timer when it ends; until then nothing does.  A     *)
(* timer that exists is extended unless the batch is too old.               *)
armLocked ==
    timer' \in IF prompting \/ closed THEN {timer}
               ELSE IF timer = "none" THEN {"ticking"} ELSE {timer, "ticking"}

AwaitDenied(r) ==
    /\ pc[r] = "missed"
    /\ TurnedAway(r)
    /\ pc' = [pc EXCEPT ![r] = "denied"]
    /\ UNCHANGED <<want, ch, arrival, waiters, batch, suppressed, prompting, closed, dialog, caller, roots, answers>>

AwaitCovered(r) ==
    /\ pc[r] = "missed"
    /\ ~closed
    /\ AssetRoot(want[r])
    /\ pc' = [pc EXCEPT ![r] = "allowed"]
    /\ UNCHANGED <<want, ch, arrival, waiters, batch, suppressed, prompting, closed, dialog, caller, roots, answers>>

AwaitParks(r) ==
    /\ pc[r] = "missed"
    /\ ~TurnedAway(r)
    /\ ~AssetRoot(want[r])
    /\ pc' = [pc EXCEPT ![r] = "parked"]
    /\ waiters' = waiters \cup {r}
    /\ arrival' = [arrival EXCEPT ![r] = 1 + Cardinality({q \in Readers : arrival[q] # 0})]
    /\ armLocked
    /\ UNCHANGED <<want, ch, flushes, suppressed, prompting, closed, dialog, caller, roots, answers>>

Receive(r) ==
    /\ pc[r] = "parked"
    /\ ch[r] # None
    /\ pc' = [pc EXCEPT ![r] = IF ch[r] = "allow" THEN "allowed" ELSE "denied"]
    /\ UNCHANGED <<want, ch, arrival, waiters, batch, suppressed, prompting, closed, dialog, caller, roots, answers>>

(* The client left, or brokerParkMax passed; removeWaiter takes the lock    *)
(* later, and an answer that comes in between is not read.                  *)
GiveUp(r) ==
    /\ "leave" \in Happens
    /\ pc[r] = "parked"
    /\ pc' = [pc EXCEPT ![r] = "leaving"]
    /\ UNCHANGED <<want, ch, arrival, waiters, batch, suppressed, prompting, closed, dialog, caller, roots, answers>>

removeWaiter(r) ==
    /\ pc[r] = "leaving"
    /\ pc' = [pc EXCEPT ![r] = "denied"]
    /\ waiters' = waiters \ {r}
    /\ UNCHANGED <<want, ch, arrival, batch, suppressed, prompting, closed, dialog, caller, roots, answers>>

(* w.ch <- v for each of these readers.                                     *)
Answer(readers, v) == [r \in Readers |-> IF r \in readers THEN v ELSE ch[r]]

denyAll(readers) == ch' = Answer(readers, "deny")

-----------------------------------------------------------------------------
(* The batch *)

Fire ==
    /\ timer = "ticking"
    /\ timer' = "fired"
    /\ flushes' = flushes + 1
    /\ UNCHANGED <<parking, suppressed, prompting, closed, dialog, caller, roots, answers>>

(* flush forgets the broker's timer whichever it is: one that is still      *)
(* ticking can no longer be stopped and will call flush again.              *)
TakeTimer ==
    /\ flushes > 0
    /\ flushes' = IF timer = "ticking" THEN flushes ELSE flushes - 1

RearmedFor(readers) == IF closed \/ readers = {} THEN "none" ELSE "ticking"

(* The queue is not searched again for what was denied meanwhile.           *)
BugKept == waiters

Kept   == {r \in waiters : ~isSuppressed(want[r])}
Oldest == CHOOSE r \in Kept : \A q \in Kept : arrival[r] <= arrival[q]
Group  == {r \in Kept : topSegment(want[r]) = topSegment(want[Oldest])}
GroupFolder == commonDir({Dir(want[r]) : r \in Group})

(* The group stays in the queue while it is asked about.                    *)
BugRestAll == Kept

Rest   == Kept \ Group

(* Those that cannot be granted are dropped, not denied.                    *)
BugHopeless == waiters \ Kept

Hopeless == (waiters \ Kept) \cup Group

FlushIdle ==
    /\ TakeTimer
    /\ closed \/ prompting \/ waiters = {}
    /\ timer' = "none"
    /\ UNCHANGED <<parking, suppressed, prompting, closed, dialog, caller, roots, answers>>

(* A dialog of runPrompt does not keep a grant prompt away.                 *)
BugFlushing == TakeTimer /\ ~closed /\ waiters # {}

Flushing == TakeTimer /\ ~closed /\ ~prompting /\ waiters # {}

FlushAllSuppressed ==
    /\ Flushing
    /\ Kept = {}
    /\ waiters' = {}
    /\ denyAll(waiters)
    /\ timer' = "none"
    /\ UNCHANGED <<pc, want, arrival, suppressed, prompting, closed, dialog, caller, roots, answers>>

FlushUngrantable ==
    /\ Flushing
    /\ Kept # {}
    /\ ~CanGrant(GroupFolder)
    /\ waiters' = Rest
    /\ denyAll(Hopeless)
    /\ timer' = RearmedFor(waiters')
    /\ UNCHANGED <<pc, want, arrival, suppressed, prompting, closed, dialog, caller, roots, answers>>

FlushAsks ==
    /\ Flushing
    /\ Kept # {}
    /\ CanGrant(GroupFolder)
    /\ prompting' = TRUE
    /\ waiters' = Rest
    /\ denyAll(waiters \ Kept)
    /\ dialog' = [st |-> "ask", group |-> Group, lca |-> GroupFolder]
    /\ timer' = "none"
    /\ UNCHANGED <<pc, want, arrival, suppressed, closed, caller, roots, answers>>

-----------------------------------------------------------------------------
(* The decision *)

Suppress ==
    /\ suppressed' = suppressed \cup {dialog.lca}
    /\ denyAll(dialog.group)
    /\ dialog' = [dialog EXCEPT !.st = "done"]
    /\ refused' = refused \cup {dialog.lca}
    /\ UNCHANGED <<pc, want, arrival, waiters, batch, prompting, closed, caller, roots, allowed>>

(* Deny, a dismissed dialog, a dialog that gave up or could not be drawn.   *)
Refuse ==
    /\ dialog.st = "ask"
    /\ Suppress

(* The manager does not remember that the site is gone.                     *)
BugGrantable(d) == CanGrant(d)

Grantable(d) == ~revoked /\ CanGrant(d)

(* Allow, but the folder cannot be installed: it resolves to a place that   *)
(* is refused, the site is closed, or the folder is not there to be opened. *)
GrantFails ==
    /\ dialog.st = "ask"
    /\ ~(Grantable(Real[dialog.lca]) /\ Real[dialog.lca] \in opened \cup granted)
    /\ Suppress

(* The group is woken as soon as the root is there; the durable half of     *)
(* "Trust this folder" follows, and may take its time.                      *)
Grant ==
    /\ dialog.st = "ask"
    /\ Grantable(Real[dialog.lca])
    /\ granted' = granted \cup {Real[dialog.lca]}
    /\ ch' = Answer(dialog.group, "allow")
    /\ dialog' = [dialog EXCEPT !.st = "granted"]
    /\ allowed' = allowed \cup {dialog.lca, Real[dialog.lca]}
    /\ UNCHANGED <<pc, want, arrival, waiters, batch, suppressed, prompting, closed, caller, opened, revoked, refused>>

(* Whoever parked during the dialog and is covered by now is woken too.     *)
WakeCovered ==
    /\ dialog.st = "granted"
    /\ dialog' = [dialog EXCEPT !.st = "done"]
    /\ UNCHANGED <<pc, want, arrival, batch, suppressed, prompting, closed, caller, roots, answers>>
    /\ LET freed == {r \in waiters : authorizedNow(want[r], Real[dialog.lca] # dialog.lca)}
       IN  waiters' = waiters \ freed /\ ch' = Answer(freed, "allow")

(* The queue that built up behind a dialog is left to itself.               *)
BugPromptEnds == prompting' = FALSE /\ timer' = timer

(* prompting falls, callers of runPrompt are woken, the timer is re-armed.  *)
PromptEnds ==
    /\ prompting' = FALSE
    /\ timer' = IF timer = "none" THEN RearmedFor(waiters) ELSE timer

Decided ==
    /\ dialog.st = "done"
    /\ dialog' = NoDialog
    /\ PromptEnds
    /\ UNCHANGED <<parking, flushes, suppressed, closed, caller, roots, answers>>

-----------------------------------------------------------------------------
(* runPrompt: a dialog of the open and trust requests *)

PromptWaits(c) ==
    /\ caller[c] = "idle"
    /\ prompting /\ ~closed
    /\ caller' = [caller EXCEPT ![c] = "waiting"]
    /\ UNCHANGED <<parking, batch, suppressed, prompting, closed, dialog, roots, answers>>

(* Shutdown does not wake the callers that wait behind a dialog.            *)
BugPromptRefused(c) ==
    /\ caller[c] = "idle"
    /\ closed
    /\ caller' = [caller EXCEPT ![c] = "refused"]
    /\ UNCHANGED <<parking, batch, suppressed, prompting, closed, dialog, roots, answers>>

PromptRefused(c) ==
    /\ caller[c] \in {"idle", "waiting"}
    /\ closed
    /\ caller' = [caller EXCEPT ![c] = "refused"]
    /\ UNCHANGED <<parking, batch, suppressed, prompting, closed, dialog, roots, answers>>

PromptStarts(c) ==
    /\ caller[c] \in {"idle", "waiting"}
    /\ ~closed /\ ~prompting
    /\ prompting' = TRUE
    /\ caller' = [caller EXCEPT ![c] = "shown"]
    /\ UNCHANGED <<parking, batch, suppressed, closed, dialog, roots, answers>>

PromptDone(c) ==
    /\ caller[c] = "shown"
    /\ caller' = [caller EXCEPT ![c] = "done"]
    /\ PromptEnds
    /\ UNCHANGED <<parking, flushes, suppressed, closed, dialog, roots, answers>>

-----------------------------------------------------------------------------
(* The site around the broker *)

(* The user opens a file: the folder it is in, links resolved, becomes a    *)
(* root of the session, unless that is the home directory itself.           *)
Open ==
    /\ "open" \in Happens
    /\ ~revoked
    /\ \E d \in {Dir(n) : n \in {Real[m] : m \in Wanted} \ {Home}} \ {Home} :
          /\ d \notin opened
          /\ opened' = opened \cup {d}
          /\ allowed' = allowed \cup {d}
    /\ UNCHANGED <<parking, batch, suppressed, prompting, closed, dialog, caller, granted, revoked, refused>>

(* A folder is untrusted: what a grant gave goes, what an open gave stays.  *)
RevokeReadRoot ==
    /\ "untrust" \in Happens
    /\ \E d \in granted : granted' = granted \ {d}
    /\ UNCHANGED <<parking, batch, suppressed, prompting, closed, dialog, caller, opened, revoked, answers>>

shutdown ==
    /\ "shutdown" \in Happens
    /\ ~closed
    /\ closed' = TRUE
    /\ timer' = "none"
    /\ waiters' = {}
    /\ denyAll(waiters)
    /\ UNCHANGED <<pc, want, arrival, flushes, suppressed, prompting, dialog, caller, roots, answers>>

(* The site is torn down after its broker, while a dialog may still be up.  *)
RevokeAll ==
    /\ closed /\ ~revoked
    /\ revoked' = TRUE
    /\ opened' = {} /\ granted' = {}
    /\ UNCHANGED <<parking, batch, suppressed, prompting, closed, dialog, caller, answers>>

flush  == FlushIdle \/ FlushAllSuppressed \/ FlushUngrantable \/ FlushAsks
decide == Refuse \/ GrantFails \/ Grant \/ WakeCovered \/ Decided

Next ==
    \/ \E r \in Readers :
          \/ Miss(r) \/ AwaitDenied(r) \/ AwaitCovered(r) \/ AwaitParks(r)
          \/ Receive(r) \/ GiveUp(r) \/ removeWaiter(r)
    \/ Fire \/ flush \/ decide
    \/ \E c \in Callers : PromptWaits(c) \/ PromptRefused(c) \/ PromptStarts(c) \/ PromptDone(c)
    \/ Open \/ RevokeReadRoot \/ shutdown \/ RevokeAll

Spec == Init /\ [][Next]_vars

-----------------------------------------------------------------------------
(* Properties *)

Awaiting == waiters \cup IF dialog.st = "ask" THEN dialog.group ELSE {}

(* The fields have their types, no more than brokerParkCap requests are     *)
(* parked, and a question that is up is about a folder and for somebody.    *)
TypeOK ==
    /\ pc \in [Readers -> {"idle", "missed", "parked", "leaving", "allowed", "denied"}]
    /\ want \in [Readers -> Wanted \cup {None}]
    /\ ch \in [Readers -> {None, "allow", "deny"}]
    /\ arrival \in [Readers -> Nat]
    /\ waiters \subseteq Readers /\ Cardinality(waiters) <= ParkCap
    /\ suppressed \subseteq Nodes /\ prompting \in BOOLEAN /\ closed \in BOOLEAN
    /\ timer \in {"none", "ticking", "fired"} /\ flushes \in Nat
    /\ dialog \in [st : {"none", "ask", "granted", "done"}, group : SUBSET Readers, lca : Nodes \cup {None}]
    /\ caller \in [Callers -> {"idle", "waiting", "shown", "done", "refused"}]
    /\ opened \subseteq Nodes /\ granted \subseteq Nodes /\ revoked \in BOOLEAN
    /\ allowed \subseteq Nodes /\ refused \subseteq Nodes

(* No two native dialogs are up at once, whichever of the two pipelines     *)
(* raised them, and prompting is set exactly while one is.                  *)
OneDialog ==
    /\ \A c, d \in Callers : caller[c] = "shown" /\ caller[d] = "shown" => c = d
    /\ dialog # NoDialog => \A c \in Callers : caller[c] # "shown"
    /\ prompting <=> dialog # NoDialog \/ \E c \in Callers : caller[c] = "shown"

(* Whoever will still be answered has not been: a second send on a channel  *)
(* of one place would stop flush, or shutdown, for good. And a request held *)
(* open is in the queue, before the user, or answered: none is dropped by a *)
(* flush, a sweep or a shutdown that crosses it.                            *)
AnsweredOnce ==
    /\ \A r \in Awaiting : ch[r] = None
    /\ dialog.st = "ask" => dialog.group \cap waiters = {}
    /\ \A r \in Readers : pc[r] = "parked" => r \in Awaiting \/ ch[r] # None

(* The queue is never left without somebody who will look at it: a dialog   *)
(* that re-arms when it ends, a timer, or a call of flush on its way; and   *)
(* a broker that is shut down holds nobody, also when a dialog outlives it. *)
QueueWatched ==
    /\ waiters # {} => ~closed /\ (prompting \/ timer = "ticking" \/ flushes > 0)
    /\ timer = "fired" => flushes > 0

(* After RevokeAll no root comes back, not even by the Allow of a dialog    *)
(* that was up when the site was torn down.                                 *)
RevokedHoldsNothing == revoked => opened \cup granted = {}

(* The user is never asked for the sake of a request at or under a folder   *)
(* an earlier dialog was settled against, even one that parked meanwhile.   *)
NeverAskedAgain ==
    dialog.st = "ask" => \A r \in dialog.group : \A d \in refused : ~EqualOrUnder(want[r], d)

(* A request goes on only under a folder the user has opened or allowed, by *)
(* its name or by where it leads.                                           *)
OnlyAllowed ==
    \A r \in Readers : (ch[r] = "allow" \/ pc[r] = "allowed") =>
        \E d \in allowed : ContainWithinHome(d, want[r]) \/ ContainWithinHome(d, Real[want[r]])

(* The runtime runs timers and goroutines; a dialog is answered or gives up *)
(* by itself; nothing is assumed of the deadline or of the client.          *)
Fairness ==
    /\ \A r \in Readers : WF_vars(Receive(r)) /\ WF_vars(removeWaiter(r))
    /\ WF_vars(Fire) /\ WF_vars(flush) /\ WF_vars(decide)
    /\ \A c \in Callers : WF_vars(PromptDone(c)) /\ WF_vars(PromptStarts(c) \/ PromptRefused(c))

FairSpec == Spec /\ Fairness

(* Every request held open is let go, without its deadline or its client.   *)
EveryRequestEnds == \A r \in Readers : pc[r] = "parked" ~> pc[r] # "parked"

(* Every caller of runPrompt gets its turn or is refused.                   *)
EveryPromptEnds == \A c \in Callers : caller[c] = "waiting" ~> caller[c] \in {"done", "refused"}

=============================================================================
