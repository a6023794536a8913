---------------------------- MODULE BrokerProofs ----------------------------
(***************************************************************************)
(* Theorems about Broker, for every tree of folders, every pattern of       *)
(* links, and any number of requests and of callers of runPrompt.           *)
(***************************************************************************)
EXTENDS Broker, FiniteSetTheorems, TLAPS

-----------------------------------------------------------------------------
(* The tree *)

\* The folder a file lies in, and the deepest one a set of files lies in.
LEMMA DirOf ==
    ASSUME TreeAssumption, NEW n \in Nodes \ {Home}
    PROVE  Dir(n) \in Nodes /\ AtOrAbove(Dir(n)) = Above[n]
  BY DEF TreeAssumption, Dir

LEMMA CommonDir ==
    ASSUME TreeAssumption, NEW ds \in SUBSET Nodes, ds # {}
    PROVE  /\ commonDir(ds) \in Nodes
           /\ \A x \in ds : commonDir(ds) \in AtOrAbove(x)
  <1> DEFINE Meets(d) == AtOrAbove(d) = {e \in Nodes : \A x \in ds : EqualOrUnder(x, e)}
  <1>1. \E d \in Nodes : Meets(d)
    BY DEF TreeAssumption, EqualOrUnder
  <1>2. commonDir(ds) \in Nodes /\ Meets(commonDir(ds))
    BY <1>1 DEF commonDir
  <1>3. commonDir(ds) \in AtOrAbove(commonDir(ds))
    BY DEF AtOrAbove
  <1> QED BY <1>2, <1>3 DEF EqualOrUnder

-----------------------------------------------------------------------------
(* Types *)

PcStates   == {"idle", "missed", "parked", "leaving", "allowed", "denied"}
Dialogs    == [st : {"none", "ask", "granted", "done"}, group : SUBSET Readers, lca : Nodes \cup {None}]

\* The types, without the bound on the queue, and with what the stages of a
\* request and of a dialog say about their other fields.
Typed ==
    /\ pc \in [Readers -> PcStates]
    /\ want \in [Readers -> Wanted \cup {None}]
    /\ ch \in [Readers -> {None, "allow", "deny"}]
    /\ arrival \in [Readers -> Nat]
    /\ waiters \subseteq Readers
    /\ suppressed \subseteq Nodes /\ prompting \in BOOLEAN /\ closed \in BOOLEAN
    /\ timer \in {"none", "ticking", "fired"} /\ flushes \in Nat
    /\ dialog \in Dialogs
    /\ caller \in [Callers -> {"idle", "waiting", "shown", "done", "refused"}]
    /\ opened \subseteq Nodes /\ granted \subseteq Nodes /\ revoked \in BOOLEAN
    /\ allowed \subseteq Nodes /\ refused \subseteq Nodes
    /\ dialog.st = "none" => dialog = NoDialog
    /\ dialog.st # "none" => dialog.lca \in Nodes
    /\ \A r \in Readers : pc[r] # "idle" => want[r] \in Wanted
    /\ \A r \in waiters : pc[r] # "idle"

\* Every request of a group lies in the folder the group is asked about.
LEMMA GroupCovered ==
    ASSUME TreeAssumption, SiteAssumption, Typed
    PROVE  \A r \in Group : ContainWithinHome(GroupFolder, want[r])
  <1> SUFFICES ASSUME NEW r \in Group
               PROVE  ContainWithinHome(GroupFolder, want[r])
    OBVIOUS
  <1> DEFINE ds == {Dir(want[q]) : q \in Group}
  <1>1. \A q \in Group : want[q] \in Nodes \ {Home}
    BY DEF Group, Kept, Typed, SiteAssumption
  <1>2. \A q \in Group : Dir(want[q]) \in Nodes /\ AtOrAbove(Dir(want[q])) = Above[want[q]]
    BY <1>1, DirOf
  <1>3. ds \in SUBSET Nodes /\ ds # {} /\ Dir(want[r]) \in ds
    BY <1>2
  <1>4. commonDir(ds) \in AtOrAbove(Dir(want[r]))
    BY <1>3, CommonDir
  <1> QED BY <1>2, <1>4 DEF GroupFolder, ContainWithinHome

\* The fields and the stages keep their types.
LEMMA TypedStep ==
    ASSUME TreeAssumption, SiteAssumption, Typed, [Next]_vars
    PROVE  Typed'
  <1> USE DEF Typed, PcStates, Dialogs
  <1> USE DEF parking, batch, roots, answers
  <1>1. ASSUME NEW r \in Readers, Miss(r) PROVE Typed'
    BY <1>1 DEF Miss
  <1>2. ASSUME NEW r \in Readers, AwaitDenied(r) \/ AwaitCovered(r) PROVE Typed'
    BY <1>2 DEF AwaitDenied, AwaitCovered
  <1>3. ASSUME NEW r \in Readers, AwaitParks(r) PROVE Typed'
    <2>1. Cardinality({q \in Readers : arrival[q] # 0}) \in Nat
      BY FS_Subset, FS_CardinalityType DEF SiteAssumption
    <2> QED BY <1>3, <2>1 DEF AwaitParks, armLocked
  <1>4. ASSUME NEW r \in Readers, Receive(r) \/ GiveUp(r) \/ removeWaiter(r) PROVE Typed'
    BY <1>4 DEF Receive, GiveUp, removeWaiter
  <1>5. CASE Fire
    BY <1>5 DEF Fire
  <1>6. CASE flush
    <2> USE DEF TakeTimer, Flushing, RearmedFor, Rest, Kept, Answer, denyAll
    <2>1. CASE FlushIdle
      BY <2>1 DEF FlushIdle
    <2>2. CASE FlushAllSuppressed
      BY <2>2 DEF FlushAllSuppressed
    <2>3. CASE FlushUngrantable
      BY <2>3 DEF FlushUngrantable
    <2>4. CASE FlushAsks
      <3>1. Group \subseteq Readers /\ GroupFolder \in Nodes
        BY <2>4 DEF FlushAsks, Group, CanGrant
      <3> QED BY <2>4, <3>1 DEF FlushAsks
    <2> QED BY <1>6, <2>1, <2>2, <2>3, <2>4 DEF flush
  <1>7. CASE decide
    <2> USE DEF Answer, denyAll
    <2>1. CASE Refuse \/ GrantFails
      BY <2>1 DEF Refuse, GrantFails, Suppress
    <2>2. CASE Grant
      BY <2>2 DEF Grant, Grantable, CanGrant
    <2>3. CASE WakeCovered
      BY <2>3 DEF WakeCovered
    <2>4. CASE Decided
      BY <2>4 DEF Decided, PromptEnds, RearmedFor, NoDialog
    <2> QED BY <1>7, <2>1, <2>2, <2>3, <2>4 DEF decide
  <1>8. ASSUME NEW c \in Callers,
               PromptWaits(c) \/ PromptRefused(c) \/ PromptStarts(c) \/ PromptDone(c)
        PROVE Typed'
    <2>1. CASE PromptWaits(c) \/ PromptRefused(c)
      BY <2>1 DEF PromptWaits, PromptRefused
    <2>2. CASE PromptStarts(c)
      BY <2>2 DEF PromptStarts
    <2>3. CASE PromptDone(c)
      BY <2>3 DEF PromptDone, PromptEnds, RearmedFor
    <2> QED BY <1>8, <2>1, <2>2, <2>3
  <1>9. CASE Open
    <2>1. \A n \in {Real[m] : m \in Wanted} \ {Home} : Dir(n) \in Nodes
      BY DirOf DEF SiteAssumption
    <2> QED BY <1>9, <2>1 DEF Open
  <1>10. CASE RevokeReadRoot \/ shutdown \/ RevokeAll
    <2>1. CASE RevokeReadRoot
      BY <2>1 DEF RevokeReadRoot
    <2>2. CASE shutdown
      BY <2>2 DEF shutdown, Answer, denyAll
    <2>3. CASE RevokeAll
      BY <2>3 DEF RevokeAll
    <2> QED BY <1>10, <2>1, <2>2, <2>3
  <1>11. CASE UNCHANGED vars
    BY <1>11 DEF vars
  <1> QED BY <1>1, <1>2, <1>3, <1>4, <1>5, <1>6, <1>7, <1>8, <1>9, <1>10, <1>11 DEF Next

LEMMA TypedInit == ASSUME SiteAssumption, Init PROVE Typed
  <1>1. NoDialog \in Dialogs /\ NoDialog.st = "none"
    BY DEF NoDialog, Dialogs
  <1>2. \A r \in Readers : pc[r] = "idle"
    BY DEF Init
  <1> QED BY <1>1, <1>2 DEF Init, Typed, PcStates

LEMMA TypedAlways == Spec => []Typed
  <1> USE TreeAssumption, SiteAssumption
  <1>1. Init => Typed
    BY TypedInit
  <1>2. Typed /\ [Next]_vars => Typed'
    BY TypedStep
  <1> QED BY <1>1, <1>2, PTL DEF Spec

Capped == Cardinality(waiters) <= ParkCap

LEMMA CappedStep ==
    ASSUME SiteAssumption, Typed, Capped, [Next]_vars
    PROVE  Capped'
  <1>1. IsFiniteSet(waiters) /\ Cardinality(waiters) \in Nat
    BY FS_Subset, FS_CardinalityType DEF Typed, SiteAssumption
  <1>2. \A S \in SUBSET waiters : Cardinality(S) \in Nat /\ Cardinality(S) <= Cardinality(waiters)
    BY <1>1, FS_Subset, FS_CardinalityType
  <1>3. ASSUME waiters' \subseteq waiters PROVE Capped'
    BY <1>1, <1>2, <1>3 DEF Capped, SiteAssumption
  <1>4. ASSUME NEW r \in Readers, AwaitParks(r) PROVE Capped'
    <2>1. waiters' = waiters \cup {r} /\ ~(Cardinality(waiters) >= ParkCap)
      BY <1>4 DEF AwaitParks, TurnedAway
    <2>2. \/ Cardinality(waiters \cup {r}) = Cardinality(waiters)
          \/ Cardinality(waiters \cup {r}) = Cardinality(waiters) + 1
      BY <1>1, FS_AddElement
    <2> QED BY <1>1, <2>1, <2>2 DEF Capped, SiteAssumption
  <1>5. ASSUME NEW r \in Readers,
               Miss(r) \/ AwaitDenied(r) \/ AwaitCovered(r) \/ Receive(r) \/ GiveUp(r) \/ removeWaiter(r)
        PROVE  waiters' \subseteq waiters
    BY <1>5 DEF Miss, AwaitDenied, AwaitCovered, Receive, GiveUp, removeWaiter, parking
  <1>6. ASSUME Fire \/ flush \/ decide \/ Open \/ RevokeReadRoot \/ shutdown \/ RevokeAll
        PROVE  waiters' \subseteq waiters
    BY <1>6 DEF Fire, flush, FlushIdle, FlushAllSuppressed, FlushUngrantable, FlushAsks, Rest, Kept,
                decide, Refuse, GrantFails, Suppress, Grant, WakeCovered, Decided,
                Open, RevokeReadRoot, shutdown, RevokeAll, parking
  <1>7. ASSUME NEW c \in Callers,
               PromptWaits(c) \/ PromptRefused(c) \/ PromptStarts(c) \/ PromptDone(c)
        PROVE  waiters' \subseteq waiters
    BY <1>7 DEF PromptWaits, PromptRefused, PromptStarts, PromptDone, parking
  <1>8. CASE UNCHANGED vars
    BY <1>8, <1>3 DEF vars, parking
  <1> QED BY <1>3, <1>4, <1>5, <1>6, <1>7, <1>8 DEF Next

\* Every field keeps its type and no more than brokerParkCap requests are ever
\* parked, however many ask at once.
THEOREM TypeCorrect == Spec => []TypeOK
  <1> USE TreeAssumption, SiteAssumption
  <1>1. Init => Capped
    BY FS_EmptySet DEF Init, Capped, SiteAssumption
  <1>2. Typed /\ Capped /\ [Next]_vars => Capped'
    BY CappedStep
  <1>3. Typed /\ Capped => TypeOK
    BY DEF Typed, Capped, TypeOK, PcStates, Dialogs
  <1> QED BY <1>1, <1>2, <1>3, TypedAlways, PTL DEF Spec

-----------------------------------------------------------------------------
(* Dialogs and the queue behind them *)

LEMMA OneDialogStep ==
    ASSUME Typed, OneDialog, [Next]_vars
    PROVE  OneDialog'
  <1> USE DEF OneDialog, Typed, PcStates, Dialogs, NoDialog
  <1>1. ASSUME UNCHANGED <<prompting, dialog, caller>> PROVE OneDialog'
    BY <1>1
  <1>2. ASSUME NEW r \in Readers,
               Miss(r) \/ AwaitDenied(r) \/ AwaitCovered(r) \/ AwaitParks(r) \/ Receive(r) \/ GiveUp(r) \/ removeWaiter(r)
        PROVE  UNCHANGED <<prompting, dialog, caller>>
    BY <1>2 DEF Miss, AwaitDenied, AwaitCovered, AwaitParks, Receive, GiveUp, removeWaiter
  <1>3. ASSUME Fire \/ FlushIdle \/ FlushAllSuppressed \/ FlushUngrantable
               \/ Open \/ RevokeReadRoot \/ shutdown \/ RevokeAll
        PROVE  UNCHANGED <<prompting, dialog, caller>>
    BY <1>3 DEF Fire, FlushIdle, FlushAllSuppressed, FlushUngrantable, Open, RevokeReadRoot, shutdown, RevokeAll
  <1>4. CASE FlushAsks
    BY <1>4 DEF FlushAsks, Flushing
  <1>5. CASE Refuse \/ GrantFails \/ Grant \/ WakeCovered
    BY <1>5 DEF Refuse, GrantFails, Suppress, Grant, WakeCovered
  <1>6. CASE Decided
    BY <1>6 DEF Decided, PromptEnds
  <1>7. ASSUME NEW c \in Callers,
               PromptWaits(c) \/ PromptRefused(c) \/ PromptStarts(c) \/ PromptDone(c)
        PROVE  OneDialog'
    BY <1>7 DEF PromptWaits, PromptRefused, PromptStarts, PromptDone, PromptEnds
  <1>8. CASE UNCHANGED vars
    BY <1>8 DEF vars
  <1> QED BY <1>1, <1>2, <1>3, <1>4, <1>5, <1>6, <1>7, <1>8 DEF Next, flush, decide

\* No two native dialogs are ever up together, and prompting tells when one is.
THEOREM DialogsSerialized == Spec => []OneDialog
  <1> USE TreeAssumption, SiteAssumption
  <1>1. Init => OneDialog
    BY DEF Init, OneDialog, NoDialog
  <1>2. Typed /\ OneDialog /\ [Next]_vars => OneDialog'
    BY OneDialogStep
  <1> QED BY <1>1, <1>2, TypedAlways, PTL DEF Spec

LEMMA QueueStep ==
    ASSUME Typed, QueueWatched, [Next]_vars
    PROVE  QueueWatched'
  <1> USE DEF QueueWatched, Typed
  <1> USE DEF parking, batch
  <1>1. ASSUME NEW r \in Readers,
               Miss(r) \/ AwaitDenied(r) \/ AwaitCovered(r) \/ Receive(r) \/ GiveUp(r) \/ removeWaiter(r)
        PROVE  QueueWatched'
    BY <1>1 DEF Miss, AwaitDenied, AwaitCovered, Receive, GiveUp, removeWaiter
  <1>2. ASSUME NEW r \in Readers, AwaitParks(r) PROVE QueueWatched'
    BY <1>2 DEF AwaitParks, TurnedAway, armLocked
  <1>3. CASE Fire
    BY <1>3 DEF Fire
  <1>4. CASE flush
    BY <1>4 DEF flush, FlushIdle, FlushAllSuppressed, FlushUngrantable, FlushAsks, Flushing, TakeTimer, RearmedFor
  <1>5. CASE Refuse \/ GrantFails \/ Grant
    BY <1>5 DEF Refuse, GrantFails, Suppress, Grant
  <1>6. CASE WakeCovered
    BY <1>6 DEF WakeCovered
  <1>7. CASE Decided
    BY <1>7 DEF Decided, PromptEnds, RearmedFor
  <1>8. ASSUME NEW c \in Callers,
               PromptWaits(c) \/ PromptRefused(c) \/ PromptStarts(c) \/ PromptDone(c)
        PROVE  QueueWatched'
    BY <1>8 DEF PromptWaits, PromptRefused, PromptStarts, PromptDone, PromptEnds, RearmedFor
  <1>9. CASE Open \/ RevokeReadRoot \/ shutdown \/ RevokeAll
    BY <1>9 DEF Open, RevokeReadRoot, shutdown, RevokeAll
  <1>10. CASE UNCHANGED vars
    BY <1>10 DEF vars
  <1> QED BY <1>1, <1>2, <1>3, <1>4, <1>5, <1>6, <1>7, <1>8, <1>9, <1>10 DEF Next, decide

\* A queue with somebody in it always has a dialog, a timer or a flush that will
\* come back to it, however the timer's firings and the dialogs cross; a broker
\* that is shut down has an empty one.
THEOREM QueueNeverStranded == Spec => []QueueWatched
  <1> USE TreeAssumption, SiteAssumption
  <1>1. Init => QueueWatched
    BY DEF Init, QueueWatched
  <1>2. Typed /\ QueueWatched /\ [Next]_vars => QueueWatched'
    BY QueueStep
  <1> QED BY <1>1, <1>2, TypedAlways, PTL DEF Spec

-----------------------------------------------------------------------------
(* Every request has one place, and one answer *)

\* A request has an answer only after it parked, and a group is made of requests
\* that have parked.
Places ==
    /\ AnsweredOnce
    /\ \A r \in Readers : pc[r] \in {"idle", "missed"} => ch[r] = None /\ r \notin Awaiting

LEMMA PlacesStep ==
    ASSUME SiteAssumption, Typed, OneDialog, Places, [Next]_vars
    PROVE  Places'
  <1> USE DEF Places, AnsweredOnce, Awaiting, Typed, PcStates, Dialogs
  <1> USE DEF parking
  <1>1. ASSUME NEW r \in Readers, Miss(r) PROVE Places'
    BY <1>1 DEF Miss
  <1>2. ASSUME NEW r \in Readers, AwaitDenied(r) \/ AwaitCovered(r) PROVE Places'
    BY <1>2 DEF AwaitDenied, AwaitCovered
  <1>3. ASSUME NEW r \in Readers, AwaitParks(r) PROVE Places'
    BY <1>3 DEF AwaitParks
  <1>4. ASSUME NEW r \in Readers, Receive(r) PROVE Places'
    BY <1>4 DEF Receive
  <1>5. ASSUME NEW r \in Readers, GiveUp(r) PROVE Places'
    BY <1>5 DEF GiveUp
  <1>6. ASSUME NEW r \in Readers, removeWaiter(r) PROVE Places'
    BY <1>6 DEF removeWaiter
  <1>7. ASSUME UNCHANGED <<pc, ch, waiters, dialog>> PROVE Places'
    BY <1>7
  <1>8. CASE Fire \/ FlushIdle \/ Open \/ RevokeReadRoot \/ RevokeAll
    BY <1>7, <1>8 DEF Fire, FlushIdle, Open, RevokeReadRoot, RevokeAll
  <1>9. CASE flush
    <2> USE DEF denyAll, Answer
    <2>1. Kept \subseteq waiters /\ Group \subseteq Kept /\ Rest = Kept \ Group
      BY DEF Kept, Group, Rest
    <2>2. CASE FlushAllSuppressed
      BY <2>2, SiteAssumption DEF FlushAllSuppressed
    <2>3. CASE FlushUngrantable
      BY <2>1, <2>3, SiteAssumption DEF FlushUngrantable, Hopeless
    <2>4. CASE FlushAsks
      <3>1. dialog.st = "none"
        BY <2>4 DEF FlushAsks, Flushing, OneDialog, NoDialog
      <3>2. dialog'.st = "ask" /\ dialog'.group = Group /\ waiters' = Kept \ Group /\ pc' = pc
        BY <2>1, <2>4 DEF FlushAsks
      <3>3. ch' = [r \in Readers |-> IF r \in waiters \ Kept THEN "deny" ELSE ch[r]]
        BY <2>4 DEF FlushAsks
      <3>4. Awaiting' = Kept /\ Awaiting = waiters
        BY <2>1, <3>1, <3>2
      <3> QED BY <2>1, <3>2, <3>3, <3>4, SiteAssumption
    <2> QED BY <1>8, <1>9, <2>2, <2>3, <2>4 DEF flush
  <1>10. CASE Refuse \/ GrantFails
    BY <1>10, SiteAssumption DEF Refuse, GrantFails, Suppress, denyAll, Answer
  <1>11. CASE Grant
    BY <1>11, SiteAssumption DEF Grant, Answer
  <1>12. CASE WakeCovered
    BY <1>12, SiteAssumption DEF WakeCovered, Answer
  <1>13. CASE Decided
    BY <1>13 DEF Decided, NoDialog
  <1>14. CASE shutdown
    BY <1>14, SiteAssumption DEF shutdown, denyAll, Answer
  <1>15. ASSUME NEW c \in Callers,
                PromptWaits(c) \/ PromptRefused(c) \/ PromptStarts(c) \/ PromptDone(c)
         PROVE  Places'
    BY <1>7, <1>15 DEF PromptWaits, PromptRefused, PromptStarts, PromptDone
  <1>16. CASE UNCHANGED vars
    BY <1>7, <1>16 DEF vars
  <1> QED
    BY <1>1, <1>2, <1>3, <1>4, <1>5, <1>6, <1>8, <1>9, <1>10, <1>11, <1>12, <1>13, <1>14, <1>15, <1>16
       DEF Next, decide

LEMMA PlacesAlways == Spec => []Places
  <1> USE TreeAssumption, SiteAssumption
  <1>1. Init => Places
    BY DEF Init, Places, AnsweredOnce, Awaiting, NoDialog
  <1>2. Typed /\ OneDialog /\ Places /\ [Next]_vars => Places'
    BY PlacesStep
  <1> QED BY <1>1, <1>2, TypedAlways, DialogsSerialized, PTL DEF Spec

\* Nobody is answered twice, and nobody who is held open is out of sight, through
\* every crossing of flush, decision, sweep, departure and shutdown.
THEOREM OneAnswerEach == Spec => []AnsweredOnce
  <1>1. Places => AnsweredOnce
    BY DEF Places
  <1> QED BY <1>1, PlacesAlways, PTL

-----------------------------------------------------------------------------
(* What was asked, and what is let through *)

Agreed(r) == \E d \in allowed : ContainWithinHome(d, want[r]) \/ ContainWithinHome(d, Real[want[r]])

\* Roots come from answers, refusals are remembered, and a question is about a
\* folder that holds what its group asked for.
Permission ==
    /\ OnlyAllowed /\ NeverAskedAgain /\ RevokedHoldsNothing
    /\ opened \cup granted \subseteq allowed
    /\ refused \subseteq suppressed
    /\ dialog.st = "ask" => \A r \in dialog.group : ContainWithinHome(dialog.lca, want[r])

\* A step that asks nobody, lets nobody through and takes no agreement back.
LEMMA PermissionKept ==
    ASSUME SiteAssumption, Typed, Places, Permission,
           \A r \in Readers : pc[r] # "idle" => want'[r] = want[r],
           \A r \in Readers : (ch'[r] = "allow" \/ pc'[r] = "allowed") =>
               pc[r] # "idle" /\ (ch[r] = "allow" \/ pc[r] = "allowed" \/ Agreed(r)),
           allowed \subseteq allowed',
           opened' \cup granted' \subseteq allowed', RevokedHoldsNothing',
           refused' \subseteq suppressed',
           dialog'.st = "ask" => dialog' = dialog /\ refused' = refused
    PROVE  Permission'
  <1>1. OnlyAllowed'
    BY DEF Permission, OnlyAllowed, Agreed, ContainWithinHome
  <1>2. ASSUME dialog'.st = "ask", NEW r \in dialog'.group
        PROVE  want'[r] = want[r] /\ r \in dialog.group /\ dialog.st = "ask"
    BY <1>2 DEF Typed, Dialogs, Places, Awaiting, PcStates
  <1>3. NeverAskedAgain'
    BY <1>2 DEF Permission, NeverAskedAgain, EqualOrUnder
  <1>4. (dialog.st = "ask" => \A r \in dialog.group : ContainWithinHome(dialog.lca, want[r]))'
    BY <1>2 DEF Permission, ContainWithinHome
  <1> QED BY <1>1, <1>3, <1>4 DEF Permission

LEMMA PermissionStep ==
    ASSUME TreeAssumption, SiteAssumption, Typed, OneDialog, Places, Permission, [Next]_vars
    PROVE  Permission'
  <1> USE SiteAssumption DEF Typed, PcStates, Dialogs
  <1> USE DEF parking, roots, answers, RevokedHoldsNothing
  <1>a. /\ opened \cup granted \subseteq allowed /\ refused \subseteq suppressed
        /\ revoked => opened \cup granted = {}
        /\ \A r \in Readers : (ch[r] = "allow" \/ pc[r] = "allowed") => pc[r] # "idle"
    BY DEF Permission, Places
  <1>b. ASSUME NEW r \in Readers, AssetRoot(want[r]) \/ AssetRoot(Real[want[r]]) PROVE Agreed(r)
    BY <1>a, <1>b DEF AssetRoot, Agreed
  <1>1. ASSUME NEW r \in Readers,
               Miss(r) \/ AwaitDenied(r) \/ AwaitParks(r) \/ Receive(r) \/ GiveUp(r) \/ removeWaiter(r)
        PROVE  Permission'
    BY <1>a, <1>1, PermissionKept
       DEF Miss, AwaitDenied, AwaitParks, Receive, GiveUp, removeWaiter
  <1>2. ASSUME NEW r \in Readers, AwaitCovered(r) PROVE Permission'
    BY <1>a, <1>b, <1>2, PermissionKept DEF AwaitCovered
  <1>3. ASSUME UNCHANGED <<pc, want, ch, suppressed, dialog, roots, answers>> PROVE Permission'
    BY <1>a, <1>3, PermissionKept
  <1>4. CASE Fire \/ FlushIdle
    BY <1>3, <1>4 DEF Fire, FlushIdle
  <1>5. CASE FlushAllSuppressed \/ FlushUngrantable
    BY <1>a, <1>5, PermissionKept DEF FlushAllSuppressed, FlushUngrantable, denyAll, Answer
  <1>6. CASE FlushAsks
    <2>1. /\ dialog' = [st |-> "ask", group |-> Group, lca |-> GroupFolder]
          /\ want' = want /\ allowed' = allowed /\ refused' = refused /\ suppressed' = suppressed
          /\ opened' = opened /\ granted' = granted /\ revoked' = revoked /\ pc' = pc
          /\ \A r \in Readers : ch'[r] = "allow" => ch[r] = "allow"
      BY <1>6 DEF FlushAsks, denyAll, Answer
    <2>2. OnlyAllowed'
      BY <2>1 DEF Permission, OnlyAllowed, ContainWithinHome
    <2>3. \A r \in Group : \A d \in refused : ~EqualOrUnder(want[r], d)
      BY <1>a DEF Group, Kept, isSuppressed
    <2>4. NeverAskedAgain'
      BY <2>1, <2>3 DEF NeverAskedAgain, EqualOrUnder
    <2>5. (dialog.st = "ask" => \A r \in dialog.group : ContainWithinHome(dialog.lca, want[r]))'
      BY <2>1, GroupCovered DEF ContainWithinHome
    <2> QED BY <1>a, <2>1, <2>2, <2>4, <2>5 DEF Permission
  <1>7. CASE Refuse \/ GrantFails
    BY <1>a, <1>7, PermissionKept DEF Refuse, GrantFails, Suppress, denyAll, Answer
  <1>8. CASE Grant
    <2>1. /\ allowed' = allowed \cup {dialog.lca, Real[dialog.lca]} /\ dialog'.st = "granted"
          /\ granted' = granted \cup {Real[dialog.lca]} /\ opened' = opened
          /\ revoked' = revoked /\ ~revoked /\ pc' = pc /\ want' = want
          /\ refused' = refused /\ suppressed' = suppressed /\ dialog.st = "ask"
      BY <1>8 DEF Grant, Grantable
    <2>2. \A r \in Readers : ch'[r] = "allow" => ch[r] = "allow" \/ r \in dialog.group
      BY <1>8 DEF Grant, Answer
    <2>3. OnlyAllowed'
      BY <2>1, <2>2 DEF Permission, OnlyAllowed, ContainWithinHome
    <2> QED BY <1>a, <2>1, <2>3 DEF Permission, NeverAskedAgain
  <1>9. CASE WakeCovered
    <2> DEFINE freed == {r \in waiters : authorizedNow(want[r], Real[dialog.lca] # dialog.lca)}
    <2>1. /\ dialog'.st = "done" /\ pc' = pc /\ want' = want /\ suppressed' = suppressed
          /\ ch' = Answer(freed, "allow") /\ UNCHANGED roots /\ UNCHANGED answers
      BY <1>9 DEF WakeCovered
    <2>2. \A r \in freed : Agreed(r) /\ pc[r] # "idle"
      BY <1>b DEF authorizedNow
    <2>3. \A r \in Readers : ch'[r] = "allow" => ch[r] = "allow" \/ r \in freed
      BY <2>1 DEF Answer
    <2> QED BY <1>a, <2>1, <2>2, <2>3, PermissionKept
  <1>10. CASE Decided
    BY <1>a, <1>10, PermissionKept DEF Decided, NoDialog
  <1>11. ASSUME NEW c \in Callers,
                PromptWaits(c) \/ PromptRefused(c) \/ PromptStarts(c) \/ PromptDone(c)
         PROVE  Permission'
    BY <1>3, <1>11 DEF PromptWaits, PromptRefused, PromptStarts, PromptDone
  <1>12. CASE Open
    BY <1>a, <1>12, PermissionKept DEF Open
  <1>13. CASE RevokeReadRoot
    BY <1>a, <1>13, PermissionKept DEF RevokeReadRoot
  <1>14. CASE shutdown
    BY <1>a, <1>14, PermissionKept DEF shutdown, denyAll, Answer
  <1>15. CASE RevokeAll
    BY <1>a, <1>15, PermissionKept DEF RevokeAll
  <1>16. CASE UNCHANGED vars
    BY <1>3, <1>16 DEF vars
  <1> QED
    BY <1>1, <1>2, <1>4, <1>5, <1>6, <1>7, <1>8, <1>9, <1>10, <1>11, <1>12, <1>13, <1>14, <1>15, <1>16
       DEF Next, flush, decide

\* A request goes on only under a folder the user opened or allowed; nobody is
\* asked again at or under a folder that was settled; nothing is granted once the
\* roots were revoked, not even by a dialog that outlived the site.
THEOREM OnlyWhatTheUserAllowed == Spec => [](OnlyAllowed /\ NeverAskedAgain /\ RevokedHoldsNothing)
  <1> USE TreeAssumption, SiteAssumption
  <1>1. Init => Permission
    BY DEF Init, Permission, OnlyAllowed, NeverAskedAgain, RevokedHoldsNothing, NoDialog
  <1>2. Typed /\ OneDialog /\ Places /\ Permission /\ [Next]_vars => Permission'
    BY PermissionStep
  <1>3. Permission => OnlyAllowed /\ NeverAskedAgain /\ RevokedHoldsNothing
    BY DEF Permission
  <1> QED BY <1>1, <1>2, <1>3, TypedAlways, DialogsSerialized, PlacesAlways, PTL DEF Spec

\* The three read one by one: nobody is asked about again at or under a folder
\* a dialog was settled against, whoever parked while it was up.
THEOREM SettledNotAskedAgain == Spec => []NeverAskedAgain
  BY OnlyWhatTheUserAllowed, PTL

\* No root comes back after RevokeAll, whatever dialog was up when it ran.
THEOREM TornDownHoldsNothing == Spec => []RevokedHoldsNothing
  BY OnlyWhatTheUserAllowed, PTL

=============================================================================
