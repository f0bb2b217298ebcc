----------------------------- MODULE ActionLog -----------------------------
(***************************************************************************)
(* The action manager (service/actionmanager.go): what the process does at *)
(* the moment and did before, for the monitor's pages.  manageState and    *)
(* every request handler start, log and complete actions of their own; the *)
(* map of running actions and the slice of completed ones are shared and   *)
(* have no lock.                                                           *)
(*                                                                         *)
(* An owner works on one action at a time and completes it at least once:  *)
(* many functions complete it with an error and once more by a defer.  The *)
(* texts that are logged are left out.                                     *)
(***************************************************************************)
EXTENDS Naturals, Sequences, FiniteSets

CONSTANTS Owners,   \* goroutines that start and complete actions
          Actions,  \* identifiers, bounds how many actions are ever started
          Null

ASSUME ActionAssumption == Null \notin Actions /\ IsFiniteSet(Actions)

VARIABLES
  runningActions,   \* the keys of the map
  completedActions, \* the slice; Null where no action has been stored
  started,          \* the actions that exist
  finished,         \* those whose FinishedAt is set
  failed,           \* those whose Error is set
  pc,               \* pc[o]: where owner o is
  job,              \* job[o]: the action of owner o and whether it completes with an error
  seen,             \* seen[o]: the slice owner o appends to
  page,             \* where the monitor's page is
  asked,            \* the action the page looks up
  answer,           \* what LookupAction returned: "found", "nil" or a panic
  overlapped,       \* history: the actions whose append overlapped another one
  ended             \* the runtime ended the process

manager == <<runningActions, completedActions, started, finished, failed>>
owners == <<pc, job, seen>>
reader == <<page, asked, answer>>
vars == <<manager, owners, reader, overlapped, ended>>

NoJob == [id |-> Null, err |-> FALSE]

Init ==
  /\ runningActions = {} /\ completedActions = <<>>
  /\ started = {} /\ finished = {} /\ failed = {}
  /\ pc = [o \in Owners |-> "idle"]
  /\ job = [o \in Owners |-> NoJob]
  /\ seen = [o \in Owners |-> <<>>]
  /\ page = "idle" /\ asked = Null /\ answer = "none"
  /\ overlapped = {} /\ ended = FALSE

Goto(o, from, to) == pc[o] = from /\ pc' = [pc EXCEPT ![o] = to]

Status(a) == IF a \notin finished THEN "RUNNING"
             ELSE IF a \in failed THEN "ERROR" ELSE "COMPLETED"

-----------------------------------------------------------------------------
(* StartAction and LogAction *)

\* The identifier is new, the action is not yet in the map.
CallStart(o) ==
  /\ Goto(o, "idle", "start")
  /\ \E a \in Actions \ started :
       started' = started \union {a} /\ job' = [job EXCEPT ![o] = [id |-> a, err |-> FALSE]]
  /\ UNCHANGED <<runningActions, completedActions, finished, failed, seen>>

StartAction(o) ==
  /\ Goto(o, "start", "own")
  /\ runningActions' = runningActions \union {job[o].id}
  /\ UNCHANGED <<completedActions, started, finished, failed, job, seen>>

CallLog(o) == Goto(o, "own", "log") /\ UNCHANGED <<manager, job, seen>>

\* Reads the map; the text goes to the action if it is there.
LogAction(o) == Goto(o, "log", "own") /\ UNCHANGED <<manager, job, seen>>

-----------------------------------------------------------------------------
(* CompleteWithMessage and CompleteWithError *)

CallComplete(o) ==
  /\ Goto(o, "own", "complete")
  /\ \E err \in BOOLEAN : job' = [job EXCEPT ![o].err = err]
  /\ UNCHANGED <<manager, seen>>

\* Slip: completes an action found by LookupAction, which may be completed.
FindAny(o) ==
  /\ Goto(o, "complete", "remove") /\ UNCHANGED <<manager, job, seen>>
\* An action that is not running, or has finished, is left alone.
Find(o) ==
  LET open == job[o].id \in runningActions \ finished IN
  /\ Goto(o, "complete", IF open THEN "remove" ELSE "own")
  /\ UNCHANGED <<manager, job, seen>>

\* Slip: the action stays in the map.
RemoveNothing(o) == Goto(o, "remove", "stamp") /\ UNCHANGED <<manager, job, seen>>
Remove(o) ==
  /\ Goto(o, "remove", "stamp")
  /\ runningActions' = runningActions \ {job[o].id}
  /\ UNCHANGED <<completedActions, started, finished, failed, job, seen>>

\* FinishedAt is set before Error: for a moment a failed action is COMPLETED.
Stamp(o) ==
  /\ Goto(o, "stamp", IF job[o].err THEN "fault" ELSE "load")
  /\ finished' = finished \union {job[o].id}
  /\ UNCHANGED <<runningActions, completedActions, started, failed, job, seen>>

SetError(o) ==
  /\ Goto(o, "fault", "load")
  /\ failed' = failed \union {job[o].id}
  /\ UNCHANGED <<runningActions, completedActions, started, finished, job, seen>>

-----------------------------------------------------------------------------
(* completedActions = append(completedActions, a): loads the slice, stores *)
(* the new length (and a new array if the old one is full), then the       *)
(* element.  Another append may come between any two of these.             *)

Appending(o) == pc[o] \in {"length", "element"}
Slot(o) == Len(seen[o]) + 1

\* The first n elements of s, the ones it does not have being nil.
Resized(s, n) == [k \in 1..n |-> IF k \in DOMAIN s THEN s[k] ELSE Null]

LoadSlice(o) ==
  /\ Goto(o, "load", "length")
  /\ seen' = [seen EXCEPT ![o] = completedActions]
  /\ LET others == {p \in Owners \ {o} : Appending(p)} IN
     overlapped' = overlapped \union
       (IF others = {} THEN {} ELSE {job[p].id : p \in others \union {o}})
  /\ UNCHANGED <<manager, job>>

\* Slip: keeps the old length, the new element replaces the last one.
StoreSameLength(o) ==
  /\ Goto(o, "length", "element")
  /\ completedActions' = Resized(completedActions, Slot(o) - 1)
  /\ UNCHANGED <<runningActions, started, finished, failed, job, seen, overlapped>>
\* Slip: makes room for two.
StoreLongerLength(o) ==
  /\ Goto(o, "length", "element")
  /\ completedActions' = Resized(completedActions, Slot(o) + 1)
  /\ UNCHANGED <<runningActions, started, finished, failed, job, seen, overlapped>>
\* Into the array in place, or with a copy of the array that was loaded.
StoreLength(o) ==
  /\ Goto(o, "length", "element")
  /\ \E array \in {completedActions, seen[o]} : completedActions' = Resized(array, Slot(o))
  /\ UNCHANGED <<runningActions, started, finished, failed, job, seen, overlapped>>

\* After an overlap the element may go to an array that is no longer in place.
StoreElement(o) ==
  /\ Goto(o, "element", "own")
  /\ \/ completedActions' = [k \in DOMAIN completedActions |->
                               IF k = Slot(o) THEN job[o].id ELSE completedActions[k]]
     \/ job[o].id \in overlapped /\ UNCHANGED completedActions
  /\ seen' = [seen EXCEPT ![o] = <<>>]
  /\ UNCHANGED <<runningActions, started, finished, failed, job, overlapped>>

\* The function that started the action returns, its action completed.
Return(o) ==
  /\ job[o].id \in finished
  /\ Goto(o, "own", "idle")
  /\ job' = [job EXCEPT ![o] = NoJob]
  /\ UNCHANGED <<manager, seen>>

-----------------------------------------------------------------------------
(* The pages: LookupAction and RunningActions *)

\* A link of one of the lists names an action that exists.
CallLookup ==
  /\ page = "idle" /\ page' = "running"
  /\ asked' \in finished \union runningActions /\ answer' = "none"

\* Slip: does not look at the completed actions.
ReadRunningOnly ==
  /\ page = "running" /\ page' = "idle"
  /\ answer' = (IF asked \in runningActions THEN "found" ELSE "nil")
  /\ UNCHANGED asked
ReadRunning ==
  /\ page = "running" /\ UNCHANGED asked
  /\ IF asked \in runningActions THEN page' = "idle" /\ answer' = "found"
     ELSE page' = "completed" /\ UNCHANGED answer

\* The loop dereferences every element up to the one it looks for.
ReadCompleted ==
  LET hits == {k \in DOMAIN completedActions : completedActions[k] = asked}
      holes == {k \in DOMAIN completedActions : completedActions[k] = Null}
  IN /\ page = "completed" /\ page' = "idle" /\ UNCHANGED asked
     /\ answer' = IF \E k \in holes : \A h \in hits : k < h THEN "panic"
                  ELSE IF hits # {} THEN "found" ELSE "nil"

CallList == page = "idle" /\ page' = "list" /\ asked' = Null /\ answer' = "none"
ListRunning == page = "list" /\ page' = "idle" /\ UNCHANGED <<asked, answer>>

\* Two goroutines are at the map and one of them writes.
MapRace ==
  LET writing == {o \in Owners : pc[o] \in {"start", "remove"}}
      reading == {o \in Owners : pc[o] \in {"log", "complete"}}
  IN /\ \/ \E o, p \in writing : o # p
        \/ writing # {} /\ (reading # {} \/ page \in {"running", "list"})
     /\ ended' = TRUE
     /\ UNCHANGED <<manager, owners, reader, overlapped>>

-----------------------------------------------------------------------------
Use(o) == CallStart(o) \/ CallLog(o) \/ CallComplete(o) \/ Return(o)
Work(o) == StartAction(o) \/ LogAction(o) \/ Find(o) \/ Remove(o) \/ Stamp(o) \/ SetError(o)
Collect(o) == LoadSlice(o) \/ StoreLength(o) \/ StoreElement(o)
Page == CallLookup \/ ReadRunning \/ ReadCompleted \/ CallList \/ ListRunning

Next ==
  /\ ~ended
  /\ \/ \E o \in Owners : (Use(o) \/ Work(o)) /\ UNCHANGED <<reader, overlapped, ended>>
     \/ \E o \in Owners : Collect(o) /\ UNCHANGED <<reader, ended>>
     \/ Page /\ UNCHANGED <<manager, owners, overlapped, ended>>
     \/ MapRace

Spec == Init /\ [][Next]_vars

-----------------------------------------------------------------------------
(* Properties *)

Listed == {completedActions[k] : k \in DOMAIN completedActions} \ {Null}

\* The action of owner o is between the two collections, or not yet in the first.
Between(o) == pc[o] \in {"start", "stamp", "fault", "load", "length", "element"}

\* The types of the variables; the slice is never longer than the actions.
TypeOK ==
  /\ started \subseteq Actions /\ finished \subseteq started /\ failed \subseteq finished
  /\ runningActions \subseteq started /\ overlapped \subseteq finished
  /\ completedActions \in Seq(Actions \union {Null})
  /\ Len(completedActions) <= Cardinality(finished)
  /\ pc \in [Owners -> {"idle", "start", "own", "log", "complete", "remove", "stamp",
                        "fault", "load", "length", "element"}]
  /\ job \in [Owners -> [id : Actions \union {Null}, err : BOOLEAN]]
  /\ \A o \in Owners : seen[o] \in Seq(Actions \union {Null})
  /\ page \in {"idle", "running", "completed", "list"}
  /\ asked \in Actions \union {Null} /\ answer \in {"none", "found", "nil", "panic"}
  /\ ended \in BOOLEAN

\* An action is listed once: as running or as completed, and not twice as
\* completed, though its function completes it with an error and then again by
\* its defer, and though appends overlap.
ListedOnce ==
  /\ runningActions \cap Listed = {}
  /\ \A j, k \in DOMAIN completedActions :
       j # k /\ completedActions[j] = completedActions[k] => completedActions[j] = Null

\* An action disappears from both collections only while it moves from the one
\* to the other, or if its append overlapped that of another goroutine.
LostOnlyByOverlap ==
  \A a \in started : a \in runningActions \/ a \in Listed \/ a \in overlapped
                       \/ \E o \in Owners : job[o].id = a /\ Between(o)

\* The status of a listed completed action is its final one: a later complete
\* neither hides its error nor adds one.
ListedIsFinal == [][\A a \in Listed : Status(a) # "RUNNING" /\ Status(a)' = Status(a)]_vars

\* A page that looks up an existing action finds it unless it is moving at that
\* moment or was lost in an overlap; the page panics only on an element whose
\* append is under way or overlapped another one.
LookupFinds ==
  [][/\ page # "idle" /\ answer' = "nil" =>
          asked \in overlapped \/ \E o \in Owners : job[o].id = asked /\ Between(o)
     /\ page # "idle" /\ answer' = "panic" =>
          overlapped # {} \/ \E o \in Owners : pc[o] = "element"]_vars
=============================================================================
