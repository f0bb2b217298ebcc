--------------------------- MODULE ActionLogProofs ---------------------------
(***************************************************************************)
(* Proofs about ActionLog, for any number of goroutines and actions: what  *)
(* the two collections of actions still guarantee without a lock.          *)
(***************************************************************************)
EXTENDS ActionLog, FiniteSetTheorems, TLAPS

-----------------------------------------------------------------------------
(***************************************************************************)
(* Slices.                                                                 *)
(***************************************************************************)
Slices == Seq(Actions \union {Null})

LEMMA SliceOf ==
  ASSUME NEW s \in Slices
  PROVE  Len(s) \in Nat /\ DOMAIN s = 1..Len(s) /\ \A k \in 1..Len(s) : s[k] \in Actions \union {Null}
  BY DEF Slices

LEMMA FunctionIsSlice ==
  ASSUME NEW n \in Nat, NEW s \in [1..n -> Actions \union {Null}]
  PROVE  s \in Slices /\ Len(s) = n
  BY DEF Slices

LEMMA ResizedSlice ==
  ASSUME NEW s \in Slices, NEW n \in Nat
  PROVE  /\ Resized(s, n) \in Slices /\ Len(Resized(s, n)) = n
         /\ DOMAIN Resized(s, n) = 1..n
         /\ \A k \in 1..n : Resized(s, n)[k] = IF k \in 1..Len(s) THEN s[k] ELSE Null
  <1>1. Resized(s, n) \in [1..n -> Actions \union {Null}]
    BY SliceOf DEF Resized
  <1>2. QED
    BY <1>1, FunctionIsSlice, SliceOf DEF Resized

\* The actions in a slice, and that none is in it twice.
In(s) == {s[k] : k \in DOMAIN s} \ {Null}
Distinct(s) == \A j, k \in DOMAIN s : j # k /\ s[j] = s[k] => s[j] = Null

LEMMA ResizedKeeps ==
  ASSUME NEW s \in Slices, NEW n \in Nat, Distinct(s)
  PROVE  In(Resized(s, n)) \subseteq In(s) /\ Distinct(Resized(s, n))
  <1> DEFINE t == Resized(s, n)
  <1>1. /\ DOMAIN t = 1..n /\ DOMAIN s = 1..Len(s)
        /\ \A k \in 1..n : t[k] = IF k \in 1..Len(s) THEN s[k] ELSE Null
    BY ResizedSlice, SliceOf
  <1> HIDE DEF t
  <1>2. In(t) \subseteq In(s)
    BY <1>1 DEF In
  <1>3. Distinct(t)
    BY <1>1 DEF Distinct
  <1>4. QED
    BY <1>2, <1>3 DEF t

LEMMA PlacedKeeps ==
  ASSUME NEW s \in Slices, NEW i \in Nat, NEW a \in Actions, a \notin In(s), Distinct(s),
         NEW t \in [DOMAIN s -> Actions \union {Null}],
         \A k \in DOMAIN s : t[k] = IF k = i THEN a ELSE s[k]
  PROVE  t \in Slices /\ Len(t) = Len(s) /\ In(t) \subseteq In(s) \union {a} /\ Distinct(t)
  <1>1. t \in [1..Len(s) -> Actions \union {Null}] /\ Len(s) \in Nat /\ DOMAIN s = 1..Len(s)
    BY SliceOf
  <1>2. t \in Slices /\ Len(t) = Len(s)
    BY <1>1, FunctionIsSlice
  <1>3. In(t) \subseteq In(s) \union {a}
    BY <1>1 DEF In
  <1>4. Distinct(t)
    BY <1>1 DEF In, Distinct
  <1>5. QED
    BY <1>2, <1>3, <1>4
-----------------------------------------------------------------------------
(***************************************************************************)
(* The invariant.                                                          *)
(***************************************************************************)
Types ==
  /\ started \subseteq Actions /\ finished \subseteq started /\ failed \subseteq finished
  /\ runningActions \subseteq started /\ overlapped \subseteq finished
  /\ completedActions \in Slices
  /\ pc \in [Owners -> {"idle", "start", "own", "log", "complete", "remove", "stamp",
                        "fault", "load", "length", "element"}]
  /\ job \in [Owners -> [id : Actions \union {Null}, err : BOOLEAN]]
  /\ seen \in [Owners -> Slices]
  /\ page \in {"idle", "running", "completed", "list"}
  /\ asked \in Actions \union {Null} /\ answer \in {"none", "found", "nil", "panic"}
  /\ ended \in BOOLEAN

\* An action is finished after it was removed from the map, and not put back.
Busy(o) == pc[o] # "idle"
JobInv ==
  /\ runningActions \intersect finished = {}
  /\ \A o \in Owners :
       /\ Busy(o) => job[o].id \in started
       /\ pc[o] \in {"start", "stamp"} => job[o].id \notin runningActions \union finished
       /\ pc[o] = "remove" => job[o].id \in runningActions
       /\ pc[o] \in {"fault", "load", "length", "element"} => job[o].id \in finished
  /\ \A o, p \in Owners : o # p /\ Busy(o) /\ Busy(p) => job[o].id # job[p].id

\* A slice, of the moment or as some goroutine saw it, lists finished actions,
\* once, and none that is still to be appended.
Pending == {job[o].id : o \in {p \in Owners : pc[p] \in {"fault", "load", "length", "element"}}}
Proper(s) == In(s) \subseteq finished \ Pending /\ Distinct(s)
SliceInv ==
  /\ Proper(completedActions)
  /\ \A o \in Owners : Proper(seen[o])

\* Slices are not longer than the number of actions whose append has begun.
Waiting == {job[o].id : o \in {p \in Owners : pc[p] \in {"fault", "load"}}}
Begun == finished \ Waiting
LengthInv ==
  /\ Len(completedActions) <= Cardinality(Begun)
  /\ \A o \in Owners : Appending(o) => Slot(o) <= Cardinality(Begun)

\* Appends at the same time are overlapped; the slice an owner saw agrees with
\* that of the moment on every action that is not.
Holds(s, k, a) == k \in DOMAIN s /\ s[k] = a
Agrees(o) ==
  \A a \in Actions \ overlapped : \A k \in Nat : Holds(seen[o], k, a) <=> Holds(completedActions, k, a)
OverlapInv ==
  \A o \in Owners : Appending(o) =>
    /\ Agrees(o)
    /\ \A p \in Owners \ {o} : Appending(p) => job[o].id \in overlapped
    /\ pc[o] = "element" /\ job[o].id \notin overlapped => Slot(o) \in DOMAIN completedActions

\* Without an overlap only the element being appended is missing.
HoleInv ==
  overlapped = {} =>
    /\ \A k \in DOMAIN completedActions :
         completedActions[k] = Null => \E o \in Owners : pc[o] = "element" /\ Slot(o) = k
    /\ \A o \in Owners : \A k \in DOMAIN seen[o] : seen[o][k] # Null

\* What a page looks up exists; it is not running any more when the page goes
\* on to the completed actions.
PageInv ==
  /\ page \in {"running", "completed"} =>
       asked \in started /\ \A o \in Owners : pc[o] = "start" => job[o].id # asked
  /\ page = "completed" => asked \notin runningActions
  /\ page # "idle" => answer = "none"
-----------------------------------------------------------------------------
(***************************************************************************)
(* Each part of it is preserved.                                           *)
(***************************************************************************)
LEMMA TypesInit == Init => Types
  <1> SUFFICES ASSUME Init PROVE Types
    OBVIOUS
  <1>1. <<>> \in Slices
    BY DEF Slices
  <1>2. QED
    BY <1>1 DEF Init, Types, NoJob

LEMMA TypesNext == Types /\ JobInv /\ [Next]_vars => Types'
  <1> SUFFICES ASSUME Types, JobInv, [Next]_vars PROVE Types'
    OBVIOUS
  <1> USE DEF Types, manager, owners, reader
  <1>1. ASSUME NEW o \in Owners, Use(o) \/ Work(o), UNCHANGED <<reader, overlapped, ended>>
        PROVE  Types'
    <2>1. job[o] \in [id : Actions \union {Null}, err : BOOLEAN] /\ NoJob \in [id : Actions \union {Null}, err : BOOLEAN]
      BY DEF NoJob
    <2>2. \A err \in BOOLEAN : [job[o] EXCEPT !.err = err] \in [id : Actions \union {Null}, err : BOOLEAN]
      BY <2>1
    <2>3. CASE Use(o)
      <3>1. CASE CallStart(o)
        <4>1. PICK a \in Actions \ started :
                started' = started \union {a} /\ job' = [job EXCEPT ![o] = [id |-> a, err |-> FALSE]]
          BY <3>1 DEF CallStart
        <4>2. job' \in [Owners -> [id : Actions \union {Null}, err : BOOLEAN]]
          BY <4>1
        <4>3. QED
          BY <1>1, <3>1, <4>1, <4>2 DEF CallStart, Goto
      <3>2. CASE CallComplete(o)
        <4>1. job' \in [Owners -> [id : Actions \union {Null}, err : BOOLEAN]]
          BY <2>1, <2>2, <3>2 DEF CallComplete
        <4>2. QED
          BY <1>1, <3>2, <4>1 DEF CallComplete, Goto
      <3>3. CASE CallLog(o) \/ Return(o)
        BY <1>1, <2>1, <3>3 DEF Goto, CallLog, Return
      <3>4. QED
        BY <2>3, <3>1, <3>2, <3>3 DEF Use
    <2>4. CASE StartAction(o)
      <3>1. job[o].id \in started
        BY <2>4 DEF Goto, StartAction, JobInv, Busy
      <3>2. QED
        BY <1>1, <2>4, <3>1 DEF Goto, StartAction
    <2>5. CASE LogAction(o) \/ Remove(o)
      BY <1>1, <2>5 DEF Goto, LogAction, Remove
    <2>6. CASE Find(o)
      <3>1. pc' \in {[pc EXCEPT ![o] = "remove"], [pc EXCEPT ![o] = "own"]}
        BY <2>6 DEF Goto, Find
      <3>2. QED
        BY <1>1, <2>6, <3>1 DEF Find
    <2>7. CASE Stamp(o) \/ SetError(o)
      BY <1>1, <2>7 DEF Goto, Stamp, SetError, JobInv, Busy
    <2>8. QED
      BY <1>1, <2>3, <2>4, <2>5, <2>6, <2>7 DEF Work
  <1>2. ASSUME NEW o \in Owners, LoadSlice(o), UNCHANGED <<reader, ended>> PROVE Types'
    BY <1>2 DEF LoadSlice, Goto, Appending, JobInv
  <1>3. ASSUME NEW o \in Owners, StoreLength(o), UNCHANGED <<reader, ended>> PROVE Types'
    <2>1. completedActions \in Slices /\ seen[o] \in Slices /\ Slot(o) \in Nat
      BY SliceOf DEF Slot
    <2>2. Resized(completedActions, Slot(o)) \in Slices /\ Resized(seen[o], Slot(o)) \in Slices
      BY <2>1, ResizedSlice
    <2>3. QED
      BY <1>3, <2>2 DEF StoreLength, Goto
  <1>4. ASSUME NEW o \in Owners, StoreElement(o), UNCHANGED <<reader, ended>> PROVE Types'
    <2>1. completedActions' \in Slices /\ <<>> \in Slices
      <3>1. job[o].id \in Actions
        BY <1>4 DEF StoreElement, Goto, JobInv
      <3>2. [k \in DOMAIN completedActions |->
               IF k = Slot(o) THEN job[o].id ELSE completedActions[k]]
              \in [1..Len(completedActions) -> Actions \union {Null}]
        BY <3>1, SliceOf
      <3>3. QED
        <4>1. Len(completedActions) \in Nat
          BY SliceOf
        <4>2. [k \in DOMAIN completedActions |->
               IF k = Slot(o) THEN job[o].id ELSE completedActions[k]] \in Slices
          BY <3>2, <4>1, FunctionIsSlice
        <4>3. <<>> \in Slices
          BY DEF Slices
        <4>4. QED
          BY <1>4, <4>2, <4>3 DEF StoreElement
    <2>2. QED
      BY <1>4, <2>1 DEF StoreElement, Goto
  <1>5. CASE Page /\ UNCHANGED <<manager, owners, overlapped, ended>>
    BY <1>5 DEF Page, CallLookup, ReadRunning, ReadCompleted, CallList, ListRunning
  <1>6. CASE MapRace \/ UNCHANGED vars
    BY <1>6 DEF MapRace, vars
  <1>7. QED
    BY <1>1, <1>2, <1>3, <1>4, <1>5, <1>6 DEF Next, Collect

LEMMA JobNext == Types /\ JobInv /\ [Next]_vars => JobInv'
  <1> SUFFICES ASSUME Types, JobInv, [Next]_vars PROVE JobInv'
    OBVIOUS
  <1> USE DEF JobInv, Busy, manager, owners, reader
  <1>1. ASSUME NEW o \in Owners, Use(o) \/ Work(o) PROVE JobInv'
    <2>1. CASE CallStart(o)
      BY <1>1, <2>1 DEF Types, CallStart, Goto
    <2>2. CASE CallLog(o) \/ CallComplete(o) \/ Return(o)
      BY <1>1, <2>2 DEF Types, CallLog, CallComplete, Return, Goto, NoJob
    <2>3. CASE StartAction(o)
      BY <1>1, <2>3 DEF Types, StartAction, Goto
    <2>4. CASE LogAction(o) \/ Find(o)
      BY <1>1, <2>4 DEF Types, LogAction, Find, Goto
    <2>5. CASE Remove(o)
      BY <1>1, <2>5 DEF Types, Remove, Goto
    <2>6. CASE Stamp(o)
      BY <1>1, <2>6 DEF Types, Stamp, Goto
    <2>7. CASE SetError(o)
      BY <1>1, <2>7 DEF Types, SetError, Goto
    <2>8. QED
      BY <1>1, <2>1, <2>2, <2>3, <2>4, <2>5, <2>6, <2>7 DEF Use, Work
  <1>2. ASSUME NEW o \in Owners, Collect(o) PROVE JobInv'
    BY <1>2 DEF Types, Collect, LoadSlice, StoreLength, StoreElement, Goto
  <1>3. CASE Page /\ UNCHANGED <<manager, owners, overlapped, ended>>
    BY <1>3
  <1>4. CASE MapRace \/ UNCHANGED vars
    BY <1>4 DEF MapRace, vars
  <1>5. QED
    BY <1>1, <1>2, <1>3, <1>4 DEF Next

\* The steps of an owner that do not append.
LEMMA Quiet ==
  ASSUME Types, JobInv, NEW o \in Owners, Use(o) \/ Work(o)
  PROVE  /\ UNCHANGED <<completedActions, seen>>
         /\ \A p \in Owners \ {o} : pc'[p] = pc[p] /\ job'[p] = job[p]
         /\ pc[o] \notin {"load", "length", "element"} /\ pc'[o] \notin {"length", "element"}
         /\ pc'[o] \in {"fault", "load"} => job'[o].id = job[o].id /\ pc[o] \in {"stamp", "fault"}
         /\ pc[o] = "fault" => pc'[o] = "load" /\ UNCHANGED finished
         /\ pc[o] = "stamp" => pc'[o] \in {"fault", "load"} /\ finished' = finished \union {job[o].id}
         /\ pc[o] \notin {"fault", "stamp"} => UNCHANGED finished
  <1> USE DEF Types, manager, Goto
  <1>1. CASE CallStart(o) \/ CallLog(o) \/ CallComplete(o) \/ Return(o)
    BY <1>1 DEF CallStart, CallLog, CallComplete, Return
  <1>2. CASE StartAction(o) \/ LogAction(o) \/ Remove(o)
    BY <1>2 DEF StartAction, LogAction, Remove
  <1>3. CASE Find(o)
    BY <1>3 DEF Find
  <1>4. CASE Stamp(o)
    BY <1>4 DEF Stamp
  <1>5. CASE SetError(o)
    BY <1>5 DEF SetError
  <1>6. QED
    BY <1>1, <1>2, <1>3, <1>4, <1>5 DEF Use, Work

\* The steps of an owner that append.
LEMMA Loud ==
  ASSUME Types, JobInv, NEW o \in Owners, Collect(o)
  PROVE  /\ \A p \in Owners \ {o} : pc'[p] = pc[p] /\ job'[p] = job[p]
         /\ UNCHANGED <<started, runningActions, finished, failed, job>>
         /\ \A p \in Owners \ {o} : seen'[p] = seen[p]
         /\ job[o].id \in finished
         /\ LoadSlice(o) => pc[o] = "load" /\ pc'[o] = "length" /\ seen'[o] = completedActions
                            /\ UNCHANGED completedActions
         /\ StoreLength(o) => pc[o] = "length" /\ pc'[o] = "element" /\ UNCHANGED <<seen, overlapped>>
         /\ StoreElement(o) => pc[o] = "element" /\ pc'[o] = "own" /\ seen'[o] = <<>> /\ UNCHANGED overlapped
  BY DEF Types, JobInv, Collect, LoadSlice, StoreLength, StoreElement, Goto, manager

LEMMA SliceNext == Types /\ JobInv /\ SliceInv /\ [Next]_vars => SliceInv'
  <1> SUFFICES ASSUME Types, JobInv, SliceInv, [Next]_vars PROVE SliceInv'
    OBVIOUS
  <1>1. ASSUME NEW o \in Owners, Use(o) \/ Work(o) PROVE SliceInv'
    <2>1. finished \subseteq finished' /\ Pending' \intersect finished \subseteq Pending
      BY <1>1, Quiet DEF Pending, JobInv
    <2>2. QED
      BY <1>1, <2>1, Quiet DEF SliceInv, Proper
  <1>2. ASSUME NEW o \in Owners, Collect(o) PROVE SliceInv'
    <2>1. Pending' \subseteq Pending /\ job[o].id \in Pending \intersect finished /\ UNCHANGED finished
      BY <1>2, Loud DEF Pending, Collect
    <2>2. ASSUME NEW s, Proper(s) PROVE Proper(s)'
      BY <2>1, <2>2 DEF Proper
    <2>3. CASE LoadSlice(o)
      BY <1>2, <2>2, <2>3, Loud DEF SliceInv
    <2>4. CASE StoreLength(o)
      <3>1. PICK array \in {completedActions, seen[o]} : completedActions' = Resized(array, Slot(o))
        BY <2>4 DEF StoreLength
      <3>2. array \in Slices /\ Proper(array) /\ Slot(o) \in Nat
        BY SliceOf DEF Types, SliceInv, Slot
      <3>3. Proper(Resized(array, Slot(o)))
        BY <3>2, ResizedKeeps DEF Proper
      <3>4. QED
        BY <1>2, <2>1, <2>4, <3>1, <3>3, Loud DEF SliceInv, Proper
    <2>5. CASE StoreElement(o)
      <3> DEFINE placed == [k \in DOMAIN completedActions |->
                              IF k = Slot(o) THEN job[o].id ELSE completedActions[k]]
      <3>1. job[o].id \in Actions /\ job[o].id \notin In(completedActions)
        BY <2>1 DEF Types, SliceInv, Proper
      <3>2. In(placed) \subseteq In(completedActions) \union {job[o].id} /\ Distinct(placed)
        <4>1. completedActions \in Slices /\ Distinct(completedActions)
          BY DEF Types, SliceInv, Proper
        <4>2. /\ placed \in [DOMAIN completedActions -> Actions \union {Null}]
              /\ \A k \in DOMAIN completedActions :
                   placed[k] = IF k = Slot(o) THEN job[o].id ELSE completedActions[k]
          BY <3>1, <4>1, SliceOf
        <4>3. Slot(o) \in Nat
          BY SliceOf DEF Slot, Types
        <4> HIDE DEF placed
        <4>4. QED
          BY <3>1, <4>1, <4>2, <4>3, PlacedKeeps
      <3>3. job[o].id \notin Pending'
        BY <1>2, <2>5, Loud DEF Pending, JobInv, Busy
      <3>4. completedActions' = placed \/ UNCHANGED completedActions
        BY <2>5 DEF StoreElement
      <3> HIDE DEF placed
      <3>5. Proper(completedActions)'
        BY <2>1, <3>2, <3>3, <3>4 DEF SliceInv, Proper
      <3>6. In(<<>>) = {} /\ Distinct(<<>>)
        BY DEF In, Distinct
      <3>7. QED
        BY <1>2, <2>1, <2>5, <3>5, <3>6, Loud DEF SliceInv, Proper
    <2>6. QED
      BY <1>2, <2>3, <2>4, <2>5 DEF Collect
  <1>3. CASE Page /\ UNCHANGED <<manager, owners, overlapped, ended>>
    BY <1>3 DEF manager, owners, SliceInv, Proper, Pending
  <1>4. CASE MapRace \/ UNCHANGED vars
    BY <1>4 DEF MapRace, vars, manager, owners, SliceInv, Proper, Pending
  <1>5. QED
    BY <1>1, <1>2, <1>3, <1>4 DEF Next

\* More appends have begun, and an owner gets a slot when it begins one.
LEMMA LengthNext == Types /\ JobInv /\ LengthInv /\ [Next]_vars => LengthInv'
  <1> SUFFICES ASSUME Types, JobInv, LengthInv, [Next]_vars PROVE LengthInv'
    OBVIOUS
  <1>1. Types' /\ IsFiniteSet(Begun) /\ IsFiniteSet(Begun')
    <2>1. Types'
      BY TypesNext
    <2>2. Begun \in SUBSET Actions /\ Begun' \in SUBSET Actions
      BY <2>1 DEF Begun, Types
    <2>3. QED
      BY <2>1, <2>2, FS_Subset, ActionAssumption
  <1>2. Cardinality(Begun) \in Nat /\ Cardinality(Begun') \in Nat
    BY <1>1, FS_CardinalityType
  <1>3. ASSUME Begun \subseteq Begun' PROVE Cardinality(Begun) <= Cardinality(Begun')
    BY <1>1, <1>3, FS_Subset
  <1>4. /\ Len(completedActions) \in Nat /\ Len(completedActions') \in Nat
        /\ \A o \in Owners : Slot(o) \in Nat /\ Slot(o)' \in Nat
    BY <1>1, SliceOf DEF Types, Slot
  <1>5. ASSUME NEW o \in Owners, Use(o) \/ Work(o) PROVE LengthInv'
    <2>1. Begun \subseteq Begun'
      BY <1>5, Quiet DEF Begun, Waiting, JobInv, Busy
    <2>2. \A p \in Owners : Appending(p)' = Appending(p) /\ Slot(p)' = Slot(p)
      BY <1>5, Quiet DEF Appending, Slot
    <2>3. QED
      BY <1>2, <1>3, <1>4, <1>5, <2>1, <2>2, Quiet DEF LengthInv
  <1>6. ASSUME NEW o \in Owners, Collect(o) PROVE LengthInv'
    <2>1. Begun \subseteq Begun' /\ Cardinality(Begun) <= Cardinality(Begun')
      BY <1>3, <1>6, Loud DEF Begun, Waiting, Collect
    <2>2. \A p \in Owners \ {o} : Appending(p)' = Appending(p) /\ Slot(p)' = Slot(p)
      BY <1>6, Loud DEF Appending, Slot
    <2>3. CASE LoadSlice(o)
      <3>1. Begun' = Begun \union {job[o].id} /\ job[o].id \notin Begun
        BY <1>6, <2>3, Loud DEF Begun, Waiting, JobInv, Busy
      <3>2. Cardinality(Begun') = Cardinality(Begun) + 1
        BY <1>1, <3>1, FS_AddElement
      <3>3. Slot(o)' = Len(completedActions) + 1 /\ UNCHANGED completedActions
        BY <1>6, <2>3, Loud DEF Slot
      <3>4. QED
        BY <1>2, <1>4, <2>1, <2>2, <3>2, <3>3 DEF LengthInv
    <2>4. CASE StoreLength(o)
      <3>1. Len(completedActions') = Slot(o)
        <4>1. PICK array \in {completedActions, seen[o]} : completedActions' = Resized(array, Slot(o))
          BY <2>4 DEF StoreLength
        <4>2. array \in Slices /\ Slot(o) \in Nat
          BY <1>4 DEF Types
        <4>3. QED
          BY <4>1, <4>2, ResizedSlice
      <3>2. Appending(o) /\ Slot(o)' = Slot(o)
        BY <1>6, <2>4, Loud DEF Appending, Slot
      <3>3. QED
        BY <1>2, <1>4, <2>1, <2>2, <3>1, <3>2 DEF LengthInv
    <2>5. CASE StoreElement(o)
      <3>1. Len(completedActions') = Len(completedActions)
        <4>1. completedActions' \in [1..Len(completedActions) -> Actions \union {Null}] \/ UNCHANGED completedActions
          BY <1>1, <2>5, SliceOf DEF StoreElement, Types
        <4>2. QED
          BY <1>4, <4>1, FunctionIsSlice
      <3>2. ~Appending(o)'
        BY <1>6, <2>5, Loud DEF Appending
      <3>3. QED
        BY <1>2, <1>4, <2>1, <2>2, <3>1, <3>2 DEF LengthInv
    <2>6. QED
      BY <1>6, <2>3, <2>4, <2>5 DEF Collect
  <1>7. CASE Page /\ UNCHANGED <<manager, owners, overlapped, ended>>
    BY <1>7 DEF manager, owners, LengthInv, Begun, Waiting, Appending, Slot
  <1>8. CASE MapRace \/ UNCHANGED vars
    BY <1>8 DEF MapRace, vars, manager, owners, LengthInv, Begun, Waiting, Appending, Slot
  <1>9. QED
    BY <1>5, <1>6, <1>7, <1>8 DEF Next

\* The two stores leave every action alone whose append did not overlap.
LEMMA StoreLengthKeeps ==
  ASSUME Types, JobInv, OverlapInv, NEW o \in Owners, StoreLength(o)
  PROVE  /\ \A a \in Actions \ overlapped : \A k \in Nat :
              Holds(completedActions', k, a) <=> Holds(completedActions, k, a)
         /\ DOMAIN completedActions' = 1..Slot(o)
  <1>1. /\ completedActions \in Slices /\ seen[o] \in Slices
        /\ Slot(o) \in Nat /\ Slot(o) = Len(seen[o]) + 1 /\ Len(seen[o]) \in Nat
        /\ DOMAIN seen[o] = 1..Len(seen[o])
    BY SliceOf DEF Types, Slot
  <1>2. Agrees(o)
    BY DEF OverlapInv, Appending, StoreLength, Goto
  <1>3. PICK array \in {completedActions, seen[o]} : completedActions' = Resized(array, Slot(o))
    BY DEF StoreLength
  <1>4. array \in Slices /\ DOMAIN array = 1..Len(array) /\ Len(array) \in Nat
    BY <1>1, <1>3, SliceOf
  <1>5. /\ DOMAIN completedActions' = 1..Slot(o)
        /\ \A k \in 1..Slot(o) : completedActions'[k] = IF k \in 1..Len(array) THEN array[k] ELSE Null
    BY <1>1, <1>3, <1>4, ResizedSlice
  <1>6. ASSUME NEW a \in Actions \ overlapped, NEW k \in Nat
        PROVE  Holds(completedActions', k, a) <=> Holds(completedActions, k, a)
    <2>1. Holds(seen[o], k, a) <=> Holds(completedActions, k, a)
      BY <1>2 DEF Agrees
    <2>2. Holds(array, k, a) <=> Holds(completedActions, k, a)
      BY <1>3, <2>1
    <2>3. Holds(array, k, a) => k \in 1..Slot(o)
      BY <1>1, <2>1, <2>2 DEF Holds
    <2>4. Holds(completedActions', k, a) <=> Holds(array, k, a)
      BY <1>4, <1>5, <2>3, ActionAssumption DEF Holds
    <2>5. QED
      BY <2>2, <2>4
  <1>7. QED
    BY <1>5, <1>6

LEMMA StoreElementKeeps ==
  ASSUME Types, JobInv, OverlapInv, NEW o \in Owners, StoreElement(o)
  PROVE  /\ \A a \in (Actions \ overlapped) \ {job[o].id} : \A k \in Nat :
              Holds(completedActions', k, a) <=> Holds(completedActions, k, a)
         /\ DOMAIN completedActions' = DOMAIN completedActions
         /\ job[o].id \notin overlapped =>
              /\ Holds(completedActions', Slot(o), job[o].id)
              /\ \A k \in DOMAIN completedActions : k # Slot(o) => completedActions'[k] = completedActions[k]
  <1>1. /\ Slot(o) = Len(seen[o]) + 1 /\ Len(seen[o]) \in Nat
        /\ DOMAIN seen[o] = 1..Len(seen[o])
    BY SliceOf DEF Types, Slot
  <1>2. Agrees(o) /\ (job[o].id \notin overlapped => Slot(o) \in DOMAIN completedActions)
    BY DEF OverlapInv, Appending, StoreElement, Goto
  <1>3. \/ /\ DOMAIN completedActions' = DOMAIN completedActions
           /\ \A k \in DOMAIN completedActions :
                completedActions'[k] = IF k = Slot(o) THEN job[o].id ELSE completedActions[k]
        \/ job[o].id \in overlapped /\ UNCHANGED completedActions
    BY DEF StoreElement
  <1>4. ASSUME NEW a \in (Actions \ overlapped) \ {job[o].id}, NEW k \in Nat
        PROVE  Holds(completedActions', k, a) <=> Holds(completedActions, k, a)
    <2>1. Holds(completedActions, k, a) => k # Slot(o)
      BY <1>1, <1>2 DEF Agrees, Holds
    <2>2. QED
      BY <1>3, <2>1 DEF Holds
  <1>5. QED
    BY <1>2, <1>3, <1>4 DEF Holds

LEMMA OverlapNext == Types /\ JobInv /\ OverlapInv /\ [Next]_vars => OverlapInv'
  <1> SUFFICES ASSUME Types, JobInv, OverlapInv, [Next]_vars PROVE OverlapInv'
    OBVIOUS
  <1>1. ASSUME NEW o \in Owners, Use(o) \/ Work(o), UNCHANGED overlapped PROVE OverlapInv'
    BY <1>1, Quiet DEF OverlapInv, Agrees, Appending, Slot
  <1>2. ASSUME NEW o \in Owners, Collect(o) PROVE OverlapInv'
    <2>1. \A p \in Owners \ {o} : Appending(p)' = Appending(p) /\ Slot(p)' = Slot(p)
      BY <1>2, Loud DEF Appending, Slot
    <2>2. CASE LoadSlice(o)
      <3>1. overlapped \subseteq overlapped'
        BY <2>2 DEF LoadSlice
      <3>2. ASSUME NEW p \in Owners \ {o}, Appending(p)
            PROVE  job[p].id \in overlapped' /\ job[o].id \in overlapped'
        BY <2>2, <3>2 DEF LoadSlice
      <3>3. QED
        BY <1>2, <2>1, <2>2, <3>1, <3>2, Loud DEF OverlapInv, Agrees, Appending, Slot
    <2>3. CASE StoreLength(o)
      <3>1. Appending(o) /\ pc'[o] = "element" /\ UNCHANGED <<seen, overlapped, job>> /\ Slot(o)' = Slot(o)
        BY <1>2, <2>3, Loud DEF Appending, Slot
      <3>2. ASSUME NEW p \in Owners, Appending(p) PROVE Agrees(p)'
        BY <2>3, <3>1, <3>2, StoreLengthKeeps DEF OverlapInv, Agrees
      <3>3. Slot(o) \in DOMAIN completedActions'
        BY <2>3, StoreLengthKeeps, SliceOf DEF Types, Slot
      <3>4. QED
        BY <1>2, <2>1, <2>3, <3>1, <3>2, <3>3, Loud DEF OverlapInv, Appending
    <2>4. CASE StoreElement(o)
      <3>1. Appending(o) /\ ~Appending(o)' /\ UNCHANGED <<overlapped, job>>
        BY <1>2, <2>4, Loud DEF Appending
      <3>2. ASSUME NEW p \in Owners \ {o}, Appending(p)
            PROVE  Agrees(p)' /\ job[p].id \in overlapped
        <4>1. job[p].id \in overlapped /\ job[o].id \in overlapped
          BY <3>1, <3>2 DEF OverlapInv
        <4>2. QED
          BY <1>2, <2>4, <3>1, <3>2, <4>1, StoreElementKeeps, Loud DEF OverlapInv, Agrees
      <3>3. QED
        BY <1>2, <2>1, <3>1, <3>2 DEF OverlapInv
    <2>5. QED
      BY <1>2, <2>2, <2>3, <2>4 DEF Collect
  <1>3. CASE Page /\ UNCHANGED <<manager, owners, overlapped, ended>>
    BY <1>3 DEF manager, owners, OverlapInv, Agrees, Appending, Slot
  <1>4. CASE MapRace \/ UNCHANGED vars
    BY <1>4 DEF MapRace, vars, manager, owners, OverlapInv, Agrees, Appending, Slot
  <1>5. QED
    BY <1>1, <1>2, <1>3, <1>4 DEF Next

LEMMA HoleNext ==
  Types /\ JobInv /\ OverlapInv /\ HoleInv /\ [Next]_vars => HoleInv'
  <1> SUFFICES ASSUME Types, JobInv, OverlapInv, HoleInv, [Next]_vars PROVE HoleInv'
    OBVIOUS
  <1>1. ASSUME NEW o \in Owners, Use(o) \/ Work(o), UNCHANGED overlapped PROVE HoleInv'
    BY <1>1, Quiet DEF HoleInv, Slot
  <1>2. ASSUME NEW o \in Owners, Collect(o), overlapped' = {} PROVE HoleInv'
    <2>1. overlapped = {}
      BY <1>2 DEF Collect, LoadSlice, StoreLength, StoreElement
    <2>2. /\ \A k \in DOMAIN completedActions :
               completedActions[k] = Null => \E p \in Owners : pc[p] = "element" /\ Slot(p) = k
          /\ \A p \in Owners : \A k \in DOMAIN seen[p] : seen[p][k] # Null
      BY <2>1 DEF HoleInv
    <2>3. ASSUME NEW p \in Owners \ {o} PROVE ~Appending(p)
      <3>1. CASE LoadSlice(o)
        BY <1>2, <2>1, <2>3, <3>1 DEF LoadSlice
      <3>2. CASE StoreLength(o) \/ StoreElement(o)
        BY <1>2, <2>1, <2>3, <3>2, Loud DEF OverlapInv, Appending
      <3>3. QED
        BY <1>2, <3>1, <3>2 DEF Collect
    <2>4. \A k \in DOMAIN completedActions : completedActions[k] = Null => pc[o] = "element" /\ Slot(o) = k
      BY <2>2, <2>3 DEF Appending
    <2>5. CASE LoadSlice(o)
      BY <1>2, <2>2, <2>4, <2>5, Loud DEF HoleInv
    <2>6. CASE StoreLength(o)
      <3>1. pc[o] = "length" /\ pc'[o] = "element" /\ UNCHANGED seen /\ Slot(o)' = Slot(o)
        BY <1>2, <2>6, Loud DEF Slot
      <3>2. /\ Slot(o) = Len(seen[o]) + 1 /\ Len(seen[o]) \in Nat
            /\ DOMAIN seen[o] = 1..Len(seen[o])
            /\ completedActions \in Slices /\ seen[o] \in Slices
            /\ \A k \in 1..Len(seen[o]) : seen[o][k] \in Actions
        BY <2>2, SliceOf DEF Types, Slot
      <3>3. DOMAIN completedActions' = 1..Slot(o)
        BY <2>6, StoreLengthKeeps
      <3>4. ASSUME NEW k \in 1..Slot(o), k # Slot(o) PROVE completedActions'[k] # Null
        <4>1. k \in Nat /\ k \in DOMAIN seen[o] /\ seen[o][k] \in Actions
          BY <3>2, <3>4
        <4>2. Holds(completedActions, k, seen[o][k])
          BY <2>1, <3>1, <4>1 DEF OverlapInv, Appending, Agrees, Holds
        <4>3. Holds(completedActions', k, seen[o][k])
          BY <2>1, <2>6, <4>1, <4>2, StoreLengthKeeps
        <4>4. QED
          BY <4>1, <4>3, ActionAssumption DEF Holds
      <3>5. QED
        BY <2>2, <3>1, <3>3, <3>4 DEF HoleInv
    <2>7. CASE StoreElement(o)
      <3>1. seen'[o] = <<>> /\ \A p \in Owners \ {o} : seen'[p] = seen[p]
        BY <1>2, <2>7, Loud
      <3>2. /\ DOMAIN completedActions' = DOMAIN completedActions
            /\ completedActions'[Slot(o)] = job[o].id
            /\ \A k \in DOMAIN completedActions : k # Slot(o) => completedActions'[k] = completedActions[k]
        BY <2>1, <2>7, StoreElementKeeps DEF Holds
      <3>3. job[o].id # Null
        BY <1>2, Loud, ActionAssumption DEF Types
      <3>4. QED
        BY <2>2, <2>4, <3>1, <3>2, <3>3 DEF HoleInv
    <2>8. QED
      BY <1>2, <2>5, <2>6, <2>7 DEF Collect
  <1>3. CASE Page /\ UNCHANGED <<manager, owners, overlapped, ended>>
    BY <1>3 DEF manager, owners, HoleInv, Slot
  <1>4. CASE MapRace \/ UNCHANGED vars
    BY <1>4 DEF MapRace, vars, manager, owners, HoleInv, Slot
  <1>5. ASSUME NEW o \in Owners, Collect(o) PROVE HoleInv'
    BY <1>2, <1>5 DEF HoleInv
  <1>6. QED
    BY <1>1, <1>3, <1>4, <1>5 DEF Next

LEMMA LostNext ==
  Types /\ JobInv /\ OverlapInv /\ LostOnlyByOverlap /\ [Next]_vars => LostOnlyByOverlap'
  <1> SUFFICES ASSUME Types, JobInv, OverlapInv, LostOnlyByOverlap, [Next]_vars
               PROVE  LostOnlyByOverlap'
    OBVIOUS
  <1> DEFINE Kept(a) == \/ a \in runningActions \/ a \in Listed \/ a \in overlapped
                        \/ \E o \in Owners : job[o].id = a /\ Between(o)
  <1>1. ASSUME NEW o \in Owners, Use(o) \/ Work(o), UNCHANGED overlapped PROVE LostOnlyByOverlap'
    <2>1. UNCHANGED Listed /\ \A p \in Owners \ {o} : Between(p)' = Between(p) /\ job'[p] = job[p]
      BY <1>1, Quiet DEF Listed, Between
    <2> USE <1>1 DEF LostOnlyByOverlap, Between, Types, Goto, manager
    <2>2. CASE CallStart(o)
      BY <2>1, <2>2 DEF CallStart
    <2>3. CASE CallLog(o) \/ CallComplete(o) \/ Return(o)
      BY <2>1, <2>3 DEF CallLog, CallComplete, Return
    <2>4. CASE StartAction(o)
      BY <2>1, <2>4 DEF StartAction
    <2>5. CASE LogAction(o) \/ Find(o)
      BY <2>1, <2>5 DEF LogAction, Find
    <2>6. CASE Remove(o)
      BY <2>1, <2>6 DEF Remove
    <2>7. CASE Stamp(o)
      BY <2>1, <2>7 DEF Stamp
    <2>8. CASE SetError(o)
      BY <2>1, <2>8 DEF SetError
    <2>9. QED
      BY <2>2, <2>3, <2>4, <2>5, <2>6, <2>7, <2>8 DEF Use, Work
  <1>2. ASSUME NEW o \in Owners, Collect(o) PROVE LostOnlyByOverlap'
    <2>1. /\ UNCHANGED <<started, runningActions, job>>
          /\ \A p \in Owners \ {o} : Between(p)' = Between(p)
      BY <1>2, Loud DEF Between
    <2>2. \A a : a \in Listed <=> a # Null /\ \E k \in Nat : Holds(completedActions, k, a)
      BY SliceOf DEF Listed, Holds, Types
    <2>3. \A a : a \in Listed' <=> a # Null /\ \E k \in Nat : Holds(completedActions', k, a)
      BY TypesNext, SliceOf DEF Listed, Holds, Types
    <2>4. CASE LoadSlice(o)
      <3>1. UNCHANGED Listed /\ overlapped \subseteq overlapped' /\ Between(o)'
        <4>1. UNCHANGED completedActions /\ pc'[o] = "length"
          BY <1>2, <2>4, Loud
        <4>2. overlapped \subseteq overlapped'
          BY <2>4 DEF LoadSlice
        <4>3. QED
          BY <4>1, <4>2 DEF Listed, Between
      <3>2. QED
        BY <2>1, <3>1 DEF LostOnlyByOverlap
    <2>5. CASE StoreLength(o)
      <3>1. UNCHANGED overlapped /\ Between(o)'
        BY <1>2, <2>5, Loud DEF Between
      <3>2. \A a \in (Actions \ overlapped) \intersect Listed : a \in Listed'
        BY <2>2, <2>3, <2>5, StoreLengthKeeps
      <3>3. QED
        BY <2>1, <3>1, <3>2 DEF LostOnlyByOverlap, Types
    <2>6. CASE StoreElement(o)
      <3>1. UNCHANGED overlapped /\ job[o].id \in Actions
        BY <1>2, <2>6, Loud DEF Types
      <3>2. \A a \in ((Actions \ overlapped) \ {job[o].id}) \intersect Listed : a \in Listed'
        <4>1. \A a \in (Actions \ overlapped) \ {job[o].id} : \A k \in Nat :
                Holds(completedActions', k, a) <=> Holds(completedActions, k, a)
          BY <2>6, StoreElementKeeps
        <4>2. QED
          BY <2>2, <2>3, <4>1
      <3>3. job[o].id \in overlapped \union Listed'
        <4>1. Slot(o) \in Nat
          BY SliceOf DEF Types, Slot
        <4>2. QED
          BY <2>3, <2>6, <3>1, <4>1, StoreElementKeeps, ActionAssumption
      <3>4. QED
        BY <2>1, <3>1, <3>2, <3>3 DEF LostOnlyByOverlap, Types
    <2>7. QED
      BY <1>2, <2>4, <2>5, <2>6 DEF Collect
  <1>3. CASE Page /\ UNCHANGED <<manager, owners, overlapped, ended>>
    BY <1>3 DEF manager, owners, LostOnlyByOverlap, Listed, Between
  <1>4. CASE MapRace \/ UNCHANGED vars
    BY <1>4 DEF MapRace, vars, manager, owners, LostOnlyByOverlap, Listed, Between
  <1>5. QED
    BY <1>1, <1>2, <1>3, <1>4 DEF Next

LEMMA PageNext == Types /\ JobInv /\ PageInv /\ [Next]_vars => PageInv'
  <1> SUFFICES ASSUME Types, JobInv, PageInv, [Next]_vars PROVE PageInv'
    OBVIOUS
  <1>1. ASSUME NEW o \in Owners, Use(o) \/ Work(o), UNCHANGED reader PROVE PageInv'
    <2> USE <1>1 DEF PageInv, Types, Goto, manager, reader
    <2>1. CASE CallStart(o)
      BY <2>1 DEF CallStart
    <2>2. CASE CallLog(o) \/ CallComplete(o) \/ Return(o)
      BY <2>2 DEF CallLog, CallComplete, Return
    <2>3. CASE StartAction(o)
      BY <2>3 DEF StartAction
    <2>4. CASE LogAction(o) \/ Find(o)
      BY <2>4 DEF LogAction, Find
    <2>5. CASE Remove(o) \/ Stamp(o) \/ SetError(o)
      BY <2>5 DEF Remove, Stamp, SetError
    <2>6. QED
      BY <2>1, <2>2, <2>3, <2>4, <2>5 DEF Use, Work
  <1>2. ASSUME NEW o \in Owners, Collect(o), UNCHANGED reader PROVE PageInv'
    BY <1>2, Loud DEF PageInv, reader, Collect
  <1>3. CASE Page /\ UNCHANGED <<manager, owners, overlapped, ended>>
    BY <1>3 DEF manager, owners, PageInv, Page, CallLookup, ReadRunning, ReadCompleted, CallList,
         ListRunning, Types, JobInv, Busy
  <1>4. CASE MapRace \/ UNCHANGED vars
    BY <1>4 DEF MapRace, vars, manager, owners, reader, PageInv
  <1>5. QED
    BY <1>1, <1>2, <1>3, <1>4 DEF Next
-----------------------------------------------------------------------------
(***************************************************************************)
(* The theorems.                                                           *)
(***************************************************************************)
IInv ==
  /\ Types /\ JobInv /\ SliceInv /\ LengthInv
  /\ OverlapInv /\ HoleInv /\ LostOnlyByOverlap /\ PageInv

LEMMA InvInit == Init => IInv
  <1> SUFFICES ASSUME Init PROVE IInv
    OBVIOUS
  <1>1. Types
    BY TypesInit
  <1>2. JobInv
    BY DEF Init, JobInv, Busy
  <1>3. SliceInv
    BY DEF Init, SliceInv, Proper, In, Distinct
  <1>4. LengthInv
    <2>1. Begun = {}
      BY DEF Init, Begun
    <2>2. QED
      BY <2>1, FS_EmptySet DEF Init, LengthInv, Appending
  <1>5. OverlapInv /\ HoleInv /\ LostOnlyByOverlap /\ PageInv
    BY DEF Init, OverlapInv, Appending, HoleInv, LostOnlyByOverlap, PageInv
  <1>6. QED
    BY <1>1, <1>2, <1>3, <1>4, <1>5 DEF IInv

LEMMA InvNext == IInv /\ [Next]_vars => IInv'
  BY TypesNext, JobNext, SliceNext, LengthNext, OverlapNext, HoleNext, LostNext, PageNext DEF IInv

LEMMA Invariant == Spec => []IInv
  BY InvInit, InvNext, PTL DEF Spec

\* The variables have their types, and the slice of completed actions is never
\* longer than there are finished ones.
THEOREM TypeCorrect == Spec => []TypeOK
  <1>1. IInv => TypeOK
    <2> SUFFICES ASSUME IInv PROVE TypeOK
      OBVIOUS
    <2>1. IsFiniteSet(finished) /\ Begun \in SUBSET finished
      BY FS_Subset, ActionAssumption DEF IInv, Types, Begun
    <2>2. Cardinality(Begun) <= Cardinality(finished)
      BY <2>1, FS_Subset
    <2>3. Cardinality(Begun) \in Nat /\ Cardinality(finished) \in Nat /\ Len(completedActions) \in Nat
      BY <2>1, FS_Subset, FS_CardinalityType, SliceOf DEF IInv, Types
    <2>4. Len(completedActions) <= Cardinality(finished)
      BY <2>2, <2>3 DEF IInv, LengthInv
    <2>5. QED
      BY <2>4 DEF TypeOK, IInv, Types, Slices
  <1>2. QED
    BY <1>1, Invariant, PTL

\* An action is never listed twice, whatever the goroutines do to the two
\* collections at the same time.
THEOREM NothingListedTwice == Spec => []ListedOnce
  <1>1. IInv => ListedOnce
    BY DEF IInv, ListedOnce, Listed, SliceInv, Proper, In, Distinct, JobInv
  <1>2. QED
    BY <1>1, Invariant, PTL

\* Only an append that overlapped another one loses its action.
THEOREM OnlyOverlapsLose == Spec => []LostOnlyByOverlap
  <1>1. IInv => LostOnlyByOverlap
    BY DEF IInv
  <1>2. QED
    BY <1>1, Invariant, PTL

\* The status of an action in the list of completed ones does not change.
THEOREM ListedStatusIsFinal == Spec => ListedIsFinal
  <1>1. IInv /\ [Next]_vars => [\A a \in Listed : Status(a) # "RUNNING" /\ Status(a)' = Status(a)]_vars
    <2> SUFFICES ASSUME IInv, [Next]_vars, NEW a \in Listed
                 PROVE  Status(a) # "RUNNING" /\ Status(a)' = Status(a)
      OBVIOUS
    <2>1. a \in finished \ Pending
      BY DEF IInv, SliceInv, Proper, In, Listed
    <2>2. finished \subseteq finished' /\ (a \in failed' <=> a \in failed)
      <3>1. ASSUME NEW o \in Owners, Use(o) \/ Work(o)
            PROVE  finished \subseteq finished' /\ (a \in failed' <=> a \in failed)
        <4>1. CASE SetError(o)
          BY <2>1, <4>1 DEF SetError, Goto, Pending
        <4>2. CASE ~SetError(o)
          BY <3>1, <4>2 DEF Use, Work, CallStart, CallLog, CallComplete, Return, StartAction, LogAction,
               Find, Remove, Stamp, manager
        <4>3. QED
          BY <4>1, <4>2
      <3>2. ASSUME NEW o \in Owners, Collect(o) PROVE UNCHANGED <<finished, failed>>
        BY <3>2, Loud DEF IInv
      <3>3. QED
        BY <3>1, <3>2 DEF Next, manager, MapRace, vars
    <2>3. QED
      BY <2>1, <2>2 DEF Status
  <1>2. QED
    BY <1>1, Invariant, PTL DEF Spec, ListedIsFinal

\* A page finds what it looks up and does not panic, but for actions that are
\* moving and appends that overlap.
THEOREM LookupsSucceed == Spec => LookupFinds
  <1> DEFINE Step ==
        /\ page # "idle" /\ answer' = "nil" =>
             asked \in overlapped \/ \E o \in Owners : job[o].id = asked /\ Between(o)
        /\ page # "idle" /\ answer' = "panic" =>
             overlapped # {} \/ \E o \in Owners : pc[o] = "element"
  <1>1. ASSUME IInv, [Next]_vars PROVE Step
    <2>1. CASE ReadCompleted
      <3>1. /\ page = "completed" /\ asked \in started /\ asked \in Actions
            /\ asked \notin runningActions
        BY <1>1, <2>1 DEF ReadCompleted, IInv, PageInv, Types
      <3>2. ASSUME answer' = "nil" PROVE asked \notin Listed
        BY <2>1, <3>2 DEF ReadCompleted, Listed
      <3>3. asked \in Listed \/ asked \in overlapped \/ \E o \in Owners : job[o].id = asked /\ Between(o)
        BY <1>1, <3>1 DEF IInv, LostOnlyByOverlap
      <3>4. ASSUME answer' = "panic" PROVE \E k \in DOMAIN completedActions : completedActions[k] = Null
        BY <2>1, <3>4 DEF ReadCompleted
      <3>5. QED
        BY <1>1, <3>2, <3>3, <3>4 DEF IInv, HoleInv
    <2>2. CASE Page /\ ~ReadCompleted
      BY <1>1, <2>2 DEF Page, CallLookup, ReadRunning, CallList, ListRunning, IInv, PageInv
    <2>3. CASE UNCHANGED answer
      BY <1>1, <2>3 DEF IInv, PageInv
    <2>4. QED
      BY <1>1, <2>1, <2>2, <2>3 DEF Next, reader, MapRace, vars
  <1>2. QED
    BY <1>1, Invariant, PTL DEF Spec, LookupFinds
=============================================================================
