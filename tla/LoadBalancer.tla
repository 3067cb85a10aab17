---------------------------- MODULE LoadBalancer ----------------------------
(***************************************************************************)
(* internal/loadbalance/loadbalance.go.                                    *)
(*                                                                         *)
(* One goroutine, Run, owns the list of workers in rotation.  It publishes *)
(* the list as a Go slice in an atomic.Value; every proxied request calls  *)
(* Next(), which loads the slice and indexes it without a lock.  A slice   *)
(* is a header (backing array, length): append and slices.Delete write the *)
(* backing array that earlier headers still point to, so the reads of a    *)
(* call and the writes of Run are modelled one memory access at a time.    *)
(***************************************************************************)
EXTENDS Naturals, Sequences

CONSTANTS
  Worker,     \* the workers the manager created
  Caller,     \* goroutines that call Next(), one per proxied request
  Nil,        \* the nil worker.Worker: both words of the interface are zero
  Half,       \* a worker.Worker whose type word is set and whose data word is nil
  IndexLimit  \* nextIndex is counted modulo this: 2^64 in the code

ASSUME LBAssumption ==
  /\ Nil \notin Worker /\ Half \notin Worker /\ Nil # Half
  /\ IndexLimit \in Nat \ {0}

VARIABLES
  arrays,     \* the backing arrays, in the order of their allocation
  slice,      \* the header in lb.workers: [arr |-> index in arrays, len |-> length]
  names,      \* the keys of lb.workerNames
  nextIndex,
  pc,         \* where Run is: "select", inside onAddWorker or onRemoveWorker, "stopped"
  cur,        \* the worker being added or removed
  hole,       \* slices.Delete: the slot it overwrites next
  step,       \* step[c]: where c's call of Next() is
  view,       \* view[c]: the header c's call loaded
  pos,        \* pos[c]: the slot c's call reads
  pick,       \* pick[c]: what c's latest call returned, nil until it has
  candidates, \* history: the workers in rotation at some moment of c's call
  wasEmpty,   \* history: at some moment of c's call no worker was staying in rotation
  turn        \* history: the slots handed out in the current round of the rotation

runVars  == <<arrays, slice, names, pc, cur, hole>>
callVars == <<nextIndex, step, view, pos, pick>>
histVars == <<candidates, wasEmpty, turn>>
vars     == <<runVars, callVars, histVars>>

Slot   == Worker \cup {Nil}
Header == [arr : Nat \ {0}, len : Nat]

Array == arrays[slice.arr]

\* The local variables of a call of Next() before it begins and after it ends.
NoView == [arr |-> 1, len |-> 0]

\* The workers in rotation: workerNames, and the worker append has just written.
InRotation == names \cup (IF pc = "addStore" THEN {cur} ELSE {})

Removing == pc \in {"shift", "removeStore"}

\* The workers in rotation that Run is not taking out.
Staying == names \ (IF Removing THEN {cur} ELSE {})

Calling == {c \in Caller : step[c] # "idle"}

-----------------------------------------------------------------------------
Init ==
  /\ arrays = << <<>> >>
  /\ slice = [arr |-> 1, len |-> 0]
  /\ names = {}
  /\ nextIndex = 0
  /\ pc = "select"
  /\ cur = Nil
  /\ hole = 0
  /\ step = [c \in Caller |-> "idle"]
  /\ view = [c \in Caller |-> NoView]
  /\ pos = [c \in Caller |-> 0]
  /\ pick = [c \in Caller |-> Nil]
  /\ candidates = [c \in Caller |-> {}]
  /\ wasEmpty = [c \in Caller |-> FALSE]
  /\ turn = {}

-----------------------------------------------------------------------------
(* Mutants: plausible mistakes in the actions below.  No action uses them;  *)
(* TLC shows for each that a property would catch it.                      *)

\* onRemoveWorker forgets delete(lb.workerNames, w.String()).
RemoveStoreKeepsName ==
  /\ pc = "removeStore"
  /\ slice' = [slice EXCEPT !.len = @ - 1]
  /\ pc' = "select"
  /\ cur' = Nil
  /\ hole' = 0
  /\ turn' = {}
  /\ UNCHANGED <<arrays, names, callVars, candidates, wasEmpty>>

\* onRemoveWorker stores the slice it loaded, not the one slices.Delete returned.
RemoveStoreOld ==
  /\ pc = "removeStore"
  /\ names' = names \ {cur}
  /\ pc' = "select"
  /\ cur' = Nil
  /\ hole' = 0
  /\ turn' = {}
  /\ UNCHANGED <<arrays, slice, callVars, candidates, wasEmpty>>

\* onRemoveWorker drops the last worker instead of the one it was given.
OnRemoveLast(w) ==
  /\ pc = "select"
  /\ w \in names
  /\ hole' = slice.len
  /\ pc' = "shift"
  /\ cur' = w
  /\ wasEmpty' = [c \in Caller |-> wasEmpty[c] \/ (c \in Calling /\ names = {w})]
  /\ UNCHANGED <<arrays, slice, names, callVars, candidates, turn>>

-----------------------------------------------------------------------------
(* Run and its handlers.                                                   *)

\* Run takes w from addChan.  For a known name onAddWorker returns at once.
OnAddWorker(w) ==
  /\ pc = "select"
  /\ w \notin names
  /\ pc' = "add"
  /\ cur' = w
  /\ UNCHANGED <<arrays, slice, names, hole, callVars, histVars>>

\* runtime.growslice: an array twice as large that holds a copy and the new element.
Grown ==
  [i \in 1..(IF slice.len = 0 THEN 1 ELSE 2 * slice.len) |->
     IF i <= slice.len THEN Array[i] ELSE IF i = slice.len + 1 THEN cur ELSE Nil]

\* append(currentWorkers, w): in place while the capacity lasts, else in a new array.
AddWrite ==
  /\ pc = "add"
  /\ arrays' = IF slice.len < Len(Array)
                 THEN [arrays EXCEPT ![slice.arr][slice.len + 1] = cur]
                 ELSE Append(arrays, Grown)
  /\ pc' = "addStore"
  /\ candidates' = [c \in Caller |->
                      IF c \in Calling THEN candidates[c] \cup {cur} ELSE candidates[c]]
  /\ UNCHANGED <<slice, names, cur, hole, callVars, wasEmpty, turn>>

\* lb.workers.Store and the new key of workerNames.
AddStore ==
  /\ pc = "addStore"
  /\ slice' = [arr |-> Len(arrays), len |-> slice.len + 1]
  /\ names' = names \cup {cur}
  /\ pc' = "select"
  /\ cur' = Nil
  /\ turn' = {}
  /\ UNCHANGED <<arrays, hole, callVars, candidates, wasEmpty>>

\* Run takes w from removeChan and finds its slot.  An unknown name returns at once.
OnRemoveWorker(w) ==
  /\ pc = "select"
  /\ w \in names
  /\ \E i \in 1..slice.len :
       /\ Array[i] = w
       /\ \A j \in 1..(i - 1) : Array[j] # w
       /\ hole' = i
  /\ pc' = "shift"
  /\ cur' = w
  /\ wasEmpty' = [c \in Caller |-> wasEmpty[c] \/ (c \in Calling /\ names = {w})]
  /\ UNCHANGED <<arrays, slice, names, callVars, candidates, turn>>

\* slices.Delete moves the later elements down, in the array the readers index.
ShiftSlot ==
  /\ pc = "shift"
  /\ hole < slice.len
  /\ arrays' = [arrays EXCEPT ![slice.arr][hole] = Array[hole + 1]]
  /\ hole' = hole + 1
  /\ UNCHANGED <<slice, names, pc, cur, callVars, histVars>>

\* ... and zeroes the slot that is no longer used.
ClearTail ==
  /\ pc = "shift"
  /\ hole = slice.len
  /\ arrays' = [arrays EXCEPT ![slice.arr][hole] = Nil]
  /\ pc' = "removeStore"
  /\ UNCHANGED <<slice, names, cur, hole, callVars, histVars>>

\* delete(workerNames) and lb.workers.Store of the shorter slice.
RemoveStore ==
  /\ pc = "removeStore"
  /\ names' = names \ {cur}
  /\ slice' = [slice EXCEPT !.len = @ - 1]
  /\ pc' = "select"
  /\ cur' = Nil
  /\ hole' = 0
  /\ turn' = {}
  /\ UNCHANGED <<arrays, callVars, candidates, wasEmpty>>

\* ctx.Done(): nobody receives from addChan and removeChan any more.
Stop ==
  /\ pc = "select"
  /\ pc' = "stopped"
  /\ UNCHANGED <<arrays, slice, names, cur, hole, callVars, histVars>>

-----------------------------------------------------------------------------
(* Next(), called by many goroutines.                                      *)

\* lb.workers.Load()
NextLoad(c) ==
  /\ step[c] = "idle"
  /\ view' = [view EXCEPT ![c] = slice]
  /\ step' = [step EXCEPT ![c] = IF slice.len = 0 THEN "empty" ELSE "bump"]
  /\ pick' = [pick EXCEPT ![c] = Nil]
  /\ candidates' = [candidates EXCEPT ![c] = InRotation]
  /\ wasEmpty' = [wasEmpty EXCEPT ![c] = Staying = {}]
  /\ UNCHANGED <<runVars, nextIndex, pos, turn>>

\* The call indexes the list with the new counter value, next, modulo n.  A round of the
\* rotation is over when every slot had its turn, when a call with an older header takes
\* a number, and when the counter wraps.
Bump(c, n, next) ==
  /\ step[c] = "bump"
  /\ nextIndex' = next
  /\ pos' = [pos EXCEPT ![c] = (next % n) + 1]
  /\ step' = [step EXCEPT ![c] = "type"]
  /\ LET round == (IF next > nextIndex THEN turn ELSE {}) \cup {pos'[c]}
     IN  turn' = IF view[c] # slice \/ round = 1..slice.len THEN {} ELSE round
  /\ UNCHANGED <<runVars, view, pick, candidates, wasEmpty>>

(* Mutants of NextBump. *)

\* Next() loads the list a second time to take its length.
NextBumpReloaded(c) ==
  slice.len > 0 /\ Bump(c, slice.len, (nextIndex + 1) % IndexLimit)

\* The increment steps over every other number.
NextBumpByTwo(c) == Bump(c, view[c].len, (nextIndex + 2) % IndexLimit)

\* atomic.AddUint64(&lb.nextIndex, 1) % n
NextBump(c) == Bump(c, view[c].len, (nextIndex + 1) % IndexLimit)

\* Next() returns r.
Return(c, r) ==
  /\ step' = [step EXCEPT ![c] = "idle"]
  /\ pick' = [pick EXCEPT ![c] = r]
  /\ view' = [view EXCEPT ![c] = NoView]
  /\ pos' = [pos EXCEPT ![c] = 0]
  /\ candidates' = [candidates EXCEPT ![c] = {}]
  /\ wasEmpty' = [wasEmpty EXCEPT ![c] = FALSE]
  /\ UNCHANGED <<runVars, nextIndex, turn>>

\* The slot c's call reads, now.
Target(c) == arrays[view[c].arr][pos[c]]

\* An empty list answers nil; so does a slot whose type word is zero.
NextNil(c) ==
  /\ \/ step[c] = "empty"
     \/ step[c] = "type" /\ Target(c) = Nil
  /\ Return(c, Nil)

\* workers[next], first word: the type of the worker in the slot.
NextReadType(c) ==
  /\ step[c] = "type"
  /\ Target(c) # Nil
  /\ step' = [step EXCEPT ![c] = "data"]
  /\ UNCHANGED <<runVars, nextIndex, view, pos, pick, histVars>>

\* workers[next], second word: the slot may have been zeroed, or shifted, in between.
NextReadData(c) ==
  /\ step[c] = "data"
  /\ Return(c, IF Target(c) = Nil THEN Half ELSE Target(c))

-----------------------------------------------------------------------------
Run ==
  \/ \E w \in Worker : OnAddWorker(w) \/ OnRemoveWorker(w)
  \/ AddWrite \/ AddStore \/ ShiftSlot \/ ClearTail \/ RemoveStore \/ Stop

NextCall(c) ==
  NextLoad(c) \/ NextBump(c) \/ NextNil(c) \/ NextReadType(c) \/ NextReadData(c)

Next == Run \/ \E c \in Caller : NextCall(c)

Spec == Init /\ [][Next]_vars
-----------------------------------------------------------------------------
(* Properties.                                                             *)

\* Every variable has its type; in particular a call that indexes the list loaded a
\* non-empty header and stays inside it (workers[next] in Next never panics).
TypeOK ==
  /\ arrays \in Seq(Seq(Slot))
  /\ slice \in Header
  /\ names \subseteq Worker
  /\ nextIndex \in 0..(IndexLimit - 1)
  /\ pc \in {"select", "add", "addStore", "shift", "removeStore", "stopped"}
  /\ cur \in Slot
  /\ hole \in Nat
  /\ step \in [Caller -> {"idle", "empty", "bump", "type", "data"}]
  /\ view \in [Caller -> Header]
  /\ pos \in [Caller -> Nat]
  /\ pick \in [Caller -> Slot \cup {Half}]
  /\ candidates \in [Caller -> SUBSET Worker]
  /\ wasEmpty \in [Caller -> BOOLEAN]
  /\ turn \subseteq 1..slice.len

\* Between two handlers the published slice lists each name of workerNames exactly
\* once and no nil, so onRemoveWorker, which deletes the first match only, really
\* takes the worker out of the rotation.
ListMatchesNames ==
  pc \in {"select", "stopped"} =>
    /\ {Array[i] : i \in 1..slice.len} = names
    /\ \A i, j \in 1..slice.len : Array[i] = Array[j] => i = j

\* The published header lies in the newest array, or, while append's new array waits
\* for its Store, in the one before it; unused slots of the array are zero.
HeaderInv ==
  /\ slice.arr \in 1..Len(arrays)
  /\ slice.len <= Len(Array)
  /\ pc # "addStore" =>
       /\ slice.arr = Len(arrays)
       /\ \A i \in (slice.len + 1)..Len(Array) : Array[i] = Nil
  /\ pc = "addStore" =>
       LET a == arrays[Len(arrays)]
       IN  /\ slice.arr \in {Len(arrays) - 1, Len(arrays)}
           /\ slice.len + 1 <= Len(a)
           /\ a[slice.len + 1] = cur
           /\ \A i \in 1..slice.len : a[i] = Array[i]
           /\ \A i \in (slice.len + 2)..Len(a) : a[i] = Nil
           /\ \A i \in (slice.len + 1)..Len(Array) : Array[i] \in {Nil, cur}

\* The slots of the published header, less the one slices.Delete is overwriting, hold
\* the names that stay, each once.
ContentInv ==
  LET kept == 1..slice.len \ (IF Removing THEN {hole} ELSE {})
  IN  /\ \A i \in kept : Array[i] \in Staying
      /\ \A n \in Staying : \E i \in kept : Array[i] = n
      /\ \A i, j \in kept : Array[i] = Array[j] => i = j
      /\ Removing => hole \in 1..slice.len /\ cur \in names
      /\ pc \in {"add", "addStore"} => cur \in Worker \ names
      /\ pc = "shift" => Array[hole] \in names
      /\ pc = "removeStore" => hole = slice.len /\ Array[hole] = Nil

\* A call in progress reads an array of which every worker is one of its candidates,
\* however many adds and removes have rewritten that array since it loaded the header.
ViewInv ==
  \A c \in Caller :
    /\ view[c].arr \in 1..slice.arr
    /\ view[c].len <= Len(arrays[view[c].arr])
    /\ step[c] # "idle" => InRotation \subseteq candidates[c]
    /\ step[c] \in {"bump", "type", "data"} =>
         /\ view[c].len > 0
         /\ \A i \in 1..Len(arrays[view[c].arr]) :
              arrays[view[c].arr][i] \in candidates[c] \cup {Nil}
    /\ step[c] \in {"type", "data"} => pos[c] \in 1..view[c].len

\* The slots of the current round are the latest turns of the shared counter: those from
\* some slot up to the one of nextIndex, around the end of the list if need be.
TurnInv ==
  LET last == (nextIndex % slice.len) + 1
  IN  turn # {} => /\ slice.len > 0
                   /\ turn # 1..slice.len
                   /\ \E first \in 1..slice.len :
                        turn = IF first <= last THEN first..last
                               ELSE first..slice.len \cup 1..last

\* The inductive invariant of the implementation proof: what the lock-free readers of
\* Next() rely on while onAddWorker and onRemoveWorker rewrite the list under them.
ListInv == TypeOK /\ HeaderInv /\ ContentInv /\ ViewInv

\* ... with what they do to the shared counter.
LBInv == ListInv /\ TurnInv

\* Next() spreads the calls evenly: among calls that loaded the current list, a slot is
\* handed out again only after every other slot had its turn, although the callers
\* share one counter and overtake each other between the load and the increment.  Only
\* the wrap of the counter cuts a round short, unless the list's length divides 2^64.
EvenSpread ==
  [][\A c \in Caller :
       step[c] = "bump" /\ step'[c] = "type" /\ view[c] = slice /\ nextIndex' > nextIndex
         => pos'[c] \notin turn]_vars

\* The lock-free balancer implements Rotation: a call never answers with a worker that
\* was out of rotation during the whole call, whatever the handlers overwrote meanwhile.
Rot == INSTANCE Rotation WITH
  Misses <- {Nil, Half}, rotation <- InRotation, calling <- Calling, answer <- pick

RotationSpec == Rot!Spec

\* When the list was not empty, only a removal can make a call miss: it is overwriting the
\* list at that moment, or an add or a removal has replaced it since the call loaded it.
MissNeedsChange ==
  [][\A c \in Caller :
       step[c] \in {"type", "data"} /\ step'[c] = "idle" /\ pick'[c] \in {Nil, Half}
         => Removing \/ view[c] # slice]_vars

\* A call comes back without a usable worker only if no worker stayed in rotation at some
\* moment of the call (a proxied request is refused only when no worker is available).
MissOnlyWhenEmpty ==
  [][\A c \in Caller :
       step[c] # "idle" /\ step'[c] = "idle" /\ pick'[c] \in {Nil, Half} => wasEmpty[c]]_vars
=============================================================================
