------------------------- MODULE ObjectStoreProofs -------------------------
(***************************************************************************)
(* The object store, for every set of transactions, keys, values and       *)
(* snapshots and every stack size: its inductive invariants, that flushes  *)
(* are invisible, and that readers get what history says: isolated reads,  *)
(* the newest state, snapshots that do not change, and the refinement of   *)
(* the abstract store.                                                     *)
(***************************************************************************)
EXTENDS StoreRefinement, SequenceLemmas

-----------------------------------------------------------------------------
(***************************************************************************)
(* Differences                                                             *)
(***************************************************************************)

\* Reading through a difference yields contents again.
LEMMA OnType ==
    ASSUME NEW c \in Change, NEW b \in Contents
    PROVE  On(c, b) \in Contents
BY OverlayAssumption DEF Change, Contents, On, Get

\* Writing one key changes what is read under that key only.
LEMMA WriteOn ==
    ASSUME NEW c \in Change, NEW b \in Contents, NEW k \in Key, NEW v \in Value
    PROVE  /\ On(PutKey(c, k, v), b) = [On(c, b) EXCEPT ![k] = v]
           /\ On(RemoveKey(c, k), b) = [On(c, b) EXCEPT ![k] = Absent]
<1>1. \A j \in Key : /\ Get(PutKey(c, k, v), b, j) = IF j = k THEN v ELSE Get(c, b, j)
                     /\ Get(RemoveKey(c, k), b, j) = IF j = k THEN Absent ELSE Get(c, b, j)
  BY OverlayAssumption DEF Get, PutKey, RemoveKey, Change, Contents
<1> QED BY <1>1 DEF On, Contents

\* A transaction that has written nothing reads what is below it.
LEMMA OnNoChange ==
    ASSUME NEW b \in Contents
    PROVE  On(NoChange, b) = b
<1>1. \A j \in Key : Get(NoChange, b, j) = b[j]
  BY DEF Get, NoChange
<1> QED BY <1>1 DEF On, Contents

\* put, remove, truncate and a merge leave a well-formed difference.
LEMMA ChangeType ==
    /\ NoChange \in Change /\ Emptied \in Change
    /\ \A c \in Change : \A k \in Key : RemoveKey(c, k) \in Change
    /\ \A c \in Change : \A k \in Key : \A v \in Value : PutKey(c, k, v) \in Change
    /\ \A c, d \in Change : Merge(c, d) \in Change
<1>1. NoChange \in Change
  BY DEF NoChange, Change
<1>2. Emptied \in Change
  BY DEF Emptied, Change
<1>3. \A c \in Change : \A k \in Key : RemoveKey(c, k) \in Change
  BY DEF RemoveKey, Change
<1>4. \A c \in Change : \A k \in Key : \A v \in Value : PutKey(c, k, v) \in Change
  BY DEF PutKey, Change
<1>5. \A c, d \in Change : Merge(c, d) \in Change
  BY DEF Merge, Change
<1> QED BY <1>1, <1>2, <1>3, <1>4, <1>5

\* Transaction._applySync: merging the difference d of a child into the
\* difference c of its parent leaves what the child reads as it was, so that a
\* flush into a lower layer is invisible to readers.
THEOREM MergeIsComposition ==
    ASSUME NEW c \in Change, NEW d \in Change, NEW b \in Contents
    PROVE  On(Merge(c, d), b) = On(d, On(c, b))
<1>1. \A k \in Key : Get(Merge(c, d), b, k) = Get(d, On(c, b), k)
  BY OverlayAssumption DEF Merge, On, Get, Change, Contents
<1> QED BY <1>1 DEF On

\* Transaction.keys lists exactly the keys under which Transaction.get finds a
\* value: the two walk the maps separately. The difference of a transaction
\* never holds an undefined value; that of a snapshot can.
THEOREM KeysAgreeWithGet ==
    ASSUME NEW c \in Change, NEW b \in Contents, \A k \in Key : c.cell[k] # Undefined
    PROVE  KeysOn(c, {k \in Key : b[k] # Absent}) = {k \in Key : On(c, b)[k] # Absent}
<1>1. ASSUME NEW k \in Key
      PROVE  k \in KeysOn(c, {j \in Key : b[j] # Absent}) <=> Get(c, b, k) # Absent
  BY OverlayAssumption DEF KeysOn, Get, Change, Contents
<1>2. KeysOn(c, {k \in Key : b[k] # Absent}) \subseteq Key
  BY DEF KeysOn
<1> QED BY <1>1, <1>2 DEF On

\* Between the merge and the clean-up a layer is read over a state that already
\* contains it: applying a difference twice is applying it once.
THEOREM ApplyTwice ==
    ASSUME NEW c \in Change, NEW b \in Contents
    PROVE  On(c, On(c, b)) = On(c, b)
<1>1. \A k \in Key : Get(c, On(c, b), k) = Get(c, b, k)
  BY OverlayAssumption DEF On, Get, Change, Contents
<1> QED BY <1>1 DEF On

\* Snapshot._apply: a snapshot that remembers the old values of what d changes
\* reads the same after d has been applied below it as before, unless one of the
\* old values is falsy ("if (!oldValue)" takes such a value for a missing key).
THEOREM PreserveKeepsView ==
    ASSUME NEW c \in Change, NEW d \in Change, NEW b \in Contents,
           \A k \in Key : On(c, b)[k] \notin Falsy
    PROVE  On(Preserve(c, d, On(c, b)), On(d, b)) = On(c, b)
<1> DEFINE was == On(c, b)
           p == Preserve(c, d, was)
<1>1. was \in Contents
  BY OnType
<1>2. ASSUME NEW k \in Key
      PROVE  Get(p, On(d, b), k) = was[k]
  <2>1. p.truncated = c.truncated /\ p.cell[k] = OldCell(c, d, was, k)
    BY DEF Preserve, Change
  <2>2. On(d, b)[k] = Get(d, b, k) /\ was[k] = Get(c, b, k)
    BY DEF On
  <2>3. was[k] \in Value \cup {Absent} /\ was[k] \notin Falsy
    BY <1>1 DEF Contents
  <2> HIDE DEF was, p
  <2>4. CASE Remembers(c, k)
    BY <2>1, <2>2, <2>4 DEF OldCell, Get, Remembers
  <2>5. CASE ~Remembers(c, k) /\ d.truncated /\ was[k] # Absent
    BY <2>1, <2>3, <2>5, OverlayAssumption DEF OldCell, Get
  <2>6. CASE ~Remembers(c, k) /\ ~(d.truncated /\ was[k] # Absent) /\ d.cell[k] = Untouched
    BY <2>1, <2>2, <2>6, OverlayAssumption DEF OldCell, Get, Remembers
  <2>7. CASE ~Remembers(c, k) /\ ~(d.truncated /\ was[k] # Absent) /\ d.cell[k] = Absent
    BY <2>1, <2>3, <2>7, OverlayAssumption DEF OldCell, Get
  <2>8. CASE ~Remembers(c, k) /\ ~(d.truncated /\ was[k] # Absent)
             /\ d.cell[k] \notin {Untouched, Absent}
    BY <2>1, <2>3, <2>8, OverlayAssumption DEF OldCell, Get
  <2> QED BY <2>4, <2>5, <2>6, <2>7, <2>8
<1>3. was = [k \in Key |-> was[k]]
  BY DEF On
<1> HIDE DEF was, p
<1>4. On(p, On(d, b)) = was
  BY <1>2, <1>3 DEF On
<1> QED BY <1>4 DEF was, p

-----------------------------------------------------------------------------
(***************************************************************************)
(* The stack                                                               *)
(***************************************************************************)

\* What the type invariant and the registration say of the current state and
\* of the layers, without indices.
LEMMA StackFacts ==
    ASSUME TypeOK, Registered
    PROVE  /\ Layers \subseteq Tx /\ Layers \subseteq closed
           /\ Top \in Layers \cup {Backend}
           /\ stack # <<>> => Top \in Layers /\ stack[1] \in Layers
           /\ \A l \in Layers : parent[l] # l /\ parent[l] # Top /\ parent[l] \in Node
           /\ \A l, m \in Layers : parent[l] = parent[m] => l = m
           /\ \A n \in Layers \cup {Backend} : n # Top => \E l \in Layers : parent[l] = n
<1> USE StoreAssumption DEF Node
<1>0. stack \in Seq(Tx) /\ Len(stack) \in Nat /\ DOMAIN stack = 1..Len(stack)
  BY DEF TypeOK
<1>8. /\ \A i, j \in 1..Len(stack) : stack[i] = stack[j] => i = j
      /\ \A i \in 1..Len(stack) :
           parent[stack[i]] = IF i = 1 THEN Backend ELSE stack[i - 1]
  BY <1>0, Zenon DEF Registered
<1>1. Layers \subseteq Tx /\ Layers \subseteq closed
  BY <1>0 DEF Registered, Layers
<1>2. stack = <<>> <=> Len(stack) = 0
  BY <1>0
<1>3. stack # <<>> => Top \in Layers /\ stack[1] \in Layers
  BY <1>0, <1>2 DEF Top, Layers
<1>4. Top \in Layers \cup {Backend}
  BY <1>3 DEF Top
<1>5. ASSUME NEW l \in Layers
      PROVE  parent[l] # l /\ parent[l] # Top /\ parent[l] \in Node
  <2>1. PICK i \in 1..Len(stack) : l = stack[i]
    BY <1>0 DEF Layers
  <2>2. Top = stack[Len(stack)] /\ Top \in Tx
    BY <1>0, <1>8, <1>2, <2>1 DEF Top
  <2>3. CASE i = 1
    BY <1>0, <1>8, <2>1, <2>2, <2>3
  <2>4. CASE i # 1
    <3>1. i - 1 \in 1..Len(stack) /\ i - 1 # Len(stack) /\ i - 1 # i
      BY <1>0, <1>8, <2>4
    <3>2. parent[l] = stack[i - 1]
      BY <1>0, <1>8, <2>1, <2>4
    <3>3. Len(stack) \in 1..Len(stack)
      BY <1>0, <1>8, <2>1
    <3>4. stack[i - 1] # stack[i] /\ stack[i - 1] # stack[Len(stack)]
      BY <1>0, <1>8, <3>1, <3>3
    <3> QED BY <1>0, <1>8, <2>1, <2>2, <3>1, <3>2, <3>4
  <2> QED BY <2>3, <2>4
<1>6. ASSUME NEW l \in Layers, NEW m \in Layers, parent[l] = parent[m]
      PROVE  l = m
  <2>1. PICK i \in 1..Len(stack) : l = stack[i]
    BY <1>0 DEF Layers
  <2>2. PICK j \in 1..Len(stack) : m = stack[j]
    BY <1>0 DEF Layers
  <2>3. /\ parent[l] = IF i = 1 THEN Backend ELSE stack[i - 1]
        /\ parent[m] = IF j = 1 THEN Backend ELSE stack[j - 1]
    BY <1>0, <1>8, <2>1, <2>2
  <2>4. CASE i = 1 \/ j = 1
    BY <1>0, <1>8, <1>6, <2>1, <2>2, <2>3, <2>4
  <2>5. CASE i # 1 /\ j # 1
    <3>1. i - 1 \in 1..Len(stack) /\ j - 1 \in 1..Len(stack)
      BY <1>0, <1>8, <2>5
    <3>2. i - 1 = j - 1
      BY <1>8, <1>6, <2>3, <2>5, <3>1
    <3> QED BY <1>0, <1>8, <3>2, <2>1, <2>2
  <2> QED BY <2>4, <2>5
<1>7. ASSUME NEW n \in Layers \cup {Backend}, n # Top
      PROVE  \E l \in Layers : parent[l] = n
  <2>1. CASE n = Backend
    <3>1. 1 \in 1..Len(stack)
      BY <1>0, <1>8, <1>2, <1>7, <2>1 DEF Top
    <3> QED BY <1>0, <1>8, <2>1, <3>1 DEF Layers
  <2>2. CASE n \in Layers
    <3>1. PICK i \in 1..Len(stack) : n = stack[i]
      BY <1>0, <1>8, <2>2 DEF Layers
    <3>2. Top = stack[Len(stack)]
      BY <1>0, <1>2, <3>1 DEF Top
    <3>5. i # Len(stack)
      BY <1>7, <3>1, <3>2
    <3>3. i + 1 \in 1..Len(stack) /\ i + 1 # 1 /\ (i + 1) - 1 = i
      <4>1. i \in Int /\ 1 <= i /\ i <= Len(stack) /\ Len(stack) \in Int
        BY <1>0
      <4> QED BY <3>5, <4>1
    <3>4. parent[stack[i + 1]] = n
      BY <1>0, <1>8, <3>1, <3>3
    <3> QED BY <1>0, <1>8, <3>3, <3>4 DEF Layers
  <2> QED BY <2>1, <2>2
<1> QED BY <1>1, <1>3, <1>4, <1>5, <1>6, <1>7

-----------------------------------------------------------------------------
(***************************************************************************)
(* The synchronizer's jobs                                                 *)
(***************************************************************************)

IInv == TypeOK /\ Registered /\ JobsAreLegal /\ FlushStaysLegal

RunTyped == /\ run \in Running \cup {Idle}
            /\ snap \in [Snap -> {"none", "open", "aborted", "threw"}]
            /\ under \in [Snap -> Node]
            /\ managed \in [Node -> SUBSET Snap]

RunLegal == /\ run # Idle /\ run.job.kind = "merge" => run.job.tx \in closed
            /\ run.phase = "thrown" => run # Idle /\ run.job.kind = "merge"
            /\ FlushStaysLegal

\* A job is a record of a transaction or Null, and never the Null of Idle.
LEMMA JobFacts ==
    /\ \A job \in Job : job.tx \in Tx \cup {Null} /\ job.kind \in {"merge", "all"}
    /\ \A job \in Job : job.kind = "merge" => job.tx \in Tx
    /\ \A t \in Tx : [kind |-> "merge", tx |-> t] \in Job
    /\ \A t \in Tx \cup {Null} : [kind |-> "all", tx |-> t] \in Job
BY DEF Job

\* Asking whether t can be merged and, if so, starting to merge it.
LEMMA AttemptFacts ==
    ASSUME TypeOK, NEW job \in Job, NEW end \in {"top", "bottom"}, NEW t \in Tx,
           Attempt(job, end, t)
    PROVE  /\ run' = [job |-> job, end |-> end, target |-> t, phase |-> Outcome(t)']
           /\ Outcome(t)' \in {"thrown", "applying", "false"}
           /\ RunTyped'
<1>1. /\ run' = [job |-> job, end |-> end, target |-> t, phase |-> Outcome(t)']
      /\ Outcome(t)' \in {"thrown", "applying", "false"}
  BY DEF Attempt, Outcome
<1>2. run' \in Running
  BY <1>1 DEF Running, Phase
<1>3. /\ snap' \in [Snap -> {"none", "open", "aborted", "threw"}]
      /\ under' \in [Snap -> Node]
      /\ managed' \in [Node -> SUBSET Snap]
  <2>1. CASE run'.phase = "applying"
    BY <2>1 DEF Attempt, ApplySnapshots, TypeOK, Node
  <2>2. CASE run'.phase # "applying"
    BY <2>2 DEF Attempt, snapVars, TypeOK
  <2> QED BY <2>1, <2>2
<1> QED BY <1>1, <1>2, <1>3 DEF RunTyped

\* A job that starts is legal in the state the starting step leaves, if that
\* state is registered: whatever it begins to merge is on the stack, and what is
\* on the stack cannot be gone from _transactions.
LEMMA AttemptLegal ==
    ASSUME TypeOK, Registered', NEW job \in Job, NEW end \in {"top", "bottom"}, NEW t \in Tx,
           job.kind = "merge" => job.tx = t /\ t \in closed',
           job.kind = "all" => t \in Layers',
           Attempt(job, end, t)
    PROVE  RunTyped' /\ RunLegal'
<1>1. /\ run' = [job |-> job, end |-> end, target |-> t, phase |-> Outcome(t)']
      /\ RunTyped'
  BY AttemptFacts
<1>2. run' # Idle'
  BY <1>1, StoreAssumption DEF Idle, Outcome
<1>3. Outcome(t)' = "thrown" => t \notin known'
  BY DEF Outcome
<1>4. Outcome(t)' = "applying" => t \in known' /\ Flushable(t)'
  BY DEF Outcome
<1>5. t \in Layers' => t \in known'
  BY DEF Registered, Attached
<1>6. t \in closed' /\ Flushable(t)' => t \in Layers'
  BY DEF Registered, Flushable
<1>7. job.kind \in {"merge", "all"}
  BY JobFacts
<1>8. FlushStaysLegal'
  BY <1>1, <1>3, <1>4, <1>5, <1>6, <1>7 DEF FlushStaysLegal, Outcome
<1> QED BY <1>1, <1>2, <1>3, <1>5, <1>7, <1>8 DEF RunLegal

\* The job at the head of the queue, or one just pushed, starts.
LEMMA StartLegal ==
    ASSUME IInv, Registered', NEW job \in Job,
           job.kind = "merge" => job.tx \in closed',
           job.kind = "all" => stack' = stack,
           Start(job)
    PROVE  RunTyped' /\ RunLegal'
<1>1. CASE job.kind = "merge"
  <2>1. Attempt(job, "top", job.tx)
    BY <1>1 DEF Start
  <2> QED BY <1>1, <2>1, JobFacts, AttemptLegal DEF IInv
<1>2. CASE job.kind = "all" /\ stack # <<>>
  <2>1. Attempt(job, "top", Top)
    BY <1>2 DEF Start
  <2>2. Layers' = Layers
    BY <1>2 DEF Layers
  <2>3. Top \in Layers /\ Top \in Tx
    BY <1>2, StackFacts DEF IInv
  <2> QED BY <1>2, <2>1, <2>2, <2>3, AttemptLegal DEF IInv
<1>3. CASE job.kind = "all" /\ stack = <<>>
  <2>1. /\ run' = [job |-> job, end |-> "bottom", target |-> Null, phase |-> "false"]
        /\ UNCHANGED snapVars
    BY <1>3 DEF Start
  <2>2. run' # Idle' /\ run' \in Running
    BY <2>1, StoreAssumption DEF Idle, Running, Phase
  <2>3. FlushStaysLegal'
    BY <2>1 DEF FlushStaysLegal
  <2> QED BY <1>3, <2>1, <2>2, <2>3 DEF RunTyped, RunLegal, IInv, TypeOK, snapVars
<1> QED BY <1>1, <1>2, <1>3, JobFacts

\* A step that pushes a job leaves the synchronizer legal if it leaves the nodes
\* registered and, when a merge is under way, leaves that merge legal.
LEMMA PushLegal ==
    ASSUME IInv, Registered', NEW job \in Job,
           job.kind = "merge" => job.tx \in closed',
           job.kind = "all" => stack' = stack,
           closed \subseteq closed',
           run' = run => FlushStaysLegal',
           Push(job)
    PROVE  RunTyped' /\ FlushStaysLegal' /\ JobsAreLegal' /\ queue' \in Seq(Job)
<1>1. CASE run = Idle
  <2>1. Start(job) /\ queue' = queue
    BY <1>1 DEF Push
  <2>2. RunTyped' /\ RunLegal'
    BY <2>1, StartLegal
  <2> QED BY <2>1, <2>2 DEF RunLegal, JobsAreLegal, IInv, TypeOK
<1>2. CASE run # Idle
  <2>1. queue' = Append(queue, job) /\ run' = run /\ UNCHANGED snapVars
    BY <1>2 DEF Push
  <2>2. queue \in Seq(Job)
    BY DEF IInv, TypeOK
  <2>3. queue' \in Seq(Job)
    BY <2>1, <2>2
  <2>4. \A i \in DOMAIN queue' : queue'[i] = job \/ (i \in DOMAIN queue /\ queue'[i] = queue[i])
    <3>1. /\ DOMAIN queue = 1..Len(queue) /\ Len(queue) \in Nat
          /\ DOMAIN queue' = 1..Len(queue')
      BY <2>2, <2>3
    <3>2. /\ Len(queue') = Len(queue) + 1 /\ queue'[Len(queue) + 1] = job
          /\ \A i \in 1..Len(queue) : queue'[i] = queue[i]
      BY <2>1, <2>2, AppendProperties
    <3>3. \A i \in 1..(Len(queue) + 1) : i = Len(queue) + 1 \/ i \in 1..Len(queue)
      BY <3>1
    <3>4. DOMAIN queue' = 1..(Len(queue) + 1)
      BY <3>1, <3>2
    <3> QED BY <3>1, <3>2, <3>3, <3>4
  <2>5. \A i \in DOMAIN queue' : queue'[i].kind = "merge" => queue'[i].tx \in closed'
    <3>1. \A i \in DOMAIN queue : queue[i].kind = "merge" => queue[i].tx \in closed
      BY DEF IInv, JobsAreLegal
    <3> QED BY <2>4, <3>1
  <2>6. /\ run' # Idle' /\ run'.job.kind = "merge" => run'.job.tx \in closed'
        /\ run'.phase = "thrown" => run' # Idle' /\ run'.job.kind = "merge"
    BY <2>1 DEF IInv, JobsAreLegal, Idle
  <2> QED BY <2>1, <2>3, <2>5, <2>6 DEF JobsAreLegal, RunTyped, IInv, TypeOK, snapVars, Idle
<1> QED BY <1>1, <1>2

\* A step that touches neither the jobs nor the snapshots.
LEMMA JobsUnchanged ==
    ASSUME IInv, UNCHANGED <<queue, run, snapVars>>, closed \subseteq closed', FlushStaysLegal'
    PROVE  RunTyped' /\ FlushStaysLegal' /\ JobsAreLegal' /\ queue' \in Seq(Job)
<1>1. RunTyped' /\ queue' \in Seq(Job)
  BY DEF RunTyped, IInv, TypeOK, snapVars, Idle
<1>2. JobsAreLegal'
  BY DEF JobsAreLegal, IInv, Idle
<1> QED BY <1>1, <1>2

-----------------------------------------------------------------------------
(***************************************************************************)
(* One lemma per action                                                    *)
(***************************************************************************)

LEMMA InitStep == Init => IInv
<1> SUFFICES ASSUME Init PROVE IInv
  OBVIOUS
<1> USE StoreAssumption
<1>1. db \in Contents
  BY DEF Init, Contents
<1>2. log \in Seq(Contents) /\ Len(log) = 1
  BY <1>1 DEF Init
<1>3. stack \in Seq(Tx) /\ queue \in Seq(Job) /\ DOMAIN stack = {} /\ DOMAIN queue = {}
  BY DEF Init
<1>4. TypeOK
  BY <1>1, <1>2, <1>3, ChangeType DEF Init, TypeOK, Node
<1>5. Layers = {}
  BY <1>3 DEF Layers
<1>6. Registered
  BY <1>3, <1>5 DEF Init, Registered, Attached, Ready, Node
<1>7. JobsAreLegal /\ FlushStaysLegal
  BY <1>3 DEF Init, JobsAreLegal, FlushStaysLegal, Idle
<1> QED BY <1>4, <1>6, <1>7 DEF IInv

\* A step that leaves the nodes and the jobs alone and nobody's readiness.
LEMMA NodesUnchanged ==
    ASSUME IInv, UNCHANGED <<base, infoVars>>,
           \A t \in Tx : Ready(t)' <=> Ready(t),
           \A t \in closed : call'[t] \in {"none", "commit", "threw"},
           \A t \in Tx : state'[t] = "none" => t \notin closed /\ call'[t] = "none"
    PROVE  Registered'
<1>1. UNCHANGED <<parent, children, closed, known, stack>> /\ Layers' = Layers
  BY DEF infoVars, Layers
<1>2. \A t \in Tx : Attached(t)' <=> Attached(t)
  BY <1>1 DEF Attached
<1>3. closed \subseteq Tx
  BY DEF IInv, TypeOK
<1> QED BY <1>1, <1>2, <1>3 DEF IInv, Registered, Node

LEMMA ModifyStep ==
    ASSUME IInv, NEW t \in Tx, NEW c \in Change, Modify(t, c)
    PROVE  IInv'
<1>1. Registered'
  BY NodesUnchanged DEF Modify, Ready, IInv, Registered
<1>2. FlushStaysLegal'
  BY DEF Modify, IInv, FlushStaysLegal, Flushable, NoOpenChildren, infoVars, Layers
<1>3. RunTyped' /\ JobsAreLegal' /\ queue' \in Seq(Job)
  BY <1>2, JobsUnchanged DEF Modify, infoVars
<1>4. TypeOK'
  BY <1>3 DEF TypeOK, RunTyped, Modify, IInv, infoVars, history
<1> QED BY <1>1, <1>2, <1>3, <1>4 DEF IInv

LEMMA WriteStep ==
    ASSUME IInv, NEW t \in Tx,
           TxTruncate(t) \/ \E k \in Key : TxPut(t, k) \/ TxRemove(t, k)
    PROVE  IInv'
<1>1. change[t] \in Change /\ t \in Value
  BY StoreAssumption DEF IInv, TypeOK
<1>2. CASE TxTruncate(t)
  BY <1>2, ChangeType, ModifyStep DEF TxTruncate
<1>3. ASSUME NEW k \in Key, TxPut(t, k) PROVE IInv'
  <2>1. PutKey(change[t], k, t) \in Change
    BY <1>1, ChangeType
  <2> QED BY <2>1, <1>3, ModifyStep DEF TxPut
<1>4. ASSUME NEW k \in Key, TxRemove(t, k) PROVE IInv'
  <2>1. RemoveKey(change[t], k) \in Change
    BY <1>1, ChangeType
  <2> QED BY <2>1, <1>4, ModifyStep DEF TxRemove
<1> QED BY <1>2, <1>3, <1>4

LEMMA CommitRefusedStep ==
    ASSUME IInv, NEW t \in Tx, CommitRefused(t)
    PROVE  IInv'
<1>1. Registered'
  BY NodesUnchanged DEF CommitRefused, Ready, IInv, TypeOK, Registered, txVars
<1>2. FlushStaysLegal'
  BY DEF CommitRefused, IInv, FlushStaysLegal, Flushable, NoOpenChildren, infoVars, Layers
<1>3. RunTyped' /\ JobsAreLegal' /\ queue' \in Seq(Job)
  BY <1>2, JobsUnchanged DEF CommitRefused, infoVars
<1>4. TypeOK'
  BY <1>3 DEF TypeOK, RunTyped, CommitRefused, IInv, infoVars, history, txVars
<1> QED BY <1>1, <1>2, <1>3, <1>4 DEF IInv

LEMMA FinishCommitStep ==
    ASSUME IInv, NEW t \in Tx, FinishCommit(t)
    PROVE  IInv'
<1>1. Registered'
  BY NodesUnchanged DEF FinishCommit, Ready, IInv, TypeOK, Registered
<1>2. FlushStaysLegal'
  BY DEF FinishCommit, IInv, FlushStaysLegal, Flushable, NoOpenChildren, infoVars, Layers
<1>3. RunTyped' /\ JobsAreLegal' /\ queue' \in Seq(Job)
  BY <1>2, JobsUnchanged DEF FinishCommit, infoVars
<1>4. TypeOK'
  BY <1>3 DEF TypeOK, RunTyped, FinishCommit, IInv, infoVars, history
<1> QED BY <1>1, <1>2, <1>3, <1>4 DEF IInv

LEMMA FinishLeaveStep ==
    ASSUME IInv, NEW t \in Tx, FinishLeave(t)
    PROVE  IInv'
<1>1. t \notin closed /\ Layers \subseteq closed /\ ~Ready(t)
  BY StackFacts DEF FinishLeave, IInv, Registered, Ready
<1>2. /\ UNCHANGED <<base, parent, children, closed, stack, queue, run, snapVars>>
      /\ Layers' = Layers /\ known' = known \ {t}
  BY DEF FinishLeave, Layers
<1>3. \A x \in Tx : Ready(x)' <=> Ready(x)
  BY <1>1 DEF FinishLeave, Ready, IInv, TypeOK
<1>4. \A x \in Tx : (Attached(x)' <=> Attached(x)) /\ (Attached(x) => x # t)
  BY <1>1, <1>2, <1>3 DEF Attached
<1>5. \A x \in Tx : x # t => call'[x] = call[x] /\ state'[x] = state[x]
  BY DEF FinishLeave, IInv, TypeOK
<1>6. state'[t] # "none"
  BY DEF FinishLeave, IInv, TypeOK
<1>7. Registered'
  BY <1>1, <1>2, <1>3, <1>4, <1>5, <1>6 DEF IInv, Registered, TypeOK, Node
<1>8. FlushStaysLegal'
  BY <1>1, <1>2 DEF IInv, FlushStaysLegal, Flushable, NoOpenChildren
<1>9. RunTyped' /\ JobsAreLegal' /\ queue' \in Seq(Job)
  BY <1>2, <1>8, JobsUnchanged
<1>10. TypeOK'
  BY <1>9 DEF TypeOK, RunTyped, FinishLeave, IInv, history
<1> QED BY <1>7, <1>8, <1>9, <1>10 DEF IInv

LEMMA OpenStep ==
    ASSUME IInv, NEW t \in Tx, Open(t)
    PROVE  IInv'
<1> USE StoreAssumption
<1>1. t \notin closed /\ call[t] = "none" /\ ~Ready(t) /\ t \notin Layers
  BY StackFacts DEF Open, IInv, Registered, Ready
<1>2. /\ UNCHANGED <<call, closed, stack, queue, run, snapVars>>
      /\ Layers' = Layers
  BY DEF Open, Layers
<1>3. Top \in Node /\ Top \in Layers \cup {Backend}
  BY StackFacts DEF IInv, Node
<1>4. /\ state' = [state EXCEPT ![t] = "open"] /\ parent'[t] = Top /\ base'[t] = Top
      /\ \A x \in Tx : x # t => parent'[x] = parent[x] /\ base'[x] = base[x]
      /\ known' = known \cup {t}
  BY DEF Open, IInv, TypeOK
<1>5. \A x \in Tx : Ready(x)' <=> Ready(x) \/ x = t
  BY <1>1, <1>2, <1>4 DEF Ready, IInv, TypeOK
<1>6. \A x \in Tx : Attached(x)' <=> Attached(x) \/ x = t
  BY <1>2, <1>5 DEF Attached
<1>7. \A n \in Node : children'[n] = IF n = Top THEN children[n] \cup {t} ELSE children[n]
  BY <1>3 DEF Open, IInv, TypeOK
<1>8. ~Attached(t)
  BY <1>1 DEF Attached
<1>9. Registered'
  <2>1. Layers' = {x \in closed' : parent'[x] # Null}
    BY <1>1, <1>2, <1>4 DEF IInv, Registered, TypeOK
  <2>2. \A i \in DOMAIN stack' : stack'[i] # t /\ stack'[i] \in Tx
    BY <1>1, <1>2 DEF Layers, IInv, TypeOK
  <2>3. \A i \in DOMAIN stack' :
          parent'[stack'[i]] = IF i = 1 THEN Backend ELSE stack'[i - 1]
    BY <2>2, <1>2, <1>4 DEF IInv, Registered
  <2>4. \A n \in Node : children'[n] = {x \in Tx : Attached(x)' /\ parent'[x] = n}
    <3> TAKE n \in Node
    <3>1. children[n] = {x \in Tx : Attached(x) /\ parent[x] = n}
      BY DEF IInv, Registered
    <3>2. \A x \in Tx : x \in children'[n] <=> Attached(x)' /\ parent'[x] = n
      BY <3>1, <1>4, <1>6, <1>7, <1>8
    <3>3. children'[n] \subseteq Tx
      BY <3>1, <1>7
    <3> QED BY <3>2, <3>3
  <2>5. \A x \in Tx : Attached(x)' =>
          x \in known' /\ base'[x] = parent'[x] /\ parent'[x] \in Layers' \cup {Backend}
    BY <1>2, <1>3, <1>4, <1>6 DEF IInv, Registered
  <2>6. /\ \A x \in closed' : call'[x] \in {"none", "commit", "threw"} /\ ~Ready(x)'
        /\ \A x \in Tx : state'[x] = "none" => x \notin closed' /\ call'[x] = "none"
    BY <1>1, <1>2, <1>4, <1>5 DEF IInv, Registered, TypeOK
  <2> QED BY <2>1, <2>3, <2>4, <2>5, <2>6, <1>2 DEF IInv, Registered
<1>10. FlushStaysLegal'
  <2>1. SUFFICES ASSUME run.phase \in {"applying", "applied", "failed"}
                 PROVE  run.target \in Layers' \cap known' /\ Flushable(run.target)'
    BY <1>2 DEF FlushStaysLegal
  <2>2. run.target \in Layers \cap known /\ Flushable(run.target)
    BY <2>1 DEF IInv, FlushStaysLegal
  <2>3. run.target \in Tx /\ run.target # t
        /\ parent[run.target] # Top /\ parent[run.target] \in Node
    BY <2>2, <1>1, StackFacts DEF IInv
  <2> QED BY <2>2, <2>3, <1>2, <1>4, <1>7 DEF Flushable, NoOpenChildren
<1>11. RunTyped' /\ JobsAreLegal' /\ queue' \in Seq(Job)
  BY <1>2, <1>10, JobsUnchanged
<1>12. TypeOK'
  BY <1>3, <1>11 DEF TypeOK, RunTyped, Open, IInv
<1> QED BY <1>9, <1>10, <1>11, <1>12 DEF IInv

\* Only a transaction based on the newest committed state is committable.
LEMMA CommittableIsOnTop ==
    ASSUME IInv, NEW t \in Tx, Ready(t), Committable(t)
    PROVE  parent[t] = Top
<1>1. parent[t] \in Layers \cup {Backend} /\ parent[t] \in Node
  BY StackFacts, StoreAssumption DEF IInv, Registered, Attached, Node
<1>2. SUFFICES ASSUME parent[t] # Top PROVE FALSE
  OBVIOUS
<1>3. PICK l \in Layers : parent[l] = parent[t]
  BY <1>1, <1>2, StackFacts DEF IInv
<1>4. l \in closed /\ l \in Tx
  BY StackFacts DEF IInv
<1>5. l \in children[parent[t]]
  BY <1>1, <1>3, <1>4 DEF IInv, Registered, Attached
<1> QED BY <1>4, <1>5 DEF Committable

LEMMA CommitStep ==
    ASSUME IInv, NEW t \in Tx, Commit(t)
    PROVE  IInv'
<1> USE StoreAssumption
<1>1. t \notin closed /\ t \notin Layers /\ Ready(t) /\ parent[t] = Top
  BY StackFacts, CommittableIsOnTop DEF Commit, IInv, Registered
<1>2. /\ UNCHANGED <<state, change, base, parent, children, known, db, late>>
      /\ call' = [call EXCEPT ![t] = "commit"] /\ closed' = closed \cup {t}
      /\ stack' = Append(stack, t)
  BY DEF Commit, txVars
<1>3. /\ stack \in Seq(Tx) /\ Len(stack) \in Nat /\ DOMAIN stack = 1..Len(stack)
      /\ stack' \in Seq(Tx) /\ DOMAIN stack' = 1..(Len(stack) + 1)
      /\ stack'[Len(stack) + 1] = t
      /\ \A i \in 1..Len(stack) : stack'[i] = stack[i]
      /\ \A i \in 1..(Len(stack) + 1) : i = Len(stack) + 1 \/ i \in 1..Len(stack)
  <2>1. stack \in Seq(Tx)
    BY DEF IInv, TypeOK
  <2>2. Len(stack) \in Nat /\ DOMAIN stack = 1..Len(stack)
    BY <2>1
  <2>3. /\ stack' \in Seq(Tx) /\ Len(stack') = Len(stack) + 1
        /\ stack'[Len(stack) + 1] = t
        /\ \A i \in 1..Len(stack) : stack'[i] = stack[i]
    BY <2>1, <1>2, AppendProperties
  <2>4. DOMAIN stack' = 1..(Len(stack) + 1)
    BY <2>3
  <2> QED BY <2>1, <2>2, <2>3, <2>4
<1>4. Layers' = Layers \cup {t}
  <2>1. Layers' \subseteq Layers \cup {t}
    BY <1>3 DEF Layers
  <2>2. Layers \subseteq Layers'
    BY <1>3 DEF Layers
  <2>3. t \in Layers'
    <3>1. Len(stack) + 1 \in DOMAIN stack'
      BY <1>3
    <3> QED BY <1>3, <3>1 DEF Layers
  <2> QED BY <2>1, <2>2, <2>3
<1>5. \A x \in Tx : Ready(x)' <=> Ready(x) /\ x # t
  BY <1>2 DEF Ready, IInv, TypeOK
<1>6. \A x \in Tx : Attached(x)' <=> Attached(x)
  BY <1>1, <1>4, <1>5 DEF Attached
<1>7. Registered'
  <2>1. Layers' = {x \in closed' : parent'[x] # Null}
    <3>1. parent[t] # Null
      BY <1>1, StackFacts DEF IInv
    <3>2. Layers = {x \in closed : parent[x] # Null}
      BY DEF IInv, Registered
    <3> QED BY <3>1, <3>2, <1>2, <1>4
  <2>2. \A i, j \in DOMAIN stack' : stack'[i] = stack'[j] => i = j
    <3>1. \A i \in 1..Len(stack) : stack[i] # t
      BY <1>1, <1>3 DEF Layers
    <3>2. \A i, j \in 1..Len(stack) : stack[i] = stack[j] => i = j
      BY <1>3 DEF IInv, Registered
    <3> QED BY <3>1, <3>2, <1>3
  <2>3. \A i \in DOMAIN stack' :
          parent'[stack'[i]] = IF i = 1 THEN Backend ELSE stack'[i - 1]
    <3> TAKE i \in DOMAIN stack'
    <3>1. CASE i = Len(stack) + 1
      <4>1. Top = IF i = 1 THEN Backend ELSE stack'[i - 1]
        BY <3>1, <1>3 DEF Top
      <4> QED BY <4>1, <3>1, <1>1, <1>2, <1>3
    <3>2. CASE i \in 1..Len(stack)
      <4>1. parent[stack[i]] = IF i = 1 THEN Backend ELSE stack[i - 1]
        BY <3>2, <1>3 DEF IInv, Registered
      <4>2. i # 1 => i - 1 \in 1..Len(stack)
        BY <3>2, <1>3
      <4> QED BY <4>1, <4>2, <3>2, <1>2, <1>3
    <3> QED BY <3>1, <3>2, <1>3
  <2>4. \A n \in Node : children'[n] = {x \in Tx : Attached(x)' /\ parent'[x] = n}
    BY <1>2, <1>6 DEF IInv, Registered
  <2>5. \A x \in Tx : Attached(x)' =>
          x \in known' /\ base'[x] = parent'[x] /\ parent'[x] \in Layers' \cup {Backend}
    BY <1>2, <1>4, <1>6 DEF IInv, Registered
  <2>6. /\ \A x \in closed' : call'[x] \in {"none", "commit", "threw"} /\ ~Ready(x)'
        /\ \A x \in Tx : state'[x] = "none" => x \notin closed' /\ call'[x] = "none"
    BY <1>1, <1>2, <1>5 DEF IInv, Registered, TypeOK, Ready
  <2> QED BY <2>1, <2>2, <2>3, <2>4, <2>5, <2>6, <1>2 DEF IInv, Registered
<1>8. run' = run => FlushStaysLegal'
  BY <1>2, <1>4 DEF IInv, FlushStaysLegal, Flushable, NoOpenChildren
<1>9. RunTyped' /\ FlushStaysLegal' /\ JobsAreLegal' /\ queue' \in Seq(Job)
  <2>1. CASE Flushable(t)'
    <3>1. Push([kind |-> "merge", tx |-> t])
      BY <2>1 DEF Commit
    <3> QED BY <3>1, <1>2, <1>7, <1>8, JobFacts, PushLegal
  <2>2. CASE ~Flushable(t)'
    BY <2>2, <1>2, <1>8, JobsUnchanged DEF Commit
  <2> QED BY <2>1, <2>2
<1>10. /\ log' \in Seq(Contents) /\ ver' \in [Node -> 1..Len(log')]
  <2>1. log \in Seq(Contents) /\ ver \in [Node -> 1..Len(log)] /\ t \in Node
    BY DEF IInv, TypeOK, Node
  <2>2. On(change[t], log[ver[t]]) \in Contents
    BY <2>1, OnType DEF IInv, TypeOK
  <2>3. /\ log' = Append(log, On(change[t], log[ver[t]]))
        /\ ver' = [ver EXCEPT ![t] = Len(log) + 1]
    BY DEF Commit
  <2>4. log' \in Seq(Contents) /\ Len(log') = Len(log) + 1 /\ Len(log) \in Nat
    BY <2>1, <2>2, <2>3, AppendProperties
  <2> QED BY <2>1, <2>3, <2>4
<1>11. TypeOK'
  BY <1>2, <1>3, <1>9, <1>10 DEF TypeOK, RunTyped, IInv
<1> QED BY <1>7, <1>9, <1>11 DEF IInv

LEMMA LeaveStep ==
    ASSUME IInv, NEW t \in Tx, NEW why \in {"abort", "conflict"}, Leave(t, why)
    PROVE  IInv'
<1> USE StoreAssumption
<1>1. /\ Ready(t) /\ t \notin closed /\ t \notin Layers /\ state[t] = "open"
      /\ parent[t] \in Node
  BY StackFacts DEF Leave, IInv, Registered, Ready, Attached, Node
<1>2. /\ UNCHANGED <<state, change, base, parent, closed, known, stack, db, history>>
      /\ Layers' = Layers
      /\ call' = [call EXCEPT ![t] = why]
      /\ children' = [children EXCEPT ![parent[t]] = @ \ {t}]
  BY DEF Leave, txVars, Layers
<1>3. \A x \in Tx : Ready(x)' <=> Ready(x) /\ x # t
  BY <1>2 DEF Ready, IInv, TypeOK
<1>4. \A x \in Tx : Attached(x)' <=> Attached(x) /\ x # t
  BY <1>1, <1>2, <1>3 DEF Attached
<1>5. \A n \in Node : children'[n] = children[n] \ {t}
  <2>1. \A n \in Node : n # parent[t] => t \notin children[n]
    BY DEF IInv, Registered
  <2> QED BY <2>1, <1>1, <1>2 DEF IInv, TypeOK
<1>6. Registered'
  <2>1. \A n \in Node : children'[n] = {x \in Tx : Attached(x)' /\ parent'[x] = n}
    BY <1>2, <1>4, <1>5 DEF IInv, Registered
  <2>2. \A x \in Tx : Attached(x)' =>
          x \in known' /\ base'[x] = parent'[x] /\ parent'[x] \in Layers' \cup {Backend}
    BY <1>2, <1>4 DEF IInv, Registered
  <2>3. /\ \A x \in closed' : call'[x] \in {"none", "commit", "threw"} /\ ~Ready(x)'
        /\ \A x \in Tx : state'[x] = "none" => x \notin closed' /\ call'[x] = "none"
    BY <1>1, <1>2, <1>3 DEF IInv, Registered, TypeOK
  <2> QED BY <2>1, <2>2, <2>3, <1>2 DEF IInv, Registered
<1>7. run' = run => FlushStaysLegal'
  <2>1. SUFFICES ASSUME run' = run, run.phase \in {"applying", "applied", "failed"}
                 PROVE  run.target \in Layers' \cap known' /\ Flushable(run.target)'
    BY DEF FlushStaysLegal
  <2>2. run.target \in Layers \cap known /\ Flushable(run.target)
    BY <2>1 DEF IInv, FlushStaysLegal
  <2>3. parent[run.target] \in Node
    BY <2>2, StackFacts DEF IInv
  <2>4. children[parent[run.target]] \subseteq closed /\ parent[run.target] # Null
    BY <2>2 DEF Flushable, NoOpenChildren
  <2>5. children'[parent[run.target]] \subseteq closed
    BY <2>3, <2>4, <1>5
  <2>6. parent' = parent /\ closed' = closed /\ known' = known
    BY <1>2
  <2> QED BY <2>1, <2>2, <2>4, <2>5, <2>6, <1>2 DEF Flushable, NoOpenChildren
<1>8. RunTyped' /\ FlushStaysLegal' /\ JobsAreLegal' /\ queue' \in Seq(Job)
  <2>1. CASE NoOpenChildren(parent[t])'
    <3>1. Push([kind |-> "all", tx |-> t])
      BY <2>1, <1>2 DEF Leave, NoOpenChildren
    <3> QED BY <3>1, <1>2, <1>6, <1>7, JobFacts, PushLegal
  <2>2. CASE ~NoOpenChildren(parent[t])'
    <3>1. UNCHANGED <<queue, run, snapVars>>
      BY <2>2, <1>2 DEF Leave, NoOpenChildren
    <3> QED BY <3>1, <1>2, <1>7, JobsUnchanged
  <2> QED BY <2>1, <2>2
<1>9. TypeOK'
  BY <1>1, <1>2, <1>5, <1>8 DEF TypeOK, RunTyped, IInv, history
<1> QED BY <1>6, <1>8, <1>9 DEF IInv

LEMMA ApplyStep ==
    ASSUME IInv, ApplyToBackend \/ ApplyToParent \/ ApplyFails
    PROVE  IInv'
<1> USE StoreAssumption
<1>1. /\ run.phase = "applying" /\ run \in Running
      /\ run.target \in Layers \cap known /\ Flushable(run.target)
  BY DEF ApplyToBackend, ApplyToParent, ApplyFails, IInv, FlushStaysLegal, TypeOK, Idle
<1>2. run.target \in Tx /\ parent[run.target] \in Node
  BY <1>1, StackFacts DEF IInv
<1>3. /\ UNCHANGED <<state, base, call, parent, children, closed, known, stack>>
      /\ UNCHANGED <<queue, snap, old, under, managed, log, late>>
      /\ Layers' = Layers
      /\ \E phase \in {"applied", "failed"} : run' = [run EXCEPT !.phase = phase]
  BY DEF ApplyToBackend, ApplyToParent, ApplyFails, infoVars, snapVars, txVars, history, Layers
<1>4. Registered'
  BY <1>3, NodesUnchanged DEF IInv, Registered, infoVars, Ready
<1>5. FlushStaysLegal'
  BY <1>1, <1>3 DEF FlushStaysLegal, Flushable, NoOpenChildren, Running
<1>6. run' \in Running /\ run'.job = run.job /\ run'.phase # "thrown" /\ run # Idle
  BY <1>1, <1>3 DEF Running, Phase, Idle
<1>7. RunTyped' /\ JobsAreLegal'
  <2>1. RunTyped'
    BY <1>3, <1>6 DEF RunTyped, IInv, TypeOK
  <2>2. JobsAreLegal'
    BY <1>3, <1>6 DEF JobsAreLegal, IInv
  <2> QED BY <2>1, <2>2
<1>8. change' \in [Tx -> Change] /\ db' \in Contents /\ ver' \in [Node -> 1..Len(log')]
  <2>1. CASE ApplyToBackend
    BY <2>1, <1>2, <1>3, OnType DEF ApplyToBackend, IInv, TypeOK, txVars, Node
  <2>2. CASE ApplyToParent
    <3>1. parent[run.target] \in Tx
      BY <2>2, <1>2 DEF ApplyToParent, Node
    <3>2. Merge(change[parent[run.target]], change[run.target]) \in Change
      BY <3>1, <1>2, ChangeType DEF IInv, TypeOK
    <3> QED BY <2>2, <3>1, <3>2, <1>2, <1>3 DEF ApplyToParent, IInv, TypeOK, Node
  <2>3. CASE ApplyFails
    BY <2>3 DEF ApplyFails, IInv, TypeOK, txVars, history
  <2> QED BY <2>1, <2>2, <2>3
<1>9. TypeOK'
  BY <1>3, <1>7, <1>8 DEF TypeOK, RunTyped, IInv
<1> QED BY <1>4, <1>5, <1>7, <1>9 DEF IInv

LEMMA ContinueStep ==
    ASSUME IInv, Continue
    PROVE  IInv'
<1>1. /\ UNCHANGED <<state, change, base, call, parent, children, closed, known, stack>>
      /\ UNCHANGED <<db, queue, log, ver, late>>
      /\ Layers' = Layers
  BY DEF Continue, txVars, infoVars, history, Layers
<1>2. Registered'
  BY <1>1, NodesUnchanged DEF IInv, Registered, infoVars, Ready
<1>3. run # Idle /\ run \in Running /\ run.job \in Job /\ run.job.kind = "all"
  BY DEF Continue, IInv, TypeOK, Running
<1>4. PICK end \in {"top", "bottom"}, t \in Layers : Attempt(run.job, end, t)
  BY StackFacts DEF Continue, IInv
<1>5. t \in Tx /\ t \in Layers'
  BY <1>1, StackFacts DEF IInv
<1>6. RunTyped' /\ RunLegal'
  BY <1>2, <1>3, <1>4, <1>5, AttemptLegal DEF IInv
<1>7. JobsAreLegal'
  BY <1>1, <1>6 DEF JobsAreLegal, RunLegal, IInv
<1>8. TypeOK'
  BY <1>1, <1>6 DEF TypeOK, RunTyped, IInv
<1> QED BY <1>2, <1>6, <1>7, <1>8 DEF IInv, RunLegal

LEMMA EndJobStep ==
    ASSUME IInv, EndJob
    PROVE  IInv'
<1> USE StoreAssumption
<1>1. /\ UNCHANGED <<state, change, base, parent, children, closed, known, stack>>
      /\ UNCHANGED <<db, log, ver, late>>
      /\ Layers' = Layers
  BY DEF EndJob, txVars, infoVars, history, Layers
<1>2. run \in Running /\ run.job \in Job
  BY DEF EndJob, IInv, TypeOK, Running
<1>5. /\ Registered'
      /\ call' \in [Tx -> {"none", "refused", "commit", "abort", "conflict", "threw"}]
  <2>1. CASE run.phase = "thrown" /\ run.job.tx # Null
    <3>1. run.job.tx \in Tx /\ run.job.tx \in closed
      BY <1>2, <2>1, JobFacts DEF IInv, JobsAreLegal
    <3>2. call' = [call EXCEPT ![run.job.tx] = "threw"]
      BY <2>1 DEF EndJob
    <3>3. ~Ready(run.job.tx)
      BY <3>1 DEF IInv, Registered
    <3>4. \A x \in Tx : Ready(x)' <=> Ready(x)
      BY <1>1, <3>1, <3>2, <3>3 DEF Ready, IInv, TypeOK
    <3>5. Registered'
      BY <1>1, <3>1, <3>2, <3>4, NodesUnchanged DEF IInv, Registered, infoVars, TypeOK
    <3> QED BY <3>2, <3>5 DEF IInv, TypeOK
  <2>2. CASE ~(run.phase = "thrown" /\ run.job.tx # Null)
    <3>1. call' = call
      BY <2>2 DEF EndJob
    <3> QED BY <1>1, <3>1, NodesUnchanged DEF IInv, Registered, infoVars, Ready, TypeOK
  <2> QED BY <2>1, <2>2
<1>6. RunTyped' /\ RunLegal' /\ queue' \in Seq(Job)
      /\ \A i \in DOMAIN queue' : queue'[i].kind = "merge" => queue'[i].tx \in closed'
  <2>1. queue \in Seq(Job)
    BY DEF IInv, TypeOK
  <2>2. CASE queue = <<>>
    <3>1. run' = Idle /\ queue' = queue /\ UNCHANGED snapVars
      BY <2>2 DEF EndJob
    <3>2. Idle'.phase = "idle" /\ Idle' = Idle
      BY DEF Idle
    <3> QED BY <2>1, <3>1, <3>2, <1>1
            DEF RunTyped, RunLegal, FlushStaysLegal, IInv, TypeOK, snapVars, JobsAreLegal
  <2>3. CASE queue # <<>>
    <3>1. queue' = Tail(queue) /\ Start(Head(queue))
      BY <2>3 DEF EndJob
    <3>2. /\ Head(queue) \in Job /\ Head(queue) = queue[1] /\ 1 \in DOMAIN queue
          /\ Tail(queue) \in Seq(Job)
      BY <2>1, <2>3
    <3>3. \A i \in DOMAIN queue' : i + 1 \in DOMAIN queue /\ queue'[i] = queue[i + 1]
      BY <2>1, <2>3, <3>1
    <3>4. \A i \in DOMAIN queue : queue[i].kind = "merge" => queue[i].tx \in closed
      BY DEF IInv, JobsAreLegal
    <3>5. RunTyped' /\ RunLegal'
      BY <3>1, <3>2, <3>4, <1>1, <1>5, StartLegal
    <3> QED BY <3>1, <3>2, <3>3, <3>4, <3>5, <1>1
  <2> QED BY <2>2, <2>3
<1>7. TypeOK'
  BY <1>1, <1>5, <1>6 DEF TypeOK, RunTyped, IInv
<1> QED BY <1>5, <1>6, <1>7 DEF IInv, JobsAreLegal, RunLegal

LEMMA SnapshotStep ==
    ASSUME IInv, NEW s \in Snap, Snapshots(s)
    PROVE  IInv'
<1> USE StoreAssumption
<1>1. UNCHANGED <<txVars, call, infoVars, db, queue, run, log, ver>>
  BY DEF Snapshots, StoreSnapshot, TxSnapshot, SnapshotAbort, history
<1>2. Registered'
  BY <1>1, NodesUnchanged DEF IInv, Registered, infoVars, txVars, Ready
<1>3. FlushStaysLegal' /\ JobsAreLegal'
  BY <1>1 DEF IInv, FlushStaysLegal, JobsAreLegal, Flushable, NoOpenChildren, infoVars,
              Layers, Idle
<1>4. Top \in Node
  BY StackFacts DEF IInv, Node
<1>5. /\ snap' \in [Snap -> {"none", "open", "aborted", "threw"}]
      /\ under' \in [Snap -> Node]
      /\ managed' \in [Node -> SUBSET Snap]
      /\ late' \subseteq Snap
  <2>1. ASSUME NEW n \in Node, NEW c, Register(s, n, c)
        PROVE  <1>5!1 /\ <1>5!2 /\ <1>5!3 /\ <1>5!4
    BY <2>1 DEF Register, IInv, TypeOK
  <2>2. CASE SnapshotThrows(s)
    BY <2>2 DEF SnapshotThrows, IInv, TypeOK
  <2>3. CASE StoreSnapshot(s)
    BY <1>4, <2>1, <2>2, <2>3 DEF StoreSnapshot
  <2>4. CASE SnapshotAbort(s)
    BY <2>4 DEF SnapshotAbort, IInv, TypeOK, history
  <2>5. ASSUME NEW t \in Tx, TxSnapshot(s, t)
        PROVE  <1>5!1 /\ <1>5!2 /\ <1>5!3 /\ <1>5!4
    <3>1. CASE Register(s, t, NoChange) \/ Register(s, Top, change[t]) \/ SnapshotThrows(s)
      BY <1>4, <2>1, <2>2, <3>1 DEF Node
    <3>2. CASE /\ snap' = [snap EXCEPT ![s] = "threw"]
               /\ under' = [under EXCEPT ![s] = Top]
               /\ managed' = [managed EXCEPT ![Top] = @ \cup {s}]
               /\ UNCHANGED <<old, late>>
      BY <1>4, <3>2 DEF IInv, TypeOK
    <3> QED BY <2>5, <3>1, <3>2 DEF TxSnapshot
  <2> QED BY <2>3, <2>4, <2>5 DEF Snapshots
<1>6. TypeOK'
  BY <1>1, <1>5 DEF TypeOK, IInv, txVars, infoVars, Idle
<1> QED BY <1>2, <1>3, <1>6 DEF IInv

LEMMA CleanupStep ==
    ASSUME IInv, Cleanup
    PROVE  IInv'
<1> USE StoreAssumption
<1> DEFINE t == run.target
           p == parent[t]
<1>1. /\ t \in Layers \cap known /\ Flushable(t) /\ run \in Running
      /\ t \in Tx /\ t \in closed /\ p \in Node /\ p # t
  BY StackFacts DEF Cleanup, IInv, FlushStaysLegal, TypeOK, Idle
<1>2. /\ children' = [children EXCEPT ![p] = (@ \ {t}) \cup children[t], ![t] = {}]
      /\ parent' = [x \in Tx |-> IF x = t THEN Null
                                 ELSE IF x \in children[t] THEN p ELSE parent[x]]
      /\ base' = [x \in Tx |-> IF x \in children[t] THEN p ELSE base[x]]
      /\ known' = known \ {t}
      /\ \E i \in DOMAIN stack : stack[i] = t /\ stack' = RemoveAt(stack, i)
      /\ state' = IF run.phase = "failed" THEN [state EXCEPT ![t] = "aborted"] ELSE state
      /\ queue' = Append(queue, [kind |-> "all", tx |-> Null])
      /\ run' = [run EXCEPT !.phase = "true"]
      /\ UNCHANGED <<change, call, closed, db, snapVars, history>>
  BY DEF Cleanup, Flush
<1> HIDE DEF p, t
<1>3. stack \in Seq(Tx) /\ Len(stack) \in Nat /\ DOMAIN stack = 1..Len(stack)
  BY DEF IInv, TypeOK
<1>4. PICK k \in 1..Len(stack) : stack[k] = t /\ stack' = RemoveAt(stack, k)
  BY <1>2, <1>3
<1>5. /\ stack' \in Seq(Tx) /\ DOMAIN stack' = 1..(Len(stack) - 1)
      /\ \A j \in 1..(Len(stack) - 1) : stack'[j] = IF j < k THEN stack[j] ELSE stack[j + 1]
  <2>1. /\ stack' \in Seq(Tx) /\ Len(stack') = Len(stack) - 1
        /\ \A j \in 1..(Len(stack) - 1) : stack'[j] = IF j < k THEN stack[j] ELSE stack[j + 1]
    BY <1>3, <1>4, RemoveAtFacts
  <2> QED BY <2>1
<1>6. /\ \A i, j \in 1..Len(stack) : stack[i] = stack[j] => i = j
      /\ \A i \in 1..Len(stack) :
           parent[stack[i]] = IF i = 1 THEN Backend ELSE stack[i - 1]
  BY <1>3 DEF IInv, Registered
<1>7. Layers' = Layers \ {t}
  <2>1. \A j \in DOMAIN stack' : stack'[j] \in Layers /\ stack'[j] # t
    <3> TAKE j \in DOMAIN stack'
    <3>1. CASE j < k
      BY <3>1, <1>3, <1>4, <1>5, <1>6 DEF Layers
    <3>2. CASE ~(j < k)
      <4>1. j + 1 \in 1..Len(stack) /\ j + 1 # k
        BY <3>2, <1>3, <1>5
      <4> QED BY <4>1, <3>2, <1>3, <1>4, <1>5, <1>6 DEF Layers
    <3> QED BY <3>1, <3>2
  <2>2. ASSUME NEW l \in Layers, l # t
        PROVE  l \in Layers'
    <3>1. PICK i \in 1..Len(stack) : l = stack[i]
      BY <1>3 DEF Layers
    <3>2. CASE i < k
      <4>1. i \in 1..(Len(stack) - 1)
        BY <3>2, <1>3
      <4>2. stack'[i] = l
        BY <4>1, <3>1, <3>2, <1>5
      <4> QED BY <4>1, <4>2, <1>5 DEF Layers
    <3>3. CASE k < i
      <4>1. i - 1 \in 1..(Len(stack) - 1) /\ ~(i - 1 < k) /\ (i - 1) + 1 = i
        BY <3>3, <1>3
      <4>2. stack'[i - 1] = l
        BY <4>1, <3>1, <1>5
      <4> QED BY <4>1, <4>2, <1>5 DEF Layers
    <3> QED BY <2>2, <3>1, <3>2, <3>3, <1>3, <1>4
  <2> QED BY <2>1, <2>2 DEF Layers
<1>8. \A x \in Tx : Ready(x)' <=> Ready(x)
  BY <1>1, <1>2 DEF Ready, IInv, TypeOK, Registered
<1>9. \A x \in Tx : Attached(x)' <=> Attached(x) /\ x # t
  <2>1. ~Ready(t)
    BY <1>1 DEF IInv, Registered
  <2> QED BY <2>1, <1>7, <1>8 DEF Attached
<1>10. \A n \in Node : \A x : x \in children[n] <=> x \in Tx /\ Attached(x) /\ parent[x] = n
  BY DEF IInv, Registered
<1>11. /\ \A x \in Tx : x # t /\ x \notin children[t] => parent'[x] = parent[x] /\ base'[x] = base[x]
       /\ \A x \in Tx : x # t /\ x \in children[t] => parent'[x] = p /\ base'[x] = p
       /\ parent'[t] = Null
  BY <1>1, <1>2
<1>12. t \in Node /\ t \notin children[t] /\ parent[t] = p
  BY <1>1, <1>10 DEF p, Node
<1>13. \A n \in Node : children'[n] = IF n = t THEN {}
                                      ELSE IF n = p THEN (children[n] \ {t}) \cup children[t]
                                      ELSE children[n]
  BY <1>1, <1>2, <1>12 DEF IInv, TypeOK
<1>14. Layers \subseteq Tx /\ Layers \subseteq closed /\ \A x \in Layers : Attached(x)
  BY StackFacts DEF IInv, Attached
<1>15. \A i \in DOMAIN stack' :
         parent'[stack'[i]] = IF i = 1 THEN Backend ELSE stack'[i - 1]
  <2> TAKE j \in DOMAIN stack'
  <2>1. j \in 1..(Len(stack) - 1) /\ k \in 1..Len(stack)
    BY <1>5
  <2>2. CASE j < k
    <3>1. /\ j \in 1..Len(stack) /\ stack'[j] = stack[j] /\ stack[j] # t
          /\ stack[j] \in Tx
      BY <2>1, <2>2, <1>3, <1>4, <1>5, <1>6
    <3>2. j # 1 => /\ j - 1 \in 1..Len(stack) /\ j - 1 # k
                   /\ stack'[j - 1] = stack[j - 1]
      BY <2>1, <2>2, <1>3, <1>5
    <3>3. parent[stack[j]] = IF j = 1 THEN Backend ELSE stack[j - 1]
      BY <3>1, <1>6
    <3>4. parent[stack[j]] # t
      BY <3>2, <3>3, <1>1, <1>4, <1>6
    <3>5. stack[j] \notin children[t]
      BY <3>4, <1>10, <1>12
    <3> QED BY <3>1, <3>2, <3>3, <3>5, <1>11
  <2>3. CASE j = k
    <3>1. /\ j + 1 \in 1..Len(stack) /\ stack'[j] = stack[j + 1] /\ (j + 1) - 1 = k
          /\ j + 1 # 1 /\ j + 1 # k
      BY <2>1, <2>3, <1>3, <1>5
    <3>2. parent[stack[j + 1]] = t /\ stack[j + 1] # t /\ stack[j + 1] \in Layers
      BY <3>1, <1>3, <1>4, <1>6 DEF Layers
    <3>3. parent'[stack[j + 1]] = p
      BY <3>2, <1>10, <1>11, <1>12, <1>14
    <3>4. p = IF k = 1 THEN Backend ELSE stack[k - 1]
      BY <1>4, <1>6, <1>12
    <3>5. k # 1 => stack'[k - 1] = stack[k - 1]
      BY <2>1, <2>3, <1>3, <1>5
    <3> QED BY <2>3, <3>1, <3>3, <3>4, <3>5
  <2>4. CASE j > k
    <3>1. /\ j + 1 \in 1..Len(stack) /\ stack'[j] = stack[j + 1] /\ (j + 1) - 1 = j
          /\ j + 1 # 1 /\ j + 1 # k /\ j # 1 /\ j \in 1..Len(stack)
          /\ j - 1 \in 1..(Len(stack) - 1) /\ ~(j - 1 < k) /\ (j - 1) + 1 = j
      BY <2>1, <2>4, <1>3, <1>5
    <3>2. /\ parent[stack[j + 1]] = stack[j] /\ stack[j] # t /\ stack[j + 1] # t
          /\ stack[j + 1] \in Tx /\ stack'[j - 1] = stack[j]
      BY <2>4, <3>1, <1>3, <1>4, <1>5, <1>6
    <3>3. stack[j + 1] \notin children[t]
      BY <3>2, <1>10, <1>12
    <3> QED BY <3>1, <3>2, <3>3, <1>11
  <2> QED BY <2>1, <2>2, <2>3, <2>4, <1>3
<1>16. \A i, j \in DOMAIN stack' : stack'[i] = stack'[j] => i = j
  <2> TAKE i, j \in DOMAIN stack'
  <2>1. /\ i \in 1..(Len(stack) - 1) /\ j \in 1..(Len(stack) - 1) /\ k \in 1..Len(stack)
        /\ i \in 1..Len(stack) /\ i + 1 \in 1..Len(stack)
        /\ j \in 1..Len(stack) /\ j + 1 \in 1..Len(stack)
    BY <1>3, <1>5
  <2> QED BY <2>1, <1>3, <1>5, <1>6
<1>17. Layers' = {x \in closed' : parent'[x] # Null}
  <2>1. \A x \in closed : parent[x] # Null <=> x \in Layers
    BY DEF IInv, Registered
  <2>2. closed' = closed /\ closed \subseteq Tx
    BY <1>2 DEF IInv, TypeOK
  <2>3. \A x \in closed : x \in children[t] => x \in Layers
    BY <1>10, <1>12 DEF IInv, Registered, Attached
  <2>4. p # Null
    BY <1>1 DEF Node
  <2>5. \A x \in closed : x # t => (parent'[x] # Null <=> x \in Layers)
    BY <2>1, <2>2, <2>3, <2>4, <1>11
  <2> QED BY <2>2, <2>5, <1>7, <1>11, <1>14
<1>18. \A n \in Node : children'[n] = {x \in Tx : Attached(x)' /\ parent'[x] = n}
  <2> TAKE n \in Node
  <2>1. \A x \in Tx : x \in children'[n] <=> Attached(x)' /\ parent'[x] = n
    <3> TAKE x \in Tx
    <3>1. CASE x = t
      <4>1. x \notin children'[n]
        <5>1. n # p => t \notin children[n]
          BY <1>10, <1>12
        <5> QED BY <3>1, <5>1, <1>12, <1>13
      <4> QED BY <3>1, <4>1, <1>9
    <3>2. CASE x # t /\ x \in children[t]
      <4>1. Attached(x) /\ parent[x] = t /\ parent'[x] = p
        BY <3>2, <1>10, <1>11, <1>12
      <4>2. n # t => x \notin children[n]
        BY <4>1, <1>10
      <4>3. x \in children'[n] <=> n = p
        BY <3>2, <4>2, <1>1, <1>13
      <4> QED BY <3>2, <4>1, <4>3, <1>9
    <3>3. CASE x # t /\ x \notin children[t]
      <4>1. x \in children[n] <=> Attached(x) /\ parent[x] = n
        BY <1>10
      <4>2. x \in children'[n] <=> x \in children[n]
        BY <3>3, <1>13
      <4>3. parent'[x] = parent[x]
        BY <3>3, <1>11
      <4> QED BY <3>3, <4>1, <4>2, <4>3, <1>9
    <3> QED BY <3>1, <3>2, <3>3
  <2>2. children'[n] \subseteq Tx
    <3>1. \A m \in Node : children[m] \subseteq Tx
      BY DEF IInv, TypeOK
    <3> QED BY <3>1, <1>12, <1>13
  <2> QED BY <2>1, <2>2
<1>19. \A x \in Tx : Attached(x)' =>
         x \in known' /\ base'[x] = parent'[x] /\ parent'[x] \in Layers' \cup {Backend}
  <2> TAKE x \in Tx
  <2> SUFFICES ASSUME Attached(x)'
               PROVE  x \in known' /\ base'[x] = parent'[x] /\ parent'[x] \in Layers' \cup {Backend}
    OBVIOUS
  <2>1. Attached(x) /\ x # t /\ x \in known' /\ base[x] = parent[x]
        /\ parent[x] \in Layers \cup {Backend} /\ p \in Layers \cup {Backend}
    BY <1>1, <1>2, <1>9, <1>12, <1>14 DEF IInv, Registered
  <2>2. CASE x \in children[t]
    BY <2>1, <2>2, <1>1, <1>7, <1>11
  <2>3. CASE x \notin children[t]
    BY <2>1, <2>3, <1>7, <1>10, <1>11, <1>12
  <2> QED BY <2>2, <2>3
<1>20. /\ \A x \in closed' : call'[x] \in {"none", "commit", "threw"} /\ ~Ready(x)'
       /\ \A x \in Tx : state'[x] = "none" => x \notin closed' /\ call'[x] = "none"
  <2>1. closed \subseteq Tx /\ closed' = closed /\ call' = call
    BY <1>2 DEF IInv, TypeOK
  <2>2. \A x \in Tx : state'[x] = "none" => state[x] = "none"
    BY <1>1, <1>2 DEF IInv, TypeOK
  <2> QED BY <2>1, <2>2, <1>8 DEF IInv, Registered
<1>21. Registered'
  BY <1>15, <1>16, <1>17, <1>18, <1>19, <1>20 DEF Registered, Node
<1>22. run' \in Running /\ run'.phase = "true" /\ run'.job = run.job /\ run # Idle
  BY <1>1, <1>2 DEF Running, Phase, Idle
<1>23. FlushStaysLegal'
  BY <1>22 DEF FlushStaysLegal
<1>24. queue' \in Seq(Job)
       /\ \A i \in DOMAIN queue' : queue'[i].kind = "merge" => queue'[i].tx \in closed
  <2> DEFINE job == [kind |-> "all", tx |-> Null]
  <2>1. queue \in Seq(Job) /\ job \in Job /\ job.kind = "all"
    BY JobFacts DEF IInv, TypeOK
  <2>2. queue' = Append(queue, job)
    BY <1>2
  <2> HIDE DEF job
  <2>3. /\ queue' \in Seq(Job) /\ Len(queue') = Len(queue) + 1 /\ queue'[Len(queue) + 1] = job
        /\ \A i \in 1..Len(queue) : queue'[i] = queue[i]
    BY <2>1, <2>2, AppendProperties
  <2>4. /\ DOMAIN queue = 1..Len(queue) /\ Len(queue) \in Nat
        /\ DOMAIN queue' = 1..(Len(queue) + 1)
    BY <2>1, <2>3
  <2>5. \A i \in 1..(Len(queue) + 1) : i = Len(queue) + 1 \/ i \in 1..Len(queue)
    BY <2>4
  <2>6. \A i \in DOMAIN queue : queue[i].kind = "merge" => queue[i].tx \in closed
    BY DEF IInv, JobsAreLegal
  <2> QED BY <2>1, <2>3, <2>4, <2>5, <2>6
<1>25. RunTyped' /\ JobsAreLegal'
  <2>1. RunTyped'
    BY <1>2, <1>22 DEF RunTyped, IInv, TypeOK, snapVars
  <2>2. JobsAreLegal'
    BY <1>2, <1>22, <1>24 DEF JobsAreLegal, IInv
  <2> QED BY <2>1, <2>2
<1>26. TypeOK'
  <2>1. state' \in [Tx -> {"none", "open", "committed", "aborted", "conflicted"}]
    BY <1>2 DEF IInv, TypeOK
  <2>2. parent' \in [Tx -> Node \cup {Null}] /\ base' \in [Tx -> Node]
    BY <1>1, <1>2 DEF IInv, TypeOK
  <2>3. children' \in [Node -> SUBSET Tx]
    BY <1>2, <1>10, <1>12, <1>13 DEF IInv, TypeOK
  <2> QED BY <2>1, <2>2, <2>3, <1>2, <1>5, <1>24, <1>25 DEF IInv, TypeOK, RunTyped, history
<1> QED BY <1>21, <1>23, <1>25, <1>26 DEF IInv

-----------------------------------------------------------------------------
(***************************************************************************)
(* The theorems                                                            *)
(***************************************************************************)

\* Every step of a client, of the synchronizer or of a snapshot, and every
\* stuttering step, keeps the inductive invariant.
LEMMA NextStep == IInv /\ [Next]_vars => IInv'
<1> SUFFICES ASSUME IInv, [Next]_vars PROVE IInv'
  OBVIOUS
<1>1. ASSUME NEW t \in Tx, Client(t) PROVE IInv'
  <2>1. CASE Open(t)
    BY <2>1, OpenStep
  <2>2. CASE TxTruncate(t) \/ \E k \in Key : TxPut(t, k) \/ TxRemove(t, k)
    BY <2>2, WriteStep
  <2>3. CASE Commit(t)
    BY <2>3, CommitStep
  <2>4. CASE CommitRefused(t)
    BY <2>4, CommitRefusedStep
  <2>5. CASE CommitConflict(t) \/ Abort(t)
    BY <2>5, LeaveStep DEF CommitConflict, Abort
  <2> QED BY <1>1, <2>1, <2>2, <2>3, <2>4, <2>5 DEF Client
<1>2. ASSUME NEW t \in Tx, Finish(t) PROVE IInv'
  BY <1>2, FinishCommitStep, FinishLeaveStep DEF Finish
<1>3. CASE Synchronizer
  BY <1>3, ApplyStep, CleanupStep, ContinueStep, EndJobStep DEF Synchronizer
<1>4. ASSUME NEW s \in Snap, Snapshots(s) PROVE IInv'
  BY <1>4, SnapshotStep
<1>5. CASE UNCHANGED vars
  <2>1. UNCHANGED <<state, change, base, call, parent, children, closed, known, stack>>
        /\ UNCHANGED <<db, queue, run, snap, under, managed, log, ver, late>>
    BY <1>5 DEF vars, txVars, infoVars, snapVars, history
  <2>2. TypeOK'
    BY <2>1 DEF IInv, TypeOK, Idle
  <2>3. Registered'
    BY <2>1, NodesUnchanged DEF IInv, Registered, infoVars, Ready
  <2>4. JobsAreLegal' /\ FlushStaysLegal'
    BY <2>1 DEF IInv, JobsAreLegal, FlushStaysLegal, Flushable, NoOpenChildren, Layers, Idle
  <2> QED BY <2>2, <2>3, <2>4 DEF IInv
<1> QED BY <1>1, <1>2, <1>3, <1>4, <1>5 DEF Next

\* The inductive invariant holds in every state of every behaviour.
THEOREM InductiveInvariant == Spec => []IInv
<1> QED BY InitStep, NextStep, PTL DEF Spec

\* Type correctness of the object store.
THEOREM TypeCorrect == Spec => []TypeOK
<1>1. IInv => TypeOK
  BY DEF IInv
<1> QED BY <1>1, InductiveInvariant, PTL

\* The registration of transactions and layers is exact at every step: see
\* Registered.
THEOREM RegistrationIsExact == Spec => [](Registered /\ JobsAreLegal)
<1>1. IInv => Registered /\ JobsAreLegal
  BY DEF IInv
<1> QED BY <1>1, InductiveInvariant, PTL

\* A merge that was legal when it began stays legal until its clean-up, whatever
\* transactions open, commit, abort or conflict while the backend works.
THEOREM FlushIsLegal == Spec => []FlushStaysLegal
<1>1. IInv => FlushStaysLegal
  BY DEF IInv
<1> QED BY <1>1, InductiveInvariant, PTL

\* Every state has at most one committed successor, for any number of
\* concurrent transactions and any stack size.
THEOREM StackStaysChain == Spec => []StackIsChain
<1>1. IInv => StackIsChain
  <2> SUFFICES ASSUME IInv PROVE StackIsChain
    OBVIOUS
  <2>1. /\ Layers \subseteq Tx /\ Layers \subseteq closed /\ Top \in Node
        /\ \A l \in Layers : parent[l] # Top /\ parent[l] \in Node
        /\ \A l, m \in Layers : parent[l] = parent[m] => l = m
    BY StackFacts DEF IInv, Node
  <2>2. \A n \in Node : children[n] \cap closed = {l \in Layers : parent[l] = n}
    BY <2>1 DEF IInv, Registered, Attached
  <2>3. \A i \in DOMAIN stack : stack[i] \in Layers
    BY DEF Layers
  <2>4. \A i \in DOMAIN stack : children[parent[stack[i]]] \cap closed = {stack[i]}
    <3> TAKE i \in DOMAIN stack
    <3>1. stack[i] \in Layers /\ parent[stack[i]] \in Node
      BY <2>1, <2>3
    <3>2. {l \in Layers : parent[l] = parent[stack[i]]} = {stack[i]}
      BY <2>1, <3>1
    <3> QED BY <2>2, <3>1, <3>2
  <2>5. children[Top] \cap closed = {}
    BY <2>1, <2>2
  <2> QED BY <2>4, <2>5 DEF StackIsChain, IInv, Registered
<1> QED BY <1>1, InductiveInvariant, PTL

-----------------------------------------------------------------------------
(***************************************************************************)
(* No lost wake-up: whatever frees an end of the stack leaves a job that   *)
(* will look at it.                                                        *)
(***************************************************************************)

Jobs == {queue[i] : i \in DOMAIN queue}

Held(n) == ~NoOpenChildren(n)

\* A job is waiting, or a merge under way, after which both ends are looked at.
Busy ==
    \/ \E job \in Jobs : job.kind = "all" \/ job.tx \in known
    \/ run.phase \in {"applying", "applied", "failed"}

\* The "all" job is done with the newest state and turns to the oldest.
Turning == run # Idle /\ run.job.kind = "all" /\ run.end = "top" /\ run.phase = "false"

\* A waiting merge that finds its transaction can go on: nobody comes to read the
\* state below a layer that is not the newest state.
MergesCanRun ==
    \A job \in Jobs : job.kind = "merge" /\ job.tx \in known => Flushable(job.tx)

EndsHeld == Held(parent[Top]) /\ (Held(Backend) \/ Turning)

WInv ==
    /\ run = Idle => queue = <<>>
    /\ MergesCanRun
    /\ stack # <<>> => Busy \/ EndsHeld

LEMMA JobsTyped == TypeOK => queue \in Seq(Job) /\ Jobs \subseteq Job
<1> SUFFICES ASSUME TypeOK PROVE queue \in Seq(Job) /\ Jobs \subseteq Job
  OBVIOUS
<1>1. queue \in Seq(Job)
  BY DEF TypeOK
<1>2. \A i \in DOMAIN queue : queue[i] \in Job
  BY <1>1
<1> QED BY <1>1, <1>2 DEF Jobs

LEMMA JobsAppended ==
    ASSUME queue \in Seq(Job), NEW job \in Job, queue' = Append(queue, job)
    PROVE  Jobs' = Jobs \cup {job}
<1>1. /\ DOMAIN queue = 1..Len(queue) /\ Len(queue) \in Nat /\ queue' \in Seq(Job)
      /\ Len(queue') = Len(queue) + 1 /\ queue'[Len(queue) + 1] = job
      /\ \A i \in 1..Len(queue) : queue'[i] = queue[i]
  BY AppendProperties
<1>2. DOMAIN queue' = 1..(Len(queue) + 1)
  BY <1>1
<1>3. \A i \in 1..(Len(queue) + 1) : i = Len(queue) + 1 \/ i \in 1..Len(queue)
  BY <1>1
<1>4. Jobs' \subseteq Jobs \cup {job}
  BY <1>1, <1>2, <1>3 DEF Jobs
<1>5. Len(queue) + 1 \in DOMAIN queue' /\ \A i \in 1..Len(queue) : i \in DOMAIN queue'
  BY <1>1, <1>2
<1> QED BY <1>1, <1>4, <1>5 DEF Jobs

LEMMA JobsTaken ==
    ASSUME queue \in Seq(Job), queue # <<>>, queue' = Tail(queue)
    PROVE  Head(queue) \in Jobs /\ Jobs' \subseteq Jobs /\ Jobs \subseteq Jobs' \cup {Head(queue)}
<1>1. /\ DOMAIN queue = 1..Len(queue) /\ Len(queue) \in Nat /\ 1 \in DOMAIN queue
      /\ Head(queue) = queue[1] /\ DOMAIN queue' = 1..(Len(queue) - 1)
      /\ \A i \in 1..(Len(queue) - 1) : queue'[i] = queue[i + 1]
  OBVIOUS
<1>2. \A i \in 1..(Len(queue) - 1) : i + 1 \in 1..Len(queue)
  BY <1>1
<1>3. ASSUME NEW i \in 1..Len(queue), i # 1
      PROVE  i - 1 \in 1..(Len(queue) - 1) /\ (i - 1) + 1 = i
  BY <1>1, <1>3
<1>4. Jobs' \subseteq Jobs
  BY <1>1, <1>2 DEF Jobs
<1>5. ASSUME NEW i \in 1..Len(queue), i # 1
      PROVE  queue[i] \in Jobs'
  <2>1. queue'[i - 1] = queue[i] /\ i - 1 \in DOMAIN queue'
    BY <1>1, <1>3, <1>5
  <2> QED BY <2>1 DEF Jobs
<1> QED BY <1>1, <1>4, <1>5 DEF Jobs

\* Looking at the newest state: it is being merged, or it is held.
LEMMA TopIsTried ==
    ASSUME IInv, IInv', stack # <<>>, UNCHANGED stack,
           NEW job \in Job, job.kind = "all", Attempt(job, "top", Top)
    PROVE  Busy' \/ EndsHeld'
<1>1. run' = [job |-> job, end |-> "top", target |-> Top, phase |-> Outcome(Top)']
  BY DEF Attempt
<1>2. Top' = Top /\ Top' \in Layers'
  BY StackFacts DEF Top, IInv, Layers
<1>3. Top' \in known' /\ parent'[Top] # Null
  BY <1>2, StackFacts, StoreAssumption DEF IInv, Registered, Attached
<1>4. run' # Idle'
  BY <1>1, StoreAssumption DEF Idle, Outcome
<1>5. CASE Flushable(Top)'
  BY <1>1, <1>2, <1>3, <1>5 DEF Outcome, Busy
<1>6. CASE ~Flushable(Top)'
  <2>1. Outcome(Top)' = "false" /\ Held(parent[Top])'
    BY <1>2, <1>3, <1>6 DEF Outcome, Flushable, Held
  <2> QED BY <1>1, <1>4, <2>1 DEF EndsHeld, Turning
<1> QED BY <1>5, <1>6

\* An "all" job that is pushed, or that starts, looks at the newest state.
LEMMA AllIsTried ==
    ASSUME IInv, IInv', UNCHANGED stack, NEW job \in Job, job.kind = "all", Start(job)
    PROVE  stack' # <<>> => Busy' \/ EndsHeld'
BY TopIsTried DEF Start

LEMMA StartIsWork ==
    ASSUME NEW job, Start(job)
    PROVE  run' # Idle'
<1>1. \/ \E end, t : run' = [job |-> job, end |-> end, target |-> t, phase |-> Outcome(t)']
      \/ run' = [job |-> job, end |-> "bottom", target |-> Null, phase |-> "false"]
  BY DEF Start, Attempt
<1> QED BY <1>1, StoreAssumption DEF Idle, Outcome

\* A step that leaves the jobs alone, frees no layer and forgets no job's
\* transaction.
LEMMA HeldKept ==
    ASSUME IInv, WInv, UNCHANGED <<queue, run, stack>>,
           \A l \in Layers : parent'[l] = parent[l],
           \A n \in Node : Held(n) => Held(n)',
           \A t \in Tx : t \in closed => (t \in known <=> t \in known'),
           \A l \in Layers : Flushable(l) => Flushable(l)'
    PROVE  WInv'
<1>1. Jobs' = Jobs /\ Jobs \subseteq Job /\ Top' = Top /\ Idle' = Idle
  BY JobsTyped DEF Jobs, Top, Idle, IInv
<1>2. \A job \in Jobs : job.kind = "merge" => job.tx \in closed /\ job.tx \in Tx
  BY <1>1, JobFacts DEF Jobs, IInv, JobsAreLegal
<1>3. \A job \in Jobs : job.kind \in {"merge", "all"}
  BY <1>1, JobFacts
<1>4. MergesCanRun'
  <2>1. ASSUME NEW job \in Jobs, job.kind = "merge", job.tx \in known'
        PROVE  Flushable(job.tx)'
    <3>1. Flushable(job.tx) /\ job.tx \in closed /\ job.tx \in Tx
      BY <1>2, <2>1 DEF WInv, MergesCanRun
    <3>2. job.tx \in Layers
      BY <3>1 DEF Flushable, IInv, Registered
    <3> QED BY <3>1, <3>2
  <2> QED BY <1>1, <2>1 DEF MergesCanRun
<1>5. Busy => Busy'
  BY <1>1, <1>2, <1>3 DEF Busy
<1>6. stack # <<>> /\ EndsHeld => EndsHeld'
  <2>1. stack # <<>> => Top \in Layers /\ parent[Top] \in Node /\ Backend \in Node
    BY StackFacts DEF IInv, Node
  <2> QED BY <1>1, <2>1 DEF EndsHeld, Turning
<1> QED BY <1>1, <1>4, <1>5, <1>6 DEF WInv

LEMMA WInvInit == Init => WInv
<1> SUFFICES ASSUME Init PROVE WInv
  OBVIOUS
<1>1. queue = <<>> /\ Jobs = {}
  BY DEF Init, Jobs
<1> QED BY <1>1 DEF Init, WInv, MergesCanRun

\* Steps of clients and snapshots that move no transaction.
LEMMA QuietHeld ==
    ASSUME IInv, WInv, UNCHANGED <<queue, run, stack, parent, children, closed>>,
           \A t \in Tx : t \in closed => (t \in known <=> t \in known')
    PROVE  WInv'
BY HeldKept DEF Held, NoOpenChildren, Flushable

LEMMA OpenHeld ==
    ASSUME IInv, WInv, NEW t \in Tx, Open(t)
    PROVE  WInv'
<1>1. /\ UNCHANGED <<queue, run, stack, closed>> /\ known' = known \cup {t}
      /\ parent' = [parent EXCEPT ![t] = Top]
      /\ children' = [children EXCEPT ![Top] = @ \cup {t}]
  BY DEF Open, snapVars
<1>2. t \notin closed /\ Top \in Node
  BY StackFacts DEF Open, IInv, Registered, Node
<1>3. \A n \in Node : children'[n] = IF n = Top THEN children[n] \cup {t} ELSE children[n]
  BY <1>1, <1>2 DEF IInv, TypeOK
<1>4. /\ \A l \in Layers : l \in Tx /\ l # t /\ parent[l] # Top /\ parent[l] \in Node
      /\ \A l \in Layers : parent'[l] = parent[l]
  BY <1>1, <1>2, StackFacts DEF IInv, TypeOK
<1>5. \A n \in Node : Held(n) => Held(n)'
  BY <1>1, <1>3 DEF Held, NoOpenChildren
<1>6. \A l \in Layers : Flushable(l) => Flushable(l)'
  BY <1>1, <1>3, <1>4 DEF Flushable, NoOpenChildren
<1> QED BY <1>1, <1>2, <1>4, <1>5, <1>6, HeldKept

LEMMA CommitHeld ==
    ASSUME IInv, IInv', WInv, NEW t \in Tx, Commit(t)
    PROVE  WInv'
<1>1. /\ UNCHANGED <<parent, children, known>> /\ closed' = closed \cup {t}
      /\ stack' = Append(stack, t) /\ Ready(t) /\ t \in known /\ parent[t] = Top
  BY CommittableIsOnTop DEF Commit, IInv, Registered, Attached
<1>2. stack \in Seq(Tx) /\ Top' = t /\ stack' # <<>>
  <2>1. stack \in Seq(Tx)
    BY DEF IInv, TypeOK
  <2>2. Len(stack') = Len(stack) + 1 /\ stack'[Len(stack) + 1] = t /\ Len(stack) \in Nat
    BY <1>1, <2>1, AppendProperties
  <2> QED BY <2>1, <2>2 DEF Top
<1>3. \A x \in Tx : Flushable(x) => Flushable(x)'
  BY <1>1 DEF Flushable, NoOpenChildren
<1>4. queue \in Seq(Job) /\ Jobs \subseteq Job /\ [kind |-> "merge", tx |-> t] \in Job
  BY JobsTyped, JobFacts DEF IInv
<1>5. \A job \in Jobs : job.kind = "merge" /\ job.tx \in known => Flushable(job.tx)'
  BY <1>3, <1>4, JobFacts DEF WInv, MergesCanRun
<1>6. CASE Flushable(t)'
  <2> DEFINE job == [kind |-> "merge", tx |-> t]
  <2>1. Push(job)
    BY <1>6 DEF Commit
  <2>2. job.kind = "merge" /\ job.tx = t
    OBVIOUS
  <2>3. CASE run = Idle
    <3>1. Attempt(job, "top", t) /\ queue' = queue
      BY <2>1, <2>2, <2>3 DEF Push, Start
    <3>2. run'.phase = "applying"
      BY <1>1, <1>6, <3>1 DEF Attempt, Outcome
    <3>3. run' # Idle' /\ Jobs' = Jobs
      BY <3>1, <3>2 DEF Idle, Jobs
    <3> QED BY <1>1, <1>5, <3>2, <3>3 DEF WInv, MergesCanRun, Busy
  <2>4. CASE run # Idle
    <3> HIDE DEF job
    <3>1. queue' = Append(queue, job) /\ run' = run
      BY <2>1, <2>4 DEF Push
    <3>2. Jobs' = Jobs \cup {job}
      BY <1>4, <3>1, JobsAppended DEF job
    <3>3. run' # Idle'
      BY <2>4, <3>1 DEF Idle
    <3> QED BY <1>1, <1>5, <1>6, <2>2, <3>2, <3>3 DEF WInv, MergesCanRun, Busy
  <2> QED BY <2>3, <2>4
<1>7. CASE ~Flushable(t)'
  <2>1. UNCHANGED <<queue, run>> /\ Jobs' = Jobs /\ Idle' = Idle
    BY <1>7 DEF Commit, Jobs, Idle
  <2>2. parent[t] # Null
    BY <1>1, StackFacts, StoreAssumption DEF IInv
  <2>3. Held(parent[Top])'
    BY <1>1, <1>2, <1>7, <2>2 DEF Flushable, Held
  <2>4. Busy => Busy'
    BY <1>1, <2>1 DEF Busy
  <2>5. stack = <<>> => Held(Backend)'
    BY <1>1, <1>2, <2>3 DEF Top
  <2>6. stack # <<>> /\ Held(Backend) => Held(Backend)'
    <3>1. stack # <<>> => t \notin children[Backend]
      BY <1>1, StackFacts, StoreAssumption DEF IInv, Registered, Node
    <3> QED BY <1>1, <3>1 DEF Held, NoOpenChildren
  <2>7. Turning => Turning'
    BY <2>1 DEF Turning
  <2>8. Busy' \/ EndsHeld'
    BY <2>3, <2>4, <2>5, <2>6, <2>7 DEF WInv, EndsHeld
  <2>9. MergesCanRun'
    BY <1>1, <1>5, <2>1 DEF MergesCanRun
  <2> QED BY <2>1, <2>8, <2>9 DEF WInv
<1> QED BY <1>6, <1>7

LEMMA LeaveHeld ==
    ASSUME IInv, IInv', WInv, NEW t \in Tx, NEW why \in {"abort", "conflict"}, Leave(t, why)
    PROVE  WInv'
<1>1. /\ UNCHANGED <<parent, closed, known, stack>> /\ Ready(t) /\ parent[t] \in Node
      /\ children' = [children EXCEPT ![parent[t]] = @ \ {t}]
  BY StackFacts, StoreAssumption DEF Leave, IInv, Registered, Attached, Node
<1>2. \A n \in Node : children'[n] = IF n = parent[t] THEN children[n] \ {t} ELSE children[n]
  BY <1>1 DEF IInv, TypeOK
<1>3. \A l \in Layers : Flushable(l) => Flushable(l)'
  <2>1. \A l \in Layers : l \in Tx /\ parent[l] \in Node
    BY StackFacts DEF IInv
  <2> QED BY <1>1, <1>2, <2>1 DEF Flushable, NoOpenChildren
<1>4. CASE NoOpenChildren(parent[t])'
  <2> DEFINE job == [kind |-> "all", tx |-> t]
  <2>1. Push(job)
    BY <1>1, <1>4 DEF Leave, NoOpenChildren
  <2>2. job.kind = "all" /\ job \in Job
    BY JobFacts
  <2> HIDE DEF job
  <2>3. queue \in Seq(Job) /\ Jobs \subseteq Job
    BY JobsTyped DEF IInv
  <2>4. \A j \in Jobs : j.kind = "merge" /\ j.tx \in known => Flushable(j.tx)'
    <3> TAKE j \in Jobs
    <3> HAVE j.kind = "merge" /\ j.tx \in known
    <3>1. j.tx \in closed /\ Flushable(j.tx)
      BY DEF Jobs, IInv, JobsAreLegal, WInv, MergesCanRun
    <3>2. j.tx \in Layers
      BY <3>1 DEF IInv, Registered, Flushable
    <3> QED BY <1>3, <3>1, <3>2
  <2>5. CASE run = Idle
    <3>1. Start(job) /\ queue' = queue
      BY <2>1, <2>5 DEF Push
    <3>2. stack' # <<>> => Busy' \/ EndsHeld'
      BY <1>1, <2>2, <3>1, AllIsTried
    <3>3. run' # Idle' /\ Jobs' = Jobs
      BY <3>1, StartIsWork DEF Jobs
    <3> QED BY <1>1, <2>4, <3>2, <3>3 DEF WInv, MergesCanRun
  <2>6. CASE run # Idle
    <3>1. queue' = Append(queue, job) /\ run' = run
      BY <2>1, <2>6 DEF Push
    <3>2. Jobs' = Jobs \cup {job}
      BY <2>2, <2>3, <3>1, JobsAppended
    <3>3. run' # Idle'
      BY <2>6, <3>1 DEF Idle
    <3> QED BY <1>1, <2>2, <2>4, <3>2, <3>3 DEF WInv, MergesCanRun, Busy
  <2> QED BY <2>5, <2>6
<1>5. CASE ~NoOpenChildren(parent[t])'
  <2>1. UNCHANGED <<queue, run>>
    BY <1>1, <1>5 DEF Leave, NoOpenChildren
  <2>2. \A n \in Node : Held(n) => Held(n)'
    BY <1>1, <1>2, <1>5 DEF Held, NoOpenChildren
  <2> QED BY <1>1, <1>3, <2>1, <2>2, HeldKept
<1> QED BY <1>4, <1>5

LEMMA ApplyHeld ==
    ASSUME IInv, WInv, ApplyToBackend \/ ApplyToParent \/ ApplyFails
    PROVE  WInv'
<1>1. /\ UNCHANGED <<parent, children, closed, known, stack, queue>>
      /\ run.phase = "applying"
      /\ \E phase \in {"applied", "failed"} : run' = [run EXCEPT !.phase = phase]
  BY DEF ApplyToBackend, ApplyToParent, ApplyFails, infoVars
<1>2. run \in Running
  BY <1>1 DEF IInv, TypeOK, Idle
<1>3. run'.phase \in {"applied", "failed"}
  BY <1>1, <1>2 DEF Running
<1>4. run' # Idle' /\ Jobs' = Jobs
  BY <1>1, <1>3 DEF Idle, Jobs
<1>5. MergesCanRun'
  BY <1>1, <1>4 DEF WInv, MergesCanRun, Flushable, NoOpenChildren
<1> QED BY <1>3, <1>4, <1>5 DEF WInv, Busy

LEMMA CleanupHeld ==
    ASSUME IInv, WInv, Cleanup
    PROVE  WInv'
<1> USE StoreAssumption
<1> DEFINE t == run.target
           p == parent[t]
           all == [kind |-> "all", tx |-> Null]
<1>1. /\ t \in Layers /\ Flushable(t) /\ run \in Running /\ t \in Tx /\ t \in closed
      /\ p \in Node /\ p # t
  BY StackFacts DEF Cleanup, IInv, FlushStaysLegal, TypeOK, Idle
<1>2. /\ children' = [children EXCEPT ![p] = (@ \ {t}) \cup children[t], ![t] = {}]
      /\ parent' = [x \in Tx |-> IF x = t THEN Null
                                 ELSE IF x \in children[t] THEN p ELSE parent[x]]
      /\ known' = known \ {t} /\ closed' = closed
      /\ queue' = Append(queue, all)
      /\ run' = [run EXCEPT !.phase = "true"]
  BY DEF Cleanup, Flush
<1>3. queue \in Seq(Job) /\ Jobs \subseteq Job /\ all \in Job /\ all.kind = "all"
  BY JobsTyped, JobFacts DEF IInv
<1> HIDE DEF p, t, all
<1>4. Jobs' = Jobs \cup {all}
  BY <1>2, <1>3, JobsAppended
<1>5. \A n \in Node : children'[n] = IF n = t THEN {}
                                     ELSE IF n = p THEN (children[n] \ {t}) \cup children[t]
                                     ELSE children[n]
  BY <1>1, <1>2 DEF IInv, TypeOK, Node
<1>6. children[p] \subseteq closed
  BY <1>1 DEF Flushable, NoOpenChildren, p
<1>7. ASSUME NEW l \in Layers, l # t, Flushable(l)
      PROVE  Flushable(l)'
  <2>1. l \in Tx /\ parent[l] \in Node /\ children[parent[l]] \subseteq closed
    BY <1>7, StackFacts DEF IInv, Flushable, NoOpenChildren
  <2>2. parent[l] # p
    BY <1>1, <1>7, StackFacts DEF IInv, p
  <2>3. l \in children[t] <=> parent[l] = t
    BY <1>1, <1>7, <2>1 DEF IInv, Registered, Attached, Node
  <2>4. CASE parent[l] = t
    <3>1. parent'[l] = p
      BY <1>2, <1>7, <2>1, <2>3, <2>4
    <3>2. children'[p] \subseteq closed
      BY <1>1, <1>5, <1>6, <2>1, <2>4
    <3> QED BY <1>1, <1>2, <3>1, <3>2 DEF Flushable, NoOpenChildren, Node
  <2>5. CASE parent[l] # t
    <3>1. parent'[l] = parent[l]
      BY <1>2, <1>7, <2>1, <2>3, <2>5
    <3>2. children'[parent[l]] = children[parent[l]]
      BY <1>5, <2>1, <2>2, <2>5
    <3> QED BY <1>2, <2>1, <3>1, <3>2 DEF Flushable, NoOpenChildren, Node
  <2> QED BY <2>4, <2>5
<1>8. MergesCanRun'
  <2>1. ASSUME NEW job \in Jobs, job.kind = "merge", job.tx \in known'
        PROVE  Flushable(job.tx)'
    <3>1. job.tx \in closed /\ job.tx # t /\ Flushable(job.tx)
      BY <1>2, <2>1 DEF Jobs, IInv, JobsAreLegal, WInv, MergesCanRun
    <3>2. job.tx \in Layers
      BY <3>1 DEF IInv, Registered, Flushable
    <3> QED BY <1>7, <3>1, <3>2
  <2> QED BY <1>3, <1>4, <2>1 DEF MergesCanRun
<1>9. run' # Idle'
  BY <1>1, <1>2 DEF Idle, Running
<1> QED BY <1>3, <1>4, <1>8, <1>9 DEF WInv, Busy

LEMMA ContinueHeld ==
    ASSUME IInv, IInv', WInv, Continue
    PROVE  WInv'
<1>1. /\ UNCHANGED <<parent, children, closed, known, stack, queue>>
      /\ run # Idle /\ run.job.kind = "all" /\ stack # <<>> /\ run.phase \in {"true", "false"}
      /\ \/ Attempt(run.job, "top", Top)
         \/ Attempt(run.job, "bottom", stack[1])
  BY DEF Continue, infoVars
<1>2. run.job \in Job
  BY <1>1 DEF IInv, TypeOK, Running
<1>3. Jobs' = Jobs /\ Top' = Top
  BY <1>1 DEF Jobs, Top
<1>4. MergesCanRun'
  BY <1>1, <1>3 DEF WInv, MergesCanRun, Flushable, NoOpenChildren
<1>5. run' # Idle'
  <2>1. run'.phase = Outcome(Top)' \/ run'.phase = Outcome(stack[1])'
    BY <1>1 DEF Attempt
  <2>2. run'.phase # "idle"
    BY <2>1 DEF Outcome
  <2> QED BY <2>2 DEF Idle
<1>6. CASE Attempt(run.job, "top", Top)
  BY <1>1, <1>2, <1>4, <1>5, <1>6, TopIsTried DEF WInv
<1>7. CASE Attempt(run.job, "bottom", stack[1])
  <2>1. stack[1] \in Layers /\ stack[1] \in known /\ parent[stack[1]] = Backend
    <3>1. stack[1] \in Layers /\ Layers \subseteq Tx
      BY <1>1, StackFacts DEF IInv
    <3>2. 1 \in DOMAIN stack
      BY <1>1 DEF IInv, TypeOK
    <3> QED BY <3>1, <3>2 DEF IInv, Registered, Attached
  <2>2. run'.phase = Outcome(stack[1])'
    BY <1>7 DEF Attempt
  <2>3. CASE Flushable(stack[1])
    <3>1. run'.phase = "applying"
      BY <1>1, <2>1, <2>2, <2>3 DEF Outcome, Flushable, NoOpenChildren
    <3> QED BY <1>4, <1>5, <3>1 DEF WInv, Busy
  <2>4. CASE ~Flushable(stack[1])
    <3>1. Held(Backend)'
      BY <1>1, <2>1, <2>4, StoreAssumption DEF Flushable, Held, NoOpenChildren
    <3>2. EndsHeld => EndsHeld'
      BY <1>1, <1>3, <3>1 DEF EndsHeld, Held, NoOpenChildren
    <3>3. Busy => Busy'
      BY <1>1, <1>3 DEF Busy
    <3> QED BY <1>1, <1>4, <1>5, <3>2, <3>3 DEF WInv
  <2> QED BY <2>3, <2>4
<1> QED BY <1>1, <1>6, <1>7

LEMMA EndJobHeld ==
    ASSUME IInv, IInv', WInv, EndJob
    PROVE  WInv'
<1>1. /\ UNCHANGED <<parent, children, closed, known, stack>> /\ run # Idle /\ Finished
      /\ IF queue = <<>>
           THEN run' = Idle /\ UNCHANGED <<queue, snapVars>>
           ELSE /\ queue' = Tail(queue)
                /\ \E job \in {Head(queue)} : Start(job)
  BY DEF EndJob, infoVars
<1>2. queue \in Seq(Job) /\ Jobs \subseteq Job /\ Top' = Top /\ run \in Running
  BY <1>1, JobsTyped DEF IInv, TypeOK, Top
<1>3. run.phase \in {"thrown", "true", "false"} /\ ~Turning
  <2>1. run.phase = "thrown" => ~Turning
    BY DEF Turning
  <2>2. run.job.kind = "merge" => ~Turning
    BY DEF Turning
  <2>3. run.phase = "true" => ~Turning
    BY DEF Turning
  <2>4. run.end = "bottom" => ~Turning
    BY DEF Turning
  <2> QED BY <1>1, <2>1, <2>2, <2>3, <2>4 DEF Finished
<1>4. EndsHeld => EndsHeld'
  BY <1>1, <1>2, <1>3 DEF EndsHeld, Held, NoOpenChildren
<1>5. CASE queue = <<>>
  <2>1. run' = Idle /\ queue' = <<>> /\ Jobs = {} /\ Jobs' = {} /\ Idle' = Idle
    BY <1>1, <1>5 DEF Jobs, Idle
  <2>2. ~Busy
    BY <1>3, <2>1 DEF Busy
  <2> QED BY <1>1, <1>4, <2>1, <2>2 DEF WInv, MergesCanRun
<1>6. CASE queue # <<>>
  <2>1. PICK job : job = Head(queue) /\ queue' = Tail(queue) /\ Start(job)
    BY <1>1, <1>6
  <2>2. job \in Jobs /\ Jobs' \subseteq Jobs /\ Jobs \subseteq Jobs' \cup {job}
    BY <1>2, <1>6, <2>1, JobsTaken
  <2>3. run' # Idle'
    BY <2>1, StartIsWork
  <2>4. MergesCanRun'
    BY <1>1, <2>2 DEF WInv, MergesCanRun, Flushable, NoOpenChildren
  <2>5. CASE job.kind = "all"
    <3>1. stack' # <<>> => Busy' \/ EndsHeld'
      BY <1>1, <1>2, <2>1, <2>2, <2>5, AllIsTried
    <3> QED BY <2>3, <2>4, <3>1 DEF WInv
  <2>6. CASE job.kind = "merge"
    <3>1. run'.phase = Outcome(job.tx)'
      <4>1. Attempt(job, "top", job.tx)
        BY <2>1, <2>6 DEF Start
      <4> QED BY <4>1 DEF Attempt
    <3>2. CASE job.tx \in known
      <4>1. Flushable(job.tx)' /\ job.tx \in known'
        BY <1>1, <2>2, <2>6, <3>2 DEF WInv, MergesCanRun, Flushable, NoOpenChildren
      <4>2. run'.phase = "applying"
        BY <3>1, <4>1 DEF Outcome
      <4> QED BY <2>3, <2>4, <4>2 DEF WInv, Busy
    <3>3. CASE job.tx \notin known
      <4>1. Busy => Busy'
        BY <1>1, <1>3, <2>2, <2>6, <3>3 DEF Busy
      <4> QED BY <1>1, <1>4, <2>3, <2>4, <4>1 DEF WInv
    <3> QED BY <3>2, <3>3
  <2> QED BY <1>2, <2>2, <2>5, <2>6, JobFacts
<1> QED BY <1>5, <1>6

LEMMA NextHeld ==
    ASSUME IInv, IInv', WInv, [Next]_vars
    PROVE  WInv'
<1>1. ASSUME NEW t \in Tx, Client(t) PROVE WInv'
  <2>1. CASE Open(t)
    BY <2>1, OpenHeld
  <2>2. CASE TxTruncate(t) \/ \E k \in Key : TxPut(t, k) \/ TxRemove(t, k)
    <3>1. UNCHANGED <<queue, run, stack, parent, children, closed, known>>
      BY <2>2 DEF TxTruncate, TxPut, TxRemove, Modify, infoVars
    <3> QED BY <3>1, QuietHeld
  <2>3. CASE Commit(t)
    BY <2>3, CommitHeld
  <2>4. CASE CommitRefused(t)
    <3>1. UNCHANGED <<queue, run, stack, parent, children, closed, known>>
      BY <2>4 DEF CommitRefused, infoVars
    <3> QED BY <3>1, QuietHeld
  <2>5. CASE CommitConflict(t) \/ Abort(t)
    BY <2>5, LeaveHeld DEF CommitConflict, Abort
  <2> QED BY <1>1, <2>1, <2>2, <2>3, <2>4, <2>5 DEF Client
<1>2. ASSUME NEW t \in Tx, Finish(t) PROVE WInv'
  <2>1. CASE FinishCommit(t)
    <3>1. UNCHANGED <<queue, run, stack, parent, children, closed, known>>
      BY <2>1 DEF FinishCommit, infoVars
    <3> QED BY <3>1, QuietHeld
  <2>2. CASE FinishLeave(t)
    <3>1. /\ UNCHANGED <<queue, run, stack, parent, children, closed>>
          /\ known' = known \ {t} /\ call[t] \in {"abort", "conflict"}
      BY <2>2 DEF FinishLeave
    <3>2. t \notin closed
      BY <3>1 DEF IInv, Registered
    <3> QED BY <3>1, <3>2, QuietHeld
  <2> QED BY <1>2, <2>1, <2>2 DEF Finish
<1>3. CASE Synchronizer
  BY <1>3, ApplyHeld, CleanupHeld, ContinueHeld, EndJobHeld DEF Synchronizer
<1>4. ASSUME NEW s \in Snap, Snapshots(s) PROVE WInv'
  <2>1. UNCHANGED <<queue, run, stack, parent, children, closed, known>>
    BY <1>4 DEF Snapshots, StoreSnapshot, TxSnapshot, SnapshotAbort, infoVars
  <2> QED BY <2>1, QuietHeld
<1>5. CASE UNCHANGED vars
  <2>1. UNCHANGED <<queue, run, stack, parent, children, closed, known>>
    BY <1>5 DEF vars, infoVars
  <2> QED BY <2>1, QuietHeld
<1> QED BY <1>1, <1>2, <1>3, <1>4, <1>5 DEF Next

\* Layers that are left while the synchronizer rests are held at both ends by open
\* transactions, for any number of transactions and any stack size: no flush is
\* forgotten, and a full stack is the doing of its readers.
THEOREM LayersStayHeld == Spec => []LayersAreHeld
<1>1. IInv /\ WInv => LayersAreHeld
  <2> SUFFICES ASSUME IInv, WInv, run = Idle, stack # <<>>,
                      NEW n \in {Backend, parent[Top]}
               PROVE  \E t \in Tx : Ready(t) /\ base[t] = n
    BY DEF LayersAreHeld
  <2>1. queue = <<>> /\ Jobs = {} /\ run.phase = "idle"
    BY DEF WInv, Jobs, Idle
  <2>2. Held(n)
    BY <2>1 DEF WInv, Busy, EndsHeld, Turning
  <2>3. n \in Node
    BY StackFacts DEF IInv, Node
  <2>4. PICK t \in children[n] : t \notin closed
    BY <2>2 DEF Held, NoOpenChildren
  <2>5. t \in Tx /\ Attached(t) /\ parent[t] = n /\ base[t] = parent[t]
    BY <2>3, <2>4 DEF IInv, Registered
  <2>6. t \notin Layers
    BY <2>4, StackFacts DEF IInv
  <2> QED BY <2>5, <2>6 DEF Attached
<1>2. Spec => []WInv
  <2>1. IInv /\ IInv' /\ WInv /\ [Next]_vars => WInv'
    BY NextHeld
  <2> QED BY <2>1, WInvInit, InductiveInvariant, PTL DEF Spec
<1> QED BY <1>1, <1>2, InductiveInvariant, PTL

-----------------------------------------------------------------------------
(***************************************************************************)
(* Flushing is invisible: merging layers downwards never changes what the  *)
(* backend and each layer stand for in the history of committed states.    *)
(*                                                                         *)
(* Proved for stores whose clients do not truncate and whose backend never *)
(* refuses a write; with either the property is false (a truncated layer   *)
(* cannot be merged into a committed one, see ApplyFails).                 *)
(***************************************************************************)

HInv ==
    /\ IInv
    /\ LayersMatchHistory
    /\ \A t \in Tx : ~change[t].truncated
    /\ run.phase # "failed"
    /\ run.phase = "applied" => ver[parent[run.target]] = ver[run.target]

\* The part of HInv beyond IInv and LayersMatchHistory.
Extra ==
    /\ \A t \in Tx : ~change[t].truncated
    /\ run.phase # "failed"
    /\ run.phase = "applied" => ver[parent[run.target]] = ver[run.target]

\* What every layer and every usable transaction is based on.
LEMMA BaseFacts ==
    ASSUME IInv
    PROVE  /\ \A l \in Layers : l \in Tx /\ base[l] = parent[l]
                                /\ base[l] \in Layers \cup {Backend}
           /\ \A t \in Tx : Ready(t) => /\ base[t] = parent[t] /\ t \notin Layers
                                        /\ base[t] \in Layers \cup {Backend}
           /\ Top \in Layers \cup {Backend}
<1>1. Layers \subseteq Tx /\ Layers \subseteq closed /\ Top \in Layers \cup {Backend}
  BY StackFacts DEF IInv
<1>2. \A t \in Tx : Attached(t) => base[t] = parent[t] /\ parent[t] \in Layers \cup {Backend}
  BY DEF IInv, Registered
<1>3. \A t \in closed : ~Ready(t)
  BY DEF IInv, Registered
<1> QED BY <1>1, <1>2, <1>3 DEF Attached

\* A step that changes no difference, no base, no layer and no history, and
\* makes no transaction usable.
LEMMA HistoryUnchanged ==
    ASSUME LayersMatchHistory, UNCHANGED <<change, base, db, log, ver, stack>>,
           \A t \in Tx : Ready(t)' => Ready(t)
    PROVE  LayersMatchHistory'
<1>1. Top' = Top /\ Layers' = Layers
  BY DEF Top, Layers
<1> QED BY <1>1 DEF LayersMatchHistory

\* A job that starts neither has applied anything nor has failed.
LEMMA AttemptExtra ==
    ASSUME NEW job, NEW end, NEW t, Attempt(job, end, t)
    PROVE  run'.phase \notin {"applied", "failed"}
BY DEF Attempt, Outcome

LEMMA StartExtra ==
    ASSUME NEW job, Start(job)
    PROVE  run'.phase \notin {"applied", "failed"}
BY AttemptExtra DEF Start

LEMMA PushExtra ==
    ASSUME NEW job, Push(job)
    PROVE  run' = run \/ run'.phase \notin {"applied", "failed"}
BY StartExtra DEF Push

-----------------------------------------------------------------------------
LEMMA WriteHistory ==
    ASSUME HInv, ~Truncates, NEW t \in Tx,
           TxTruncate(t) \/ \E k \in Key : TxPut(t, k) \/ TxRemove(t, k)
    PROVE  LayersMatchHistory' /\ Extra'
<1>1. PICK c : Modify(t, c) /\ ~c.truncated
  <2>1. change[t] \in Change /\ ~change[t].truncated
    BY DEF HInv, IInv, TypeOK
  <2>2. ~TxTruncate(t)
    BY DEF TxTruncate
  <2>3. ASSUME NEW k \in Key, NEW v
        PROVE  ~PutKey(change[t], k, v).truncated /\ ~RemoveKey(change[t], k).truncated
    BY <2>1 DEF PutKey, RemoveKey, Change
  <2> QED BY <2>2, <2>3 DEF TxPut, TxRemove
<1>2. /\ UNCHANGED <<state, call, base, parent, db, log, ver, stack, run>>
      /\ \A x \in Tx : x # t => change'[x] = change[x]
      /\ \A x \in Tx : ~change'[x].truncated
      /\ Ready(t)
  BY <1>1 DEF Modify, infoVars, history, HInv, IInv, TypeOK
<1>3. Top' = Top /\ Layers' = Layers /\ \A x \in Tx : Ready(x)' <=> Ready(x)
  BY <1>2 DEF Top, Layers, Ready
<1>4. \A l \in Layers : l \in Tx /\ l # t
  BY <1>2, BaseFacts DEF HInv
<1>5. LayersMatchHistory'
  BY <1>2, <1>3, <1>4 DEF HInv, LayersMatchHistory
<1> QED BY <1>2, <1>5 DEF Extra, HInv

LEMMA OpenHistory ==
    ASSUME HInv, NEW t \in Tx, Open(t)
    PROVE  LayersMatchHistory' /\ Extra'
<1> USE StoreAssumption
<1>1. t \notin Layers /\ ~Ready(t) /\ t # Backend
  BY BaseFacts DEF Open, HInv, Ready, IInv, Registered, Layers
<1>2. /\ UNCHANGED <<change, call, db, log, stack, run>> /\ Top' = Top /\ Layers' = Layers
      /\ state' = [state EXCEPT ![t] = "open"]
      /\ base'[t] = Top /\ ver'[t] = ver[Top]
      /\ \A x \in Tx : x # t => parent'[x] = parent[x] /\ base'[x] = base[x]
      /\ \A n \in Node : n # t => ver'[n] = ver[n]
  BY DEF Open, Top, Layers, HInv, IInv, TypeOK, Node
<1>3. /\ \A l \in Layers : l \in Tx /\ base[l] \in Layers \cup {Backend}
      /\ \A x \in Tx : Ready(x) => base[x] \in Layers \cup {Backend}
      /\ Top \in Layers \cup {Backend}
  BY BaseFacts DEF HInv
<1>4. \A n \in Layers \cup {Backend} : n \in Node /\ ver'[n] = ver[n]
  BY <1>1, <1>2, <1>3 DEF Node
<1>5. \A x \in Tx : Ready(x)' => Ready(x) \/ x = t
  BY <1>2 DEF Ready, HInv, IInv, TypeOK
<1>6. LayersMatchHistory'
  BY <1>1, <1>2, <1>3, <1>4, <1>5 DEF HInv, LayersMatchHistory, Node
<1>7. run.phase = "applied" =>
        ver'[parent'[run.target]] = ver'[run.target]
  <2>1. SUFFICES ASSUME run.phase = "applied"
                 PROVE  ver'[parent'[run.target]] = ver'[run.target]
    OBVIOUS
  <2>2. run.target \in Layers /\ parent[run.target] \in Layers \cup {Backend}
    BY <2>1, BaseFacts DEF HInv, IInv, FlushStaysLegal
  <2> QED BY <2>1, <2>2, <1>1, <1>2, <1>3, <1>4 DEF HInv
<1> QED BY <1>2, <1>6, <1>7 DEF Extra, HInv

LEMMA CommitHistory ==
    ASSUME HInv, NEW t \in Tx, Commit(t)
    PROVE  LayersMatchHistory' /\ Extra'
<1> USE StoreAssumption
<1>1. /\ Ready(t) /\ t \notin Layers /\ t # Backend /\ parent[t] = Top
      /\ base[t] = Top /\ Top \in Layers \cup {Backend}
  BY BaseFacts, CommittableIsOnTop DEF Commit, HInv
<1>2. /\ UNCHANGED <<state, change, base, parent, db>>
      /\ call' = [call EXCEPT ![t] = "commit"]
      /\ stack' = Append(stack, t)
      /\ log' = Append(log, On(change[t], log[ver[t]]))
      /\ ver' = [ver EXCEPT ![t] = Len(log) + 1]
  BY DEF Commit, txVars
<1>3. /\ stack \in Seq(Tx) /\ log \in Seq(Contents) /\ ver \in [Node -> 1..Len(log)]
      /\ On(change[t], log[ver[t]]) \in Contents /\ t \in Node
  <2>1. log \in Seq(Contents) /\ ver \in [Node -> 1..Len(log)] /\ change[t] \in Change
        /\ stack \in Seq(Tx)
    BY DEF HInv, IInv, TypeOK
  <2> QED BY <2>1, OnType DEF Node
<1>4. /\ Len(log') = Len(log) + 1 /\ Len(log) \in Nat
      /\ log'[Len(log) + 1] = On(change[t], log[ver[t]])
      /\ \A i \in 1..Len(log) : log'[i] = log[i]
  BY <1>2, <1>3, AppendProperties
<1>5. Top' = t /\ Layers' \subseteq Layers \cup {t}
  <2>1. /\ Len(stack') = Len(stack) + 1 /\ stack' # <<>> /\ Len(stack) \in Nat
        /\ stack'[Len(stack) + 1] = t
        /\ \A i \in 1..Len(stack) : stack'[i] = stack[i]
        /\ DOMAIN stack = 1..Len(stack) /\ stack' \in Seq(Tx)
    <3>1. stack \in Seq(Tx) /\ Len(stack) \in Nat /\ DOMAIN stack = 1..Len(stack)
      BY <1>3
    <3> QED BY <3>1, <1>2, AppendProperties
  <2>2. DOMAIN stack' = 1..(Len(stack) + 1)
    BY <2>1
  <2> QED BY <2>1, <2>2 DEF Top, Layers
<1>6. \A n \in Node : n # t => ver'[n] = ver[n] /\ log'[ver'[n]] = log[ver[n]]
  BY <1>2, <1>3, <1>4
<1>7. \A x \in Tx : Ready(x)' => Ready(x) /\ x # t
  BY <1>2 DEF Ready, HInv, IInv, TypeOK
<1>8. /\ \A l \in Layers : l \in Tx /\ base[l] \in Layers \cup {Backend}
      /\ \A x \in Tx : Ready(x) => base[x] \in Layers \cup {Backend}
  BY BaseFacts DEF HInv
<1>9. \A n \in Layers \cup {Backend} : n \in Node /\ n # t
  BY <1>1, <1>8 DEF Node
<1>10. ver[t] = ver[Top]
  BY <1>1 DEF HInv, LayersMatchHistory
<1>11. LayersMatchHistory'
  <2>1. db' = log'[ver'[Backend]]
    BY <1>2, <1>6, <1>9 DEF HInv, LayersMatchHistory
  <2>2. ver'[Top'] = Len(log')
    BY <1>2, <1>3, <1>4, <1>5
  <2>3. ASSUME NEW l \in Layers'
        PROVE  log'[ver'[l]] = On(change'[l], log'[ver'[base'[l]]])
    <3>1. CASE l = t
      <4>1. log'[ver'[t]] = On(change[t], log[ver[t]])
        BY <1>2, <1>3, <1>4
      <4>2. log'[ver'[base'[t]]] = log[ver[t]]
        BY <1>1, <1>2, <1>6, <1>9, <1>10
      <4> QED BY <3>1, <4>1, <4>2, <1>2
    <3>2. CASE l \in Layers
      <4>1. log[ver[l]] = On(change[l], log[ver[base[l]]])
        BY <3>2 DEF HInv, LayersMatchHistory
      <4>2. l \in Node /\ l # t /\ base[l] \in Node /\ base[l] # t
        BY <3>2, <1>8, <1>9
      <4>3. log'[ver'[l]] = log[ver[l]] /\ log'[ver'[base[l]]] = log[ver[base[l]]]
        BY <4>2, <1>6
      <4> QED BY <4>1, <4>3, <1>2
    <3> QED BY <3>1, <3>2, <1>5
  <2>4. \A x \in Tx : Ready(x)' => ver'[x] = ver'[base'[x]]
    BY <1>2, <1>6, <1>7, <1>8, <1>9 DEF HInv, LayersMatchHistory, Node
  <2> QED BY <2>1, <2>2, <2>3, <2>4 DEF LayersMatchHistory
<1>12. run' = run \/ run'.phase \notin {"applied", "failed"}
  BY PushExtra DEF Commit
<1>13. run.phase = "applied" => ver'[parent[run.target]] = ver'[run.target]
  <2>1. SUFFICES ASSUME run.phase = "applied"
                 PROVE  ver'[parent[run.target]] = ver'[run.target]
    OBVIOUS
  <2>2. run.target \in Layers /\ parent[run.target] \in Layers \cup {Backend}
    BY <2>1, BaseFacts DEF HInv, IInv, FlushStaysLegal
  <2> QED BY <2>1, <2>2, <1>6, <1>9 DEF HInv
<1> QED BY <1>2, <1>11, <1>12, <1>13 DEF Extra, HInv

LEMMA QuietHistory ==
    ASSUME HInv, NEW t \in Tx,
           \/ CommitRefused(t) \/ FinishCommit(t) \/ FinishLeave(t)
           \/ \E why \in {"abort", "conflict"} : Leave(t, why)
    PROVE  LayersMatchHistory' /\ Extra'
<1>1. UNCHANGED <<change, base, parent, db, log, ver, stack>>
  BY DEF CommitRefused, FinishCommit, FinishLeave, Leave, txVars, infoVars, history
<1>2. \A x \in Tx : Ready(x)' => Ready(x)
  BY DEF CommitRefused, FinishCommit, FinishLeave, Leave, txVars, Ready, HInv, IInv, TypeOK
<1>3. run' = run \/ run'.phase \notin {"applied", "failed"}
  BY PushExtra DEF CommitRefused, FinishCommit, FinishLeave, Leave
<1> QED BY <1>1, <1>2, <1>3, HistoryUnchanged DEF Extra, HInv

LEMMA JobHistory ==
    ASSUME HInv, Continue \/ EndJob \/ \E s \in Snap : Snapshots(s)
    PROVE  LayersMatchHistory' /\ Extra'
<1>1. UNCHANGED <<change, base, parent, db, log, ver, stack, state>>
  BY DEF Continue, EndJob, Snapshots, StoreSnapshot, TxSnapshot, SnapshotAbort,
         txVars, infoVars, history
<1>2. \A x \in Tx : Ready(x)' => Ready(x)
  BY DEF Continue, EndJob, Snapshots, StoreSnapshot, TxSnapshot, SnapshotAbort, txVars,
         Ready, HInv, IInv, TypeOK
<1>3. run' = run \/ run'.phase \notin {"applied", "failed"}
  BY AttemptExtra, StartExtra DEF Continue, EndJob, Snapshots, StoreSnapshot, TxSnapshot,
     SnapshotAbort, Idle
<1> QED BY <1>1, <1>2, <1>3, HistoryUnchanged DEF Extra, HInv

\* Between the application and the clean-up of a merge the parent already stands
\* for the state of the layer, and the layer, read over it, for the same one.
LEMMA ApplyHistory ==
    ASSUME HInv, ~Failing, ApplyToBackend \/ ApplyToParent \/ ApplyFails
    PROVE  LayersMatchHistory' /\ Extra'
<1> USE StoreAssumption
<1> DEFINE t == run.target
           p == parent[t]
<1>1. /\ run.phase = "applying" /\ run \in Running /\ t \in Layers /\ t \in Tx
      /\ base[t] = p /\ p \in Layers \cup {Backend} /\ p \in Node /\ p # t /\ p # Top
      /\ NoOpenChildren(p)
  BY BaseFacts, StackFacts DEF ApplyToBackend, ApplyToParent, ApplyFails, HInv, IInv,
     FlushStaysLegal, Flushable, TypeOK, Idle, Node
<1>2. ~ApplyFails
  BY <1>1 DEF ApplyFails, Rejects, HInv
<1>3. /\ UNCHANGED <<state, call, base, parent, stack, log>>
      /\ run' = [run EXCEPT !.phase = "applied"]
      /\ ver' = [ver EXCEPT ![p] = ver[t]]
  BY <1>2 DEF ApplyToBackend, ApplyToParent, txVars, infoVars
<1>4. /\ change \in [Tx -> Change] /\ db \in Contents /\ ver \in [Node -> 1..Len(log)]
      /\ \A n \in Node : log[ver[n]] \in Contents
  BY DEF HInv, IInv, TypeOK
<1>5. /\ Top' = Top /\ Layers' = Layers /\ \A x \in Tx : Ready(x)' <=> Ready(x)
  BY <1>3 DEF Top, Layers, Ready
<1>6. /\ \A l \in Layers : l \in Tx /\ l \in Node /\ base[l] \in Node /\ base[l] # l
      /\ \A l \in Layers : base[l] = p => l = t
  BY <1>1, BaseFacts, StackFacts DEF HInv, IInv, Node
<1>7. \A x \in Tx : Ready(x) => x \in Node /\ base[x] \in Node /\ base[x] # p /\ x # p
  <2> TAKE x \in Tx
  <2>1. CASE Ready(x) /\ base[x] = p
    <3>1. x \in children[p]
      BY <2>1, <1>1, BaseFacts DEF HInv, IInv, Registered, Attached
    <3>2. x \in closed
      BY <3>1, <1>1 DEF NoOpenChildren
    <3> QED BY <2>1, <3>2 DEF HInv, IInv, Registered
  <2>2. Ready(x) => x \notin Layers /\ base[x] \in Layers \cup {Backend} /\ x # Backend
    BY BaseFacts DEF HInv
  <2>3. Layers \subseteq Node
    BY <1>6
  <2> QED BY <2>1, <2>2, <2>3, <1>1 DEF Node
<1>8. log[ver[t]] = On(change[t], log[ver[p]])
  BY <1>1 DEF HInv, LayersMatchHistory
<1> HIDE DEF p, t
<1>9. \A n \in Node : ver'[n] = IF n = p THEN ver[t] ELSE ver[n]
  BY <1>1, <1>3, <1>4
<1>10. log[ver[t]] = On(change[t], log[ver[t]])
  BY <1>1, <1>4, <1>8, ApplyTwice
<1>11. \A x \in Tx : Ready(x)' => ver'[x] = ver'[base'[x]]
  BY <1>3, <1>5, <1>7, <1>9 DEF HInv, LayersMatchHistory
<1>12. ver'[Top'] = Len(log')
  <2>1. Top \in Node
    BY StackFacts DEF HInv, IInv, Node
  <2> QED BY <2>1, <1>1, <1>3, <1>5, <1>9 DEF HInv, LayersMatchHistory
<1>13. CASE ApplyToBackend
  <2>1. p = Backend /\ db' = On(change[t], db) /\ change' = change
    BY <1>13 DEF ApplyToBackend, p, t, txVars
  <2>2. db' = log'[ver'[Backend]]
    BY <2>1, <1>3, <1>8, <1>9 DEF HInv, LayersMatchHistory, Node
  <2>3. ASSUME NEW l \in Layers'
        PROVE  log'[ver'[l]] = On(change'[l], log'[ver'[base'[l]]])
    <3>1. l \in Layers /\ l \in Node /\ l # p /\ base[l] \in Node
      BY <2>1, <1>5, <1>6
    <3>2. log[ver[l]] = On(change[l], log[ver[base[l]]])
      BY <3>1 DEF HInv, LayersMatchHistory
    <3>3. CASE l = t
      BY <3>1, <3>3, <2>1, <1>1, <1>3, <1>9, <1>10
    <3>4. CASE l # t
      BY <3>1, <3>2, <3>4, <2>1, <1>3, <1>6, <1>9
    <3> QED BY <3>3, <3>4
  <2>4. LayersMatchHistory'
    BY <2>2, <2>3, <1>11, <1>12 DEF LayersMatchHistory
  <2>5. Extra'
    BY <2>1, <1>1, <1>3, <1>9 DEF Extra, HInv, p, t, Node, Running
  <2> QED BY <2>4, <2>5
<1>14. CASE ApplyToParent
  <2>1. /\ p # Backend /\ p \in Layers /\ p \in Tx /\ db' = db
        /\ change' = [change EXCEPT ![p] = Merge(@, change[t])]
    BY <1>14, <1>1, <1>6 DEF ApplyToParent, p, t
  <2>2. db' = log'[ver'[Backend]]
    BY <2>1, <1>3, <1>9 DEF HInv, LayersMatchHistory, Node
  <2>3. ASSUME NEW l \in Layers'
        PROVE  log'[ver'[l]] = On(change'[l], log'[ver'[base'[l]]])
    <3>1. l \in Layers /\ l \in Node /\ base[l] \in Node /\ base[l] # l
      BY <1>5, <1>6
    <3>2. log[ver[l]] = On(change[l], log[ver[base[l]]])
      BY <3>1 DEF HInv, LayersMatchHistory
    <3>3. CASE l = t
      <4>1. change'[t] = change[t] /\ ver'[t] = ver[t] /\ ver'[base'[t]] = ver[t]
        BY <2>1, <1>1, <1>3, <1>4, <1>6, <1>9
      <4> QED BY <3>3, <4>1, <1>3, <1>10
    <3>4. CASE l = p
      <4>1. change'[p] = Merge(change[p], change[t])
        BY <2>1, <1>4
      <4>2. ver'[p] = ver[t] /\ ver'[base'[p]] = ver[base[p]]
        BY <3>1, <3>4, <1>1, <1>3, <1>9
      <4>3. log[ver[t]] = On(change[t], On(change[p], log[ver[base[p]]]))
        BY <3>2, <3>4, <1>8
      <4>4. log[ver[t]] = On(Merge(change[p], change[t]), log[ver[base[p]]])
        BY <4>3, <3>1, <3>4, <2>1, <1>1, <1>4, MergeIsComposition
      <4> QED BY <3>4, <4>1, <4>2, <4>4, <1>3
    <3>5. CASE l # t /\ l # p
      <4>1. change'[l] = change[l] /\ ver'[l] = ver[l] /\ ver'[base'[l]] = ver[base[l]]
        BY <3>1, <3>5, <2>1, <1>3, <1>4, <1>6, <1>9
      <4> QED BY <3>2, <4>1, <1>3
    <3> QED BY <3>3, <3>4, <3>5
  <2>4. LayersMatchHistory'
    BY <2>2, <2>3, <1>11, <1>12 DEF LayersMatchHistory
  <2>5. \A x \in Tx : ~change'[x].truncated
    <3>1. ~Merge(change[p], change[t]).truncated
      BY <2>1, <1>1 DEF Merge, HInv
    <3> QED BY <3>1, <2>1, <1>4 DEF HInv
  <2>6. Extra'
    BY <2>5, <1>1, <1>3, <1>9 DEF Extra, HInv, p, t, Node, Running
  <2> QED BY <2>4, <2>6
<1> QED BY <1>2, <1>13, <1>14

\* Top is the one node without a layer above it, also after a step.
TopIsLeaf ==
    /\ Top \in Layers \cup {Backend}
    /\ \A n \in Layers \cup {Backend} : n # Top => \E l \in Layers : parent[l] = n

LEMMA TopAfterStep == (TypeOK /\ Registered)' => TopIsLeaf'
<1>1. TypeOK /\ Registered => TopIsLeaf
  BY StackFacts DEF TopIsLeaf
<1> QED BY <1>1, PTL

\* The clean-up moves what was based on the merged layer to a parent that stands
\* for the same state by then.
LEMMA CleanupHistory ==
    ASSUME HInv, IInv', Cleanup
    PROVE  LayersMatchHistory' /\ Extra'
<1> USE StoreAssumption
<1> DEFINE t == run.target
           p == parent[t]
<1>1. /\ run.phase = "applied" /\ run \in Running /\ t \in Layers /\ t \in Tx
      /\ p \in Layers \cup {Backend} /\ p # t /\ p # Top /\ ver[p] = ver[t]
  <2>1. run.phase = "applied" /\ t \in Layers /\ ver[p] = ver[t]
    BY DEF Cleanup, HInv, IInv, FlushStaysLegal
  <2>2. run \in Running
    BY <2>1 DEF HInv, IInv, TypeOK, Idle
  <2>3. t \in Tx /\ p \in Layers \cup {Backend} /\ p # t /\ p # Top
    BY <2>1, BaseFacts, StackFacts DEF HInv, IInv
  <2> QED BY <2>1, <2>2, <2>3
<1>2. /\ UNCHANGED <<change, call, closed, db, log, ver, state>>
      /\ parent' = [x \in Tx |-> IF x = t THEN Null
                                 ELSE IF x \in children[t] THEN p ELSE parent[x]]
      /\ base' = [x \in Tx |-> IF x \in children[t] THEN p ELSE base[x]]
      /\ run' = [run EXCEPT !.phase = "true"]
  BY <1>1 DEF Cleanup, Flush, history
<1>3. \A x \in Tx : x \in children[t] => base[x] = t /\ parent[x] = t
  BY <1>1 DEF HInv, IInv, Registered, Node
<1> HIDE DEF p, t
<1>4. /\ Layers \subseteq Tx /\ Layers \subseteq closed /\ closed \subseteq Tx
      /\ \A l \in Layers : base[l] = parent[l] /\ parent[l] \in Layers \cup {Backend}
      /\ \A l \in Layers : parent[l] # Top
      /\ \A l, m \in Layers : parent[l] = parent[m] => l = m
      /\ Top \in Layers \cup {Backend}
  BY BaseFacts, StackFacts DEF HInv, IInv, TypeOK
<1>5. Layers' = Layers \ {t}
  <2>1. Layers' = {x \in closed : parent'[x] # Null} /\ Layers = {x \in closed : parent[x] # Null}
    BY <1>2 DEF HInv, IInv, Registered
  <2>2. p # Null /\ t # Null
    BY <1>1, <1>4
  <2> QED BY <2>1, <2>2, <1>2, <1>3, <1>4
<1>6. /\ Top' \in Layers' \cup {Backend}
      /\ \A n \in Layers' \cup {Backend} : n # Top' => \E l \in Layers' : parent'[l] = n
  BY TopAfterStep DEF IInv, TopIsLeaf
<1>7. ver[Top'] = ver[Top]
  <2>1. \A l \in Layers' : l \in Tx /\ l \in Layers /\ (parent'[l] = p \/ parent'[l] = parent[l])
    BY <1>2, <1>4, <1>5
  <2>2. CASE Top # t
    <3>1. Top \in Layers' \cup {Backend}
      BY <2>2, <1>4, <1>5
    <3>2. \A l \in Layers' : parent'[l] # Top
      BY <2>1, <1>1, <1>4
    <3> QED BY <3>1, <3>2, <1>6
  <2>3. CASE Top = t
    <3>1. p \in Layers' \cup {Backend}
      BY <1>1, <1>5
    <3>2. ASSUME NEW l \in Layers', parent'[l] = p PROVE FALSE
      <4>1. l \in Layers /\ l # t /\ l \in Tx
        BY <2>1, <1>5
      <4>2. l \in children[t] => parent[l] = t
        BY <4>1, <1>3
      <4>3. l \notin children[t] => parent[l] = p
        BY <3>2, <4>1, <1>2
      <4> QED BY <4>1, <4>2, <4>3, <2>3, <1>1, <1>4 DEF p
    <3>3. Top' = p
      BY <3>1, <3>2, <1>6
    <3> QED BY <3>3, <2>3, <1>1
  <2> QED BY <2>2, <2>3
<1>8. \A x \in Tx : ver[base'[x]] = ver[base[x]]
  BY <1>1, <1>2, <1>3
<1>9. \A l \in Layers' : log[ver[l]] = On(change[l], log[ver[base'[l]]])
  BY <1>4, <1>5, <1>8 DEF HInv, LayersMatchHistory
<1>10. \A x \in Tx : Ready(x)' => ver[x] = ver[base'[x]]
  BY <1>2, <1>8 DEF Ready, HInv, LayersMatchHistory
<1>11. LayersMatchHistory'
  BY <1>2, <1>7, <1>9, <1>10 DEF HInv, LayersMatchHistory
<1> QED BY <1>1, <1>2, <1>11 DEF Extra, HInv, Running

-----------------------------------------------------------------------------
LEMMA InitHistory == Init => HInv
<1> SUFFICES ASSUME Init PROVE HInv
  OBVIOUS
<1>1. IInv
  BY InitStep
<1>2. /\ Layers = {} /\ Top = Backend /\ Len(log) = 1 /\ log[1] = db
      /\ \A t \in Tx : ~Ready(t)
  BY DEF Init, Layers, Top, Ready
<1> QED BY <1>1, <1>2 DEF HInv, Init, LayersMatchHistory, NoChange, Idle, Node

LEMMA NextHistory ==
    ASSUME ~Truncates, ~Failing, HInv, [Next]_vars
    PROVE  HInv'
<1>1. IInv'
  BY NextStep DEF HInv
<1>2. ASSUME NEW t \in Tx, Client(t) PROVE LayersMatchHistory' /\ Extra'
  <2>1. CASE Open(t)
    BY <2>1, OpenHistory
  <2>2. CASE TxTruncate(t) \/ \E k \in Key : TxPut(t, k) \/ TxRemove(t, k)
    BY <2>2, WriteHistory
  <2>3. CASE Commit(t)
    BY <2>3, CommitHistory
  <2>4. CASE CommitRefused(t) \/ CommitConflict(t) \/ Abort(t)
    BY <2>4, QuietHistory DEF CommitConflict, Abort
  <2> QED BY <1>2, <2>1, <2>2, <2>3, <2>4 DEF Client
<1>3. ASSUME NEW t \in Tx, Finish(t) PROVE LayersMatchHistory' /\ Extra'
  BY <1>3, QuietHistory DEF Finish
<1>4. ASSUME NEW s \in Snap, Snapshots(s) PROVE LayersMatchHistory' /\ Extra'
  BY <1>4, JobHistory
<1>5. LayersMatchHistory' /\ Extra'
  <2>1. CASE Synchronizer
    BY <1>1, <2>1, ApplyHistory, CleanupHistory, JobHistory DEF Synchronizer
  <2>2. CASE UNCHANGED vars
    <3>1. UNCHANGED <<change, base, parent, db, log, ver, stack, run, state, call>>
      BY <2>2 DEF vars, txVars, infoVars, history
    <3> QED BY <3>1, HistoryUnchanged DEF Extra, HInv, Ready
  <2> QED BY <2>1, <2>2, <1>2, <1>3, <1>4 DEF Next
<1> QED BY <1>1, <1>5 DEF HInv, Extra

\* The backend always holds one whole committed state, each layer is its
\* difference over the state below it, and a usable transaction is based on the
\* very state that was committed last when it began, through every flush, for
\* any number of transactions, keys and layers.
THEOREM FlushIsInvisible ==
    ASSUME ~Truncates, ~Failing
    PROVE  Spec => []LayersMatchHistory
<1>1. HInv /\ [Next]_vars => HInv'
  BY NextHistory
<1>2. HInv => LayersMatchHistory
  BY DEF HInv
<1> QED BY <1>1, <1>2, InitHistory, PTL DEF Spec

-----------------------------------------------------------------------------
(***************************************************************************)
(* What readers see                                                        *)
(***************************************************************************)

Live == Layers \cup {Backend}

\* No chain of parents goes on for ever, those of closed transactions included.
Founded == \E rank : Chained(Node, Backend, base, rank)

-----------------------------------------------------------------------------
(***************************************************************************)
(* View                                                                    *)
(***************************************************************************)

\* What get finds through the chain of parents: View is what its equation says.
LEMMA ViewFacts ==
    ASSUME TypeOK, Founded
    PROVE  /\ View(Backend) = db
           /\ \A t \in Tx : View(t) = On(change[t], View(base[t]))
           /\ \A n \in Node : View(n) \in Contents
<1>1. PICK rank : Chained(Node, Backend, base, rank)
  BY DEF Founded
<1>2. /\ db \in Contents /\ \A t \in Tx : base[t] \in Node /\ change[t] \in Change
      /\ Backend \notin Tx /\ Node = Tx \cup {Backend}
  BY StoreAssumption DEF TypeOK, Node
<1> DEFINE g == [n \in Node |-> [c \in Contents |-> IF n \in Tx THEN On(change[n], c) ELSE c]]
           V == CHOOSE view : view = [n \in Node |->
                                IF n = Backend THEN db ELSE On(change[n], view[base[n]])]
<1>3. g \in [Node -> [Contents -> Contents]]
  <2>1. \A n \in Tx : \A c \in Contents : On(change[n], c) \in Contents
    BY <1>2, OnType
  <2> QED BY <2>1
<1>4. PICK f : GoesUp(f, Node, Contents, Backend, db, base, g)
  <2> HIDE DEF g
  <2> QED BY <1>1, <1>2, <1>3, ChainRecursion
<1>5. \A n \in Node : f[n] = IF n = Backend THEN db ELSE On(change[n], f[base[n]])
  BY <1>2, <1>4 DEF GoesUp
<1>6. f = [n \in Node |-> IF n = Backend THEN db ELSE On(change[n], f[base[n]])]
  BY <1>4, <1>5 DEF GoesUp
<1>7. V = [n \in Node |-> IF n = Backend THEN db ELSE On(change[n], V[base[n]])]
  BY <1>6
<1>8. \A n : View(n) = V[n]
  BY DEF View
<1> HIDE DEF V
<1>9. V[Backend] = db /\ \A t \in Tx : V[t] = On(change[t], V[base[t]])
  BY <1>2, <1>7
<1> DEFINE typed == {n \in Node : V[n] \in Contents}
<1>10. Node \subseteq typed
  <2>1. Backend \in typed
    BY <1>2, <1>9
  <2>2. \A n \in Node \ {Backend} : base[n] \in typed => n \in typed
    BY <1>2, <1>9, OnType
  <2> HIDE DEF typed
  <2> QED BY <1>1, <2>1, <2>2, ChainInduction
<1> QED BY <1>8, <1>9, <1>10

\* Along the stack, what is read is what was committed.
LEMMA ViewIsHistory ==
    ASSUME HInv, Founded
    PROVE  /\ \A n \in Live : View(n) = log[ver[n]]
           /\ \A t \in Tx : Ready(t) => View(t) = On(change[t], log[ver[t]])
<1>1. PICK rank : Chained(Node, Backend, base, rank)
  BY DEF Founded
<1>2. /\ View(Backend) = db /\ Node = Tx \cup {Backend}
      /\ \A t \in Tx : View(t) = On(change[t], View(base[t]))
  BY ViewFacts DEF HInv, IInv, Node
<1>3. /\ \A l \in Layers : base[l] \in Live /\ l \in Tx
      /\ \A t \in Tx : Ready(t) => base[t] \in Live
  BY BaseFacts DEF HInv, Live
<1> DEFINE P == {n \in Node : n \in Live => View(n) = log[ver[n]]}
<1>4. Backend \in P
  BY <1>2 DEF HInv, LayersMatchHistory
<1>5. \A n \in Node \ {Backend} : base[n] \in P => n \in P
  BY <1>2, <1>3 DEF HInv, LayersMatchHistory, Live
<1>6. \A n \in Live : View(n) = log[ver[n]]
  <2>1. Node \subseteq P
    <3> HIDE DEF P
    <3> QED BY <1>1, <1>4, <1>5, ChainInduction
  <2> QED BY <2>1, <1>2, <1>3 DEF Live
<1>7. \A t \in Tx : Ready(t) => View(t) = On(change[t], log[ver[t]])
  BY <1>2, <1>3, <1>6 DEF HInv, LayersMatchHistory
<1> QED BY <1>6, <1>7

-----------------------------------------------------------------------------
(***************************************************************************)
(* The inductive invariant                                                 *)
(***************************************************************************)

\* What is read through is committed, or the backend.
ReadsClosed == \A t \in Tx : base[t] \in closed \cup {Backend}

\* A call or a state that tells of a commit is that of a committed transaction.
CommitsAreClosed ==
    \A t \in Tx : call[t] \in {"commit", "threw"} \/ state[t] = "committed" => t \in closed

\* Each layer stands for a newer state than what it is based on, until it is merged into it.
LayersGrow ==
    \A l \in Layers : ver[base[l]] < ver[l] \/ (run.phase = "applied" /\ l = run.target)

\* A transaction that has not been created has written nothing.
UnopenedIsEmpty == \A t \in Tx : state[t] = "none" => change[t] = NoChange

RInv == HInv /\ Founded /\ ReadsClosed /\ CommitsAreClosed /\ LayersGrow /\ UnopenedIsEmpty

LEMMA OpenFounded ==
    ASSUME RInv, NEW t \in Tx, Open(t)
    PROVE  Founded' /\ ReadsClosed'
<1> USE StoreAssumption
<1>1. PICK rank : Chained(Node, Backend, base, rank)
  BY DEF RInv, Founded
<1>2. /\ base' = [base EXCEPT ![t] = Top] /\ base \in [Tx -> Node] /\ closed' = closed
      /\ Top \in closed \cup {Backend} /\ closed \subseteq Tx /\ t \notin closed
      /\ Node = Tx \cup {Backend} /\ Node' = Node
  BY StackFacts DEF Open, RInv, HInv, IInv, TypeOK, Registered, Node
<1> DEFINE new == [rank EXCEPT ![t] = rank[Top] + 1]
<1>3. rank \in [Node -> Nat] /\ \A x \in Tx : base[x] \in Node /\ rank[base[x]] < rank[x]
  BY <1>1, <1>2 DEF Chained
<1>4. \A x \in Tx : base[x] # t /\ Top # t /\ Top \in Node
  BY <1>2 DEF RInv, ReadsClosed
<1>5. new \in [Node -> Nat] /\ \A x \in Tx : base'[x] \in Node /\ new[base'[x]] < new[x]
  <2>1. /\ rank[Top] \in Nat /\ t \in Node
        /\ \A n \in Node : new[n] = IF n = t THEN rank[Top] + 1 ELSE rank[n]
        /\ \A x \in Tx : base'[x] = IF x = t THEN Top ELSE base[x]
    BY <1>2, <1>3, <1>4
  <2>2. new \in [Node -> Nat]
    BY <1>3, <2>1
  <2> HIDE DEF new
  <2>3. ASSUME NEW x \in Tx PROVE base'[x] \in Node /\ new[base'[x]] < new[x]
    <3>1. base'[x] \in Node /\ base'[x] # t /\ x \in Node
      BY <1>2, <1>3, <1>4, <2>1
    <3>2. new[base'[x]] = rank[base'[x]]
      BY <2>1, <3>1
    <3> QED BY <1>3, <2>1, <3>1, <3>2
  <2> QED BY <2>2, <2>3
<1>6. Chained(Node, Backend, base', new)
  BY <1>2, <1>5 DEF Chained
<1>7. Founded'
  BY <1>2, <1>6 DEF Founded
<1>8. ReadsClosed'
  BY <1>2 DEF RInv, ReadsClosed
<1> QED BY <1>7, <1>8

LEMMA CleanupFounded ==
    ASSUME RInv, Cleanup
    PROVE  Founded' /\ ReadsClosed'
<1> USE StoreAssumption
<1> DEFINE t == run.target
           p == parent[t]
<1>1. PICK rank : Chained(Node, Backend, base, rank)
  BY DEF RInv, Founded
<1>2. /\ t \in Layers /\ t \in Tx /\ base[t] = p /\ p \in Layers \cup {Backend}
      /\ Layers \subseteq closed /\ closed \subseteq Tx /\ base \in [Tx -> Node]
      /\ Node = Tx \cup {Backend} /\ Node' = Node
      /\ base' = [x \in Tx |-> IF x \in children[t] THEN p ELSE base[x]] /\ closed' = closed
  BY BaseFacts, StackFacts
  DEF Cleanup, Flush, RInv, HInv, IInv, FlushStaysLegal, TypeOK, Node
<1>3. \A x \in Tx : x \in children[t] => base[x] = t
  BY <1>2 DEF RInv, HInv, IInv, Registered
<1> HIDE DEF p, t
<1>4. rank \in [Node -> Nat] /\ \A x \in Tx : base[x] \in Node /\ rank[base[x]] < rank[x]
  BY <1>1, <1>2 DEF Chained
<1>5. \A x \in Tx : base'[x] \in Node /\ rank[base'[x]] < rank[x]
  <2> TAKE x \in Tx
  <2>1. CASE x \in children[t]
    <3>1. base'[x] = p /\ base[x] = t /\ p \in Node
      BY <1>2, <1>3, <2>1
    <3>2. rank[p] < rank[t] /\ rank[t] < rank[x] /\ rank[p] \in Nat /\ rank[t] \in Nat /\ rank[x] \in Nat
      BY <3>1, <1>2, <1>4
    <3> QED BY <3>1, <3>2
  <2>2. CASE x \notin children[t]
    BY <2>2, <1>2, <1>4
  <2> QED BY <2>1, <2>2
<1>6. Chained(Node, Backend, base', rank)
  BY <1>2, <1>4, <1>5 DEF Chained
<1>7. Founded'
  BY <1>2, <1>6 DEF Founded
<1>8. ReadsClosed'
  BY <1>2 DEF RInv, ReadsClosed
<1> QED BY <1>7, <1>8

\* No other step changes what anything reads through.
LEMMA FoundedStep ==
    ASSUME RInv, [Next]_vars
    PROVE  Founded' /\ ReadsClosed'
<1>1. CASE \E t \in Tx : Open(t)
  BY <1>1, OpenFounded
<1>2. CASE Cleanup
  BY <1>2, CleanupFounded
<1>3. CASE /\ ~Cleanup /\ ~\E t \in Tx : Open(t)
  <2>1. base' = base /\ closed \subseteq closed'
    <3>1. ASSUME NEW t \in Tx, Client(t) PROVE base' = base /\ closed \subseteq closed'
      BY <1>3, <3>1 DEF Client, TxTruncate, TxPut, TxRemove, Modify, Commit, CommitRefused,
         CommitConflict, Abort, Leave, txVars, infoVars
    <3>2. ASSUME NEW t \in Tx, Finish(t) PROVE base' = base /\ closed \subseteq closed'
      BY <3>2 DEF Finish, FinishCommit, FinishLeave, infoVars
    <3>3. ASSUME Synchronizer PROVE base' = base /\ closed \subseteq closed'
      BY <1>3, <3>3 DEF Synchronizer, ApplyToBackend, ApplyToParent, ApplyFails, Continue, EndJob,
         txVars, infoVars
    <3>4. ASSUME NEW s \in Snap, Snapshots(s) PROVE base' = base /\ closed \subseteq closed'
      BY <3>4 DEF Snapshots, StoreSnapshot, SnapshotAbort, TxSnapshot, txVars, infoVars
    <3>5. CASE UNCHANGED vars
      BY <3>5 DEF vars, txVars, infoVars
    <3> QED BY <3>1, <3>2, <3>3, <3>4, <3>5 DEF Next
  <2>2. Founded'
    BY <2>1 DEF RInv, Founded, Node
  <2>3. ReadsClosed'
    BY <2>1 DEF RInv, ReadsClosed
  <2> QED BY <2>2, <2>3
<1> QED BY <1>1, <1>2, <1>3

\* Only a job that merges one transaction can throw, and it was pushed by its commit.
LEMMA CommitsStep ==
    ASSUME RInv, [Next]_vars
    PROVE  CommitsAreClosed'
<1> USE DEF RInv, HInv, IInv, TypeOK
<1>1. closed \subseteq Tx /\ state \in [Tx -> {"none", "open", "committed", "aborted", "conflicted"}]
      /\ call \in [Tx -> {"none", "refused", "commit", "abort", "conflict", "threw"}]
  OBVIOUS
<1>2. ASSUME NEW t \in Tx, Client(t) \/ Finish(t) PROVE CommitsAreClosed'
  <2>1. CASE Open(t)
    BY <1>1, <2>1 DEF Open, CommitsAreClosed
  <2>2. CASE TxTruncate(t) \/ \E k \in Key : TxPut(t, k) \/ TxRemove(t, k)
    BY <1>1, <2>2 DEF TxTruncate, TxPut, TxRemove, Modify, CommitsAreClosed, infoVars
  <2>3. CASE Commit(t)
    BY <1>1, <2>3 DEF Commit, CommitsAreClosed, txVars
  <2>4. CASE CommitRefused(t)
    BY <1>1, <2>4 DEF CommitRefused, CommitsAreClosed, txVars, infoVars
  <2>5. CASE CommitConflict(t) \/ Abort(t)
    BY <1>1, <2>5 DEF CommitConflict, Abort, Leave, CommitsAreClosed, txVars
  <2>6. CASE FinishCommit(t)
    BY <1>1, <2>6 DEF FinishCommit, CommitsAreClosed, infoVars
  <2>7. CASE FinishLeave(t)
    BY <1>1, <2>7 DEF FinishLeave, CommitsAreClosed
  <2> QED BY <1>2, <2>1, <2>2, <2>3, <2>4, <2>5, <2>6, <2>7 DEF Client, Finish
<1>3. ASSUME Synchronizer PROVE CommitsAreClosed'
  <2>1. CASE EndJob
    <3>1. /\ UNCHANGED <<state, closed>>
          /\ call' = call \/ (run.job.tx \in closed /\ call' = [call EXCEPT ![run.job.tx] = "threw"])
      BY <2>1 DEF EndJob, JobsAreLegal, txVars, infoVars
    <3> QED BY <1>1, <3>1 DEF CommitsAreClosed
  <2>2. CASE Cleanup
    BY <1>1, <2>2 DEF Cleanup, CommitsAreClosed
  <2>3. CASE ApplyToBackend \/ ApplyToParent \/ ApplyFails \/ Continue
    BY <2>3 DEF ApplyToBackend, ApplyToParent, ApplyFails, Continue, CommitsAreClosed, txVars, infoVars
  <2> QED BY <1>3, <2>1, <2>2, <2>3 DEF Synchronizer
<1>4. ASSUME NEW s \in Snap, Snapshots(s) PROVE CommitsAreClosed'
  BY <1>4 DEF Snapshots, StoreSnapshot, SnapshotAbort, TxSnapshot, CommitsAreClosed, txVars, infoVars
<1>5. CASE UNCHANGED vars
  BY <1>5 DEF vars, CommitsAreClosed, txVars, infoVars
<1> QED BY <1>2, <1>3, <1>4, <1>5 DEF Next

\* Only its clean-up ends a merge that has been applied.
LEMMA AppliedStays ==
    ASSUME RInv, [Next]_vars, ~Cleanup, run.phase = "applied"
    PROVE  run' = run
<1>1. run # Idle /\ ~Finished
  BY DEF Idle, Finished
<1>2. ASSUME NEW t \in Tx, Client(t) \/ Finish(t) PROVE run' = run
  BY <1>1, <1>2 DEF Client, Finish, Open, TxTruncate, TxPut, TxRemove, Modify, Commit, Push,
     CommitRefused, CommitConflict, Abort, Leave, FinishCommit, FinishLeave
<1>3. ~Synchronizer
  BY <1>1 DEF Synchronizer, ApplyToBackend, ApplyToParent, ApplyFails, Continue, EndJob
<1>4. ASSUME NEW s \in Snap, Snapshots(s) PROVE run' = run
  BY <1>4 DEF Snapshots, StoreSnapshot, SnapshotAbort, TxSnapshot
<1>5. CASE UNCHANGED vars
  BY <1>5 DEF vars
<1> QED BY <1>2, <1>3, <1>4, <1>5 DEF Next

\* What the clean-up of a merge does: the merged layer leaves the stack, and what was based
\* on it is based on its parent, which stands for the same state.
LEMMA CleanupFacts ==
    ASSUME HInv, IInv', Cleanup, NEW t, t = run.target, NEW p, p = parent[t]
    PROVE  /\ run.phase = "applied" /\ t \in Layers /\ t \in Tx /\ p \in Live /\ p \in Node
           /\ p # t /\ ver[p] = ver[t] /\ base[t] = p
           /\ Layers' = Layers \ {t}
           /\ UNCHANGED <<state, change, call, closed, db, log, ver, snapVars>>
           /\ base' = [x \in Tx |-> IF base[x] = t /\ Attached(x) THEN p ELSE base[x]]
           /\ run'.phase = "true"
<1> USE StoreAssumption
<1>1. /\ run.phase = "applied" /\ t \in Layers /\ ver[p] = ver[t] /\ run \in Running
  <2>1. run.phase = "applied"
    BY DEF Cleanup, HInv
  <2>2. t \in Layers /\ ver[p] = ver[t]
    BY <2>1 DEF HInv, IInv, FlushStaysLegal
  <2> QED BY <2>1, <2>2 DEF HInv, IInv, TypeOK, Idle
<1>2. /\ t \in Tx /\ p \in Live /\ p \in Node /\ p # t /\ base[t] = p /\ Layers \subseteq Tx
  BY <1>1, BaseFacts, StackFacts DEF HInv, IInv, Live
<1>3. children[t] = {x \in Tx : Attached(x) /\ parent[x] = t}
  BY <1>2 DEF HInv, IInv, Registered, Node
<1>4. \A x \in Tx : x \in children[t] <=> base[x] = t /\ Attached(x)
  BY <1>3 DEF HInv, IInv, Registered
<1>5. /\ UNCHANGED <<state, change, call, closed, db, log, ver, snapVars>>
      /\ parent' = [x \in Tx |-> IF x = t THEN Null
                                 ELSE IF x \in children[t] THEN p ELSE parent[x]]
      /\ base' = [x \in Tx |-> IF x \in children[t] THEN p ELSE base[x]]
      /\ run' = [run EXCEPT !.phase = "true"]
  BY <1>1 DEF Cleanup, Flush, history
<1>6. Layers' = Layers \ {t}
  <2>1. Layers' = {x \in closed : parent'[x] # Null} /\ Layers = {x \in closed : parent[x] # Null}
    BY <1>5 DEF HInv, IInv, Registered
  <2>2. closed \subseteq Tx /\ p # Null /\ t # Null
    BY <1>2 DEF HInv, IInv, TypeOK, Node
  <2> QED BY <2>1, <2>2, <1>3, <1>5
<1>7. base' = [x \in Tx |-> IF base[x] = t /\ Attached(x) THEN p ELSE base[x]]
  BY <1>4, <1>5
<1> QED BY <1>1, <1>2, <1>5, <1>6, <1>7 DEF Running

LEMMA GrowStep ==
    ASSUME ~Truncates, ~Failing, RInv, [Next]_vars
    PROVE  LayersGrow'
<1> USE StoreAssumption
<1>1. /\ \A l \in Layers : l \in Node /\ base[l] \in Live /\ base[l] \in Node
      /\ ver \in [Node -> 1..Len(log)] /\ Len(log) \in Nat /\ Top \in Live
      /\ \A t \in Tx : Ready(t) => t \notin Live
  BY BaseFacts DEF RInv, HInv, IInv, TypeOK, Live, Node
<1>2. HInv'
  BY NextHistory DEF RInv
<1>3. CASE Cleanup
  <2> DEFINE t == run.target
             p == parent[t]
  <2>1. /\ p \in Node /\ ver[p] = ver[t] /\ Layers' = Layers \ {t} /\ ver' = ver
        /\ base' = [x \in Tx |-> IF base[x] = t /\ Attached(x) THEN p ELSE base[x]]
        /\ Layers \subseteq Tx
    BY <1>2, <1>3, CleanupFacts, BaseFacts DEF RInv, HInv
  <2> HIDE DEF p
  <2>2. ASSUME NEW l \in Layers' PROVE ver'[base'[l]] < ver'[l]
    <3>1. l \in Layers /\ l # t /\ ver[base[l]] < ver[l] /\ l \in Tx
      BY <2>1, <2>2 DEF RInv, LayersGrow
    <3>2. base'[l] = base[l] \/ (base'[l] = p /\ base[l] = t)
      BY <2>1, <3>1
    <3> QED BY <2>1, <3>1, <3>2
  <2> QED BY <2>2 DEF LayersGrow
<1>4. CASE ~Cleanup /\ \E t \in Tx : Open(t) \/ Commit(t)
  <2>1. PICK t \in Tx : Open(t) \/ Commit(t)
    BY <1>4
  <2>2. run.phase = "applied" => run' = run
    BY <1>4, AppliedStays DEF RInv
  <2>3. CASE Open(t)
    <3>1. /\ Layers' = Layers /\ t \in Node /\ \A l \in Layers : l \in Tx /\ l # t /\ base[l] # t
      BY <2>3, BaseFacts, StackFacts DEF Open, Layers, RInv, HInv, IInv, Registered, Node
    <3>2. \A l \in Layers : base'[l] = base[l] /\ ver'[l] = ver[l] /\ ver'[base[l]] = ver[base[l]]
      BY <2>3, <3>1, <1>1 DEF Open, RInv, HInv, IInv, TypeOK
    <3> QED BY <2>2, <3>1, <3>2 DEF RInv, LayersGrow
  <2>4. CASE Commit(t)
    <3>1. /\ t \notin Live /\ base[t] = Top /\ base' = base /\ t \in Node
          /\ ver' = [ver EXCEPT ![t] = Len(log) + 1] /\ stack' = Append(stack, t)
      BY <2>4, <1>1, BaseFacts, CommittableIsOnTop DEF Commit, RInv, HInv, txVars, Node
    <3>2. Layers' \subseteq Layers \cup {t}
      <4>1. stack \in Seq(Tx)
        BY DEF RInv, HInv, IInv, TypeOK
      <4>2. DOMAIN stack = 1..Len(stack) /\ DOMAIN stack' = 1..(Len(stack) + 1)
            /\ stack'[Len(stack) + 1] = t /\ \A i \in 1..Len(stack) : stack'[i] = stack[i]
            /\ Len(stack) \in Nat
        BY <3>1, <4>1, AppendProperties
      <4> QED BY <4>2 DEF Layers
    <3>3. \A n \in Live : n \in Node /\ ver'[n] = ver[n] /\ ver[n] <= Len(log) /\ ver[n] \in Nat
      <4>1. \A n \in Live : n \in Node /\ n # t
        BY <3>1, <1>1 DEF Live, Node
      <4>2. \A n \in Node : ver[n] <= Len(log) /\ ver[n] \in Nat
        BY <1>1
      <4> QED BY <3>1, <4>1, <4>2, <1>1
    <3>4. ver'[t] = Len(log) + 1 /\ ver'[base'[t]] < ver'[t]
      BY <3>1, <3>3, <1>1
    <3>5. \A l \in Layers : l \in Live
      BY DEF Live
    <3> QED BY <2>2, <3>1, <3>2, <3>3, <3>4, <3>5, <1>1 DEF RInv, LayersGrow
  <2> QED BY <2>1, <2>3, <2>4
<1>5. CASE ApplyToBackend \/ ApplyToParent
  <2> DEFINE t == run.target
             p == parent[t]
  <2>1. /\ run.phase = "applying" /\ t \in Layers /\ p \in Node /\ base[t] = p /\ p # t
        /\ \A l \in Layers : base[l] = p => l = t
    BY <1>5, BaseFacts, StackFacts DEF ApplyToBackend, ApplyToParent, RInv, HInv, IInv, FlushStaysLegal
  <2>2. /\ UNCHANGED <<base, stack>> /\ ver' = [ver EXCEPT ![p] = ver[t]]
        /\ run'.phase = "applied" /\ run'.target = t
    BY <1>5, <2>1 DEF ApplyToBackend, ApplyToParent, txVars, infoVars, RInv, HInv, IInv, TypeOK,
       Idle, Running
  <2>3. Layers' = Layers
    BY <2>2 DEF Layers
  <2> HIDE DEF t, p
  <2>4. ASSUME NEW l \in Layers, l # t PROVE ver'[base[l]] < ver'[l]
    <3>1. ver[base[l]] < ver[l] /\ ver[p] < ver[t]
      BY <2>1, <2>4 DEF RInv, LayersGrow
    <3>2. base[l] # p /\ ver'[base[l]] = ver[base[l]]
      BY <2>1, <2>2, <2>4, <1>1
    <3>3. ver'[l] = IF l = p THEN ver[t] ELSE ver[l]
      BY <2>2, <2>4, <1>1
    <3>4. ver[p] \in Nat /\ ver[t] \in Nat /\ ver[l] \in Nat /\ ver[base[l]] \in Nat
      BY <2>1, <1>1
    <3> QED BY <3>1, <3>2, <3>3, <3>4
  <2> QED BY <2>2, <2>3, <2>4 DEF LayersGrow, t
<1>6. CASE ~Cleanup /\ ~ApplyToBackend /\ ~ApplyToParent /\ ~\E t \in Tx : Open(t) \/ Commit(t)
  <2>1. UNCHANGED <<base, ver, stack>>
    <3>1. ASSUME NEW t \in Tx, Client(t) \/ Finish(t) PROVE UNCHANGED <<base, ver, stack>>
      BY <1>6, <3>1 DEF Client, TxTruncate, TxPut, TxRemove, Modify, CommitRefused, Finish,
         CommitConflict, Abort, Leave, FinishCommit, FinishLeave, txVars, infoVars, history
    <3>2. ASSUME Synchronizer PROVE UNCHANGED <<base, ver, stack>>
      BY <1>6, <3>2 DEF Synchronizer, ApplyFails, Continue, EndJob, txVars, infoVars, history
    <3>3. ASSUME NEW s \in Snap, Snapshots(s) PROVE UNCHANGED <<base, ver, stack>>
      BY <3>3 DEF Snapshots, StoreSnapshot, SnapshotAbort, TxSnapshot, txVars, infoVars, history
    <3>4. CASE UNCHANGED vars
      BY <3>4 DEF vars, txVars, infoVars, history
    <3> QED BY <3>1, <3>2, <3>3, <3>4 DEF Next
  <2>2. Layers' = Layers
    BY <2>1 DEF Layers
  <2>3. run.phase = "applied" => run' = run
    BY <1>6, AppliedStays DEF RInv
  <2> QED BY <2>1, <2>2, <2>3 DEF RInv, LayersGrow
<1> QED BY <1>3, <1>4, <1>5, <1>6

LEMMA EmptyStep ==
    ASSUME RInv, [Next]_vars
    PROVE  UnopenedIsEmpty'
<1> USE StoreAssumption
<1>1. /\ state \in [Tx -> {"none", "open", "committed", "aborted", "conflicted"}]
      /\ change \in [Tx -> Change] /\ Layers \subseteq closed /\ Backend \notin Tx
      /\ \A t \in Tx : state[t] = "none" => t \notin Layers
  BY StackFacts DEF RInv, HInv, IInv, TypeOK, Registered
<1>2. ASSUME NEW t \in Tx, Client(t) PROVE UnopenedIsEmpty'
  <2>1. CASE \E c : Modify(t, c)
    BY <1>1, <2>1 DEF Modify, Ready, RInv, UnopenedIsEmpty
  <2>2. CASE ~\E c : Modify(t, c)
    BY <1>1, <1>2, <2>2 DEF Client, TxTruncate, TxPut, TxRemove, Open, Commit, CommitRefused,
       CommitConflict, Abort, Leave, txVars, RInv, UnopenedIsEmpty
  <2> QED BY <2>1, <2>2
<1>3. ASSUME NEW t \in Tx, Finish(t) PROVE UnopenedIsEmpty'
  BY <1>1, <1>3 DEF Finish, FinishCommit, FinishLeave, RInv, UnopenedIsEmpty
<1>4. CASE ApplyToParent
  <2>1. parent[run.target] \in Layers /\ state' = state
    BY <1>4, BaseFacts DEF ApplyToParent, RInv, HInv, IInv, FlushStaysLegal
  <2> QED BY <1>1, <1>4, <2>1 DEF ApplyToParent, RInv, UnopenedIsEmpty
<1>5. CASE Synchronizer /\ ~ApplyToParent
  BY <1>5 DEF Synchronizer, ApplyToBackend, ApplyFails, Cleanup, Continue, EndJob, txVars,
     RInv, HInv, UnopenedIsEmpty
<1>6. ASSUME NEW s \in Snap, Snapshots(s) PROVE UnopenedIsEmpty'
  BY <1>6 DEF Snapshots, StoreSnapshot, SnapshotAbort, TxSnapshot, txVars, RInv, UnopenedIsEmpty
<1>7. CASE UNCHANGED vars
  BY <1>7 DEF vars, txVars, RInv, UnopenedIsEmpty
<1> QED BY <1>2, <1>3, <1>4, <1>5, <1>6, <1>7 DEF Next

LEMMA InitR == Init => RInv
<1> SUFFICES ASSUME Init PROVE RInv
  OBVIOUS
<1> USE StoreAssumption
<1>1. HInv
  BY InitHistory
<1>2. Layers = {} /\ closed = {} /\ \A t \in Tx : base[t] = Backend /\ call[t] = "none" /\ state[t] = "none"
  BY DEF Init, Layers
<1>3. Chained(Node, Backend, base, [n \in Node |-> IF n = Backend THEN 0 ELSE 1])
  BY <1>2 DEF Chained, Node
<1>4. Founded
  BY <1>3 DEF Founded
<1>5. UnopenedIsEmpty
  BY DEF Init, UnopenedIsEmpty
<1> QED BY <1>1, <1>2, <1>4, <1>5 DEF RInv, ReadsClosed, CommitsAreClosed, LayersGrow

LEMMA NextR ==
    ASSUME ~Truncates, ~Failing, RInv, [Next]_vars
    PROVE  RInv'
<1>1. HInv'
  BY NextHistory DEF RInv
<1> QED BY <1>1, FoundedStep, CommitsStep, GrowStep, EmptyStep DEF RInv

LEMMA RInvariance ==
    ASSUME ~Truncates, ~Failing
    PROVE  Spec => []RInv
<1>1. RInv /\ [Next]_vars => RInv'
  BY NextR
<1> QED BY <1>1, InitR, PTL DEF Spec

\* A transaction whose client may act reads its own writes over the state that had been
\* committed when it began, through however many layers that state is kept in and however
\* these are merged: get through _parent, moved by TransactionInfo.flush.
THEOREM ReadsStayIsolated ==
    ASSUME ~Truncates, ~Failing
    PROVE  Spec => []ReadIsolation
<1>1. ASSUME RInv PROVE ReadIsolation
  BY <1>1, ViewIsHistory DEF RInv, ReadIsolation
<1>2. RInv => ReadIsolation
  BY <1>1
<1> QED BY <1>2, RInvariance, PTL

\* What a reader of the current state gets is what was committed last, at every moment of
\* every flush.
THEOREM CurrentStaysNewest ==
    ASSUME ~Truncates, ~Failing
    PROVE  Spec => []CurrentIsNewest
<1>1. ASSUME RInv PROVE CurrentIsNewest
  <2>1. Top \in Live /\ View(Top) = log[ver[Top]]
    BY <1>1, ViewIsHistory, BaseFacts DEF RInv, HInv, Live
  <2> QED BY <1>1, <2>1 DEF RInv, HInv, LayersMatchHistory, CurrentIsNewest
<1>2. RInv => CurrentIsNewest
  BY <1>1
<1> QED BY <1>2, RInvariance, PTL

-----------------------------------------------------------------------------
(***************************************************************************)
(* The refinement of AbstractStore                                         *)
(***************************************************************************)

Since(t) == IF Ready(t) THEN ver[t] ELSE 0
Reads(t) == IF Ready(t) THEN View(t) ELSE Nothing

ReadsAreHistory ==
    \A t \in Tx : /\ Ready(t) <=> Status(t) = "open"
                  /\ Ready(t) => Reads(t) = On(change[t], log[ver[t]])

LEMMA ReadsFacts == RInv => ReadsAreHistory
<1> SUFFICES ASSUME RInv PROVE ReadsAreHistory
  OBVIOUS
<1>1. \A t \in Tx : Ready(t) => View(t) = On(change[t], log[ver[t]])
  BY ViewIsHistory DEF RInv
<1>2. ASSUME NEW t \in Tx PROVE Ready(t) <=> Status(t) = "open"
  BY DEF RInv, HInv, IInv, TypeOK, Registered, CommitsAreClosed, Status, Ready
<1> QED BY <1>1, <1>2 DEF ReadsAreHistory, Reads

LEMMA ReadsFactsNext == RInv' => ReadsAreHistory'
BY ReadsFacts, PTL

\* Nothing a client of x could notice happens.
Unnoticed(x) ==
    /\ Status(x)' = Status(x)
    /\ Ready(x) => change'[x] = change[x] /\ ver'[x] = ver[x] /\ log'[ver[x]] = log[ver[x]]

LEMMA UnnoticedMapped ==
    ASSUME RInv, RInv', NEW x \in Tx, Unnoticed(x)
    PROVE  Since(x)' = Since(x) /\ Reads(x)' = Reads(x)
<1>1. ReadsAreHistory /\ ReadsAreHistory'
  BY ReadsFacts, ReadsFactsNext
<1> QED BY <1>1 DEF ReadsAreHistory, Unnoticed, Since, Reads

LEMMA StutterStep ==
    ASSUME RInv, RInv', UNCHANGED <<log, ver[Backend], db>>, \A x \in Tx : Unnoticed(x)
    PROVE  UNCHANGED Abstract!vars
<1>1. \A x \in Tx : Status(x)' = Status(x) /\ Since(x)' = Since(x) /\ Reads(x)' = Reads(x)
  BY UnnoticedMapped DEF Unnoticed
<1> QED BY <1>1 DEF Abstract!vars, Since, Reads

LEMMA CloseStep ==
    ASSUME RInv, RInv', UNCHANGED <<ver[Backend], db>>, NEW t \in Tx, Ready(t),
           NEW outcome, outcome # "open", Status(t)' = outcome,
           \A x \in Tx \ {t} : Unnoticed(x)
    PROVE  Abstract!Close(t, outcome)
<1>1. \A x \in Tx \ {t} : Status(x)' = Status(x) /\ Since(x)' = Since(x) /\ Reads(x)' = Reads(x)
  BY UnnoticedMapped DEF Unnoticed
<1>2. Status(t) = "open" /\ Since(t)' = 0 /\ Reads(t)' = Nothing
  BY ReadsFacts, ReadsFactsNext DEF ReadsAreHistory, Since, Reads
<1> QED BY <1>1, <1>2 DEF Abstract!Close, Since, Reads

LEMMA OpenMapped ==
    ASSUME RInv, RInv', NEW t \in Tx, Open(t)
    PROVE  Abstract!Begin(t)
<1> USE StoreAssumption
<1>1. t \notin closed /\ call[t] = "none" /\ change[t] = NoChange /\ t # Backend /\ t \notin Live
  BY BaseFacts, StackFacts
  DEF Open, RInv, HInv, IInv, TypeOK, Registered, UnopenedIsEmpty, Live
<1>2. Top \in Live /\ Top \in Node /\ ver[Top] = Len(log) /\ log[Len(log)] \in Contents
  <2>1. Top \in Live /\ Top \in Node /\ ver[Top] = Len(log)
    BY StackFacts DEF RInv, HInv, IInv, LayersMatchHistory, Live, Node
  <2>2. \A n \in Node : log[ver[n]] \in Contents
    BY DEF RInv, HInv, IInv, TypeOK
  <2> QED BY <2>1, <2>2
<1>3. /\ state' = [state EXCEPT ![t] = "open"] /\ ver' = [ver EXCEPT ![t] = Len(log)]
      /\ UNCHANGED <<change, call, closed, db, log>>
  BY <1>2 DEF Open
<1>4. \A x \in Tx \ {t} : Unnoticed(x)
  BY <1>3 DEF RInv, HInv, IInv, TypeOK, Unnoticed, Status, Node
<1>5. \A x \in Tx \ {t} : Status(x)' = Status(x) /\ Since(x)' = Since(x) /\ Reads(x)' = Reads(x)
  BY <1>4, UnnoticedMapped DEF Unnoticed
<1>6. Status(t) = "none" /\ Status(t)' = "open" /\ Ready(t)'
  BY <1>1, <1>3 DEF RInv, HInv, IInv, TypeOK, Status, Ready, Open
<1>7. Since(t)' = Len(log)
  BY <1>3, <1>6 DEF RInv, HInv, IInv, TypeOK, Since, Node
<1>8. Reads(t)' = log[Len(log)]
  <2>1. Reads(t)' = On(change'[t], log'[ver'[t]])
    BY <1>6, ReadsFactsNext DEF ReadsAreHistory
  <2>2. ver'[t] = Len(log)
    BY <1>3 DEF RInv, HInv, IInv, TypeOK, Node
  <2>3. On(NoChange, log[Len(log)]) = log[Len(log)]
    BY <1>2, OnNoChange
  <2> QED BY <2>1, <2>2, <2>3, <1>1, <1>3
<1>9. UNCHANGED <<log, ver[Backend], db>>
  BY <1>1, <1>3 DEF RInv, HInv, IInv, TypeOK, Node
<1>10. /\ [x \in Tx |-> Since(x)]' = [[x \in Tx |-> Since(x)] EXCEPT ![t] = Len(log)]
       /\ [x \in Tx |-> Reads(x)]' = [[x \in Tx |-> Reads(x)] EXCEPT ![t] = log[Len(log)]]
       /\ [x \in Tx |-> Status(x)]' = [[x \in Tx |-> Status(x)] EXCEPT ![t] = "open"]
  BY <1>5, <1>6, <1>7, <1>8
<1> QED BY <1>6, <1>9, <1>10 DEF Abstract!Begin, Since, Reads

LEMMA WriteMapped ==
    ASSUME RInv, RInv', ~Truncates, NEW t \in Tx,
           TxTruncate(t) \/ \E k \in Key : TxPut(t, k) \/ TxRemove(t, k)
    PROVE  \E k \in Key : Abstract!Write(t, k)
<1> USE StoreAssumption
<1>1. PICK k \in Key : TxPut(t, k) \/ TxRemove(t, k)
  BY DEF TxTruncate
<1> DEFINE c == change'[t]
           v == IF TxPut(t, k) THEN t ELSE Absent
<1>2. /\ Ready(t) /\ UNCHANGED <<state, call, closed, db, log, ver>>
      /\ \A x \in Tx \ {t} : change'[x] = change[x]
      /\ c = IF TxPut(t, k) THEN PutKey(change[t], k, t) ELSE RemoveKey(change[t], k)
  BY <1>1 DEF TxPut, TxRemove, Modify, infoVars, history, RInv, HInv, IInv, TypeOK
<1>3. \A x \in Tx \ {t} : Unnoticed(x)
  BY <1>2 DEF Unnoticed, Status
<1>4. \A x \in Tx \ {t} : Status(x)' = Status(x) /\ Since(x)' = Since(x) /\ Reads(x)' = Reads(x)
  BY <1>3, UnnoticedMapped DEF Unnoticed
<1>5. Ready(t)' /\ Status(t)' = Status(t) /\ Since(t)' = Since(t) /\ Status(t) = "open"
  BY <1>2, ReadsFacts DEF Ready, Status, Since, ReadsAreHistory
<1>6. Reads(t)' = [Reads(t) EXCEPT ![k] = v]
  <2>1. Reads(t) = On(change[t], log[ver[t]]) /\ Reads(t)' = On(c, log[ver[t]])
    BY <1>2, <1>5, ReadsFacts, ReadsFactsNext DEF ReadsAreHistory
  <2>2. change[t] \in Change /\ log[ver[t]] \in Contents /\ t \in Value
    BY DEF Node, RInv, HInv, IInv, TypeOK
  <2>3. CASE TxPut(t, k)
    BY <2>1, <2>2, <2>3, <1>2, WriteOn
  <2>4. CASE ~TxPut(t, k)
    BY <2>1, <2>2, <2>4, <1>2, WriteOn
  <2> QED BY <2>3, <2>4
<1> HIDE DEF c
<1>7. v \in {t, Absent}
  OBVIOUS
<1> HIDE DEF v
<1>8. [x \in Tx |-> Reads(x)]' = [[x \in Tx |-> Reads(x)] EXCEPT ![t][k] = v]
  BY <1>4, <1>6
<1>9. /\ [x \in Tx |-> Since(x)]' = [x \in Tx |-> Since(x)]
      /\ [x \in Tx |-> Status(x)]' = [x \in Tx |-> Status(x)]
  BY <1>4, <1>5
<1>10. Abstract!Write(t, k)
  BY <1>2, <1>5, <1>7, <1>8, <1>9 DEF Abstract!Write, Since, Reads
<1> QED BY <1>10

LEMMA CommitMapped ==
    ASSUME RInv, RInv', NEW t \in Tx, Commit(t)
    PROVE  Abstract!Commit(t)
<1> USE StoreAssumption
<1>0. log \in Seq(Contents) /\ ver \in [Node -> 1..Len(log)] /\ change \in [Tx -> Change]
      /\ call \in [Tx -> {"none", "refused", "commit", "abort", "conflict", "threw"}]
  BY DEF RInv, HInv, IInv, TypeOK
<1>1. /\ Ready(t) /\ t # Backend /\ t \in Node /\ closed' = closed \cup {t}
      /\ UNCHANGED <<state, change, db>> /\ call' = [call EXCEPT ![t] = "commit"]
      /\ ver' = [ver EXCEPT ![t] = Len(log) + 1]
      /\ log' = Append(log, On(change[t], log[ver[t]]))
  BY DEF Commit, txVars, Node
<1>2. ver[t] = Len(log)
  BY <1>1, BaseFacts, CommittableIsOnTop DEF Commit, RInv, HInv, LayersMatchHistory
<1>3. Reads(t) = On(change[t], log[ver[t]]) /\ Since(t) = Len(log)
  BY <1>1, <1>2, ReadsFacts DEF ReadsAreHistory, Since
<1>4. \A i \in 1..Len(log) : log'[i] = log[i]
  <2>1. log \in Seq(Contents) /\ On(change[t], log[ver[t]]) \in Contents
    BY <1>0, <1>1, OnType
  <2> QED BY <1>1, <2>1, AppendProperties
<1>5. \A x \in Tx \ {t} : Unnoticed(x)
  BY <1>0, <1>1, <1>4 DEF Unnoticed, Status, Node
<1>6. Status(t)' = "committed" /\ UNCHANGED <<ver[Backend], db>>
  BY <1>0, <1>1 DEF Status, Node
<1>7. Abstract!Close(t, "committed")
  BY <1>1, <1>5, <1>6, CloseStep
<1> QED BY <1>1, <1>3, <1>7 DEF Abstract!Commit, Since, Reads

\* A commit that is refused since the state it began on has a successor: some later layer
\* of the stack lies on what the transaction is based on, so that a newer state exists.
LEMMA ConflictMapped ==
    ASSUME RInv, RInv', NEW t \in Tx, CommitConflict(t)
    PROVE  Abstract!Conflict(t)
<1> USE StoreAssumption
<1> DEFINE p == parent[t]
<1>0. /\ ver \in [Node -> 1..Len(log)] /\ Len(log) \in Nat
      /\ call \in [Tx -> {"none", "refused", "commit", "abort", "conflict", "threw"}]
  BY DEF RInv, HInv, IInv, TypeOK
<1>1. /\ Ready(t) /\ UNCHANGED <<state, change, closed, db, log, ver>>
      /\ call' = [call EXCEPT ![t] = "conflict"] /\ ~Committable(t)
  BY DEF CommitConflict, Leave, txVars, history
<1>2. t \notin closed /\ p \in Live /\ base[t] = p /\ p \in Node /\ p # Null
  BY <1>1, BaseFacts, StackFacts DEF RInv, HInv, IInv, Registered, Live, Node
<1>3. PICK l \in children[p] : l \in closed
  BY <1>1, <1>2 DEF Committable
<1>4. l \in Layers /\ base[l] = p /\ l \in Node
  BY <1>2, <1>3 DEF RInv, HInv, IInv, Registered, Attached, Node
<1>5. ver[p] < ver[l]
  <2>1. SUFFICES ASSUME run.phase = "applied", l = run.target PROVE FALSE
    BY <1>4 DEF RInv, LayersGrow
  <2>2. Flushable(l) /\ parent[l] = p
    BY <1>4, <2>1, BaseFacts DEF RInv, HInv, IInv, FlushStaysLegal
  <2>3. t \in children[p]
    BY <1>1, <1>2 DEF RInv, HInv, IInv, Registered, Attached
  <2> QED BY <2>2, <2>3, <1>2 DEF Flushable, NoOpenChildren
<1>6. ver[t] < Len(log)
  <2>1. ver[t] = ver[p] /\ ver[l] \in 1..Len(log) /\ ver[p] \in 1..Len(log) /\ Len(log) \in Nat
    BY <1>0, <1>1, <1>2, <1>4 DEF RInv, HInv, LayersMatchHistory
  <2> QED BY <2>1, <1>5
<1>7. \A x \in Tx \ {t} : Unnoticed(x)
  BY <1>0, <1>1 DEF Unnoticed, Status
<1>8. Status(t)' = "conflicted"
  BY <1>0, <1>1, <1>2 DEF Status
<1>9. Abstract!Close(t, "conflicted")
  BY <1>1, <1>7, <1>8, CloseStep
<1> QED BY <1>1, <1>6, <1>9 DEF Abstract!Conflict

LEMMA AbortMapped ==
    ASSUME RInv, RInv', NEW t \in Tx, Abort(t)
    PROVE  Abstract!Abort(t)
<1> USE StoreAssumption
<1>1. /\ Ready(t) /\ UNCHANGED <<state, change, closed, db, log, ver>>
      /\ call' = [call EXCEPT ![t] = "abort"] /\ t \notin closed
  BY DEF Abort, Leave, txVars, history, RInv, HInv, IInv, Registered
<1>2. \A x \in Tx \ {t} : Unnoticed(x)
  BY <1>1 DEF Unnoticed, Status, RInv, HInv, IInv, TypeOK
<1>3. Status(t)' = "aborted"
  BY <1>1 DEF Status, RInv, HInv, IInv, TypeOK
<1>4. Abstract!Close(t, "aborted")
  BY <1>1, <1>2, <1>3, CloseStep
<1> QED BY <1>1, <1>4 DEF Abstract!Abort

\* The write that merges the oldest layer into the backend makes a newer state durable.
LEMMA PersistMapped ==
    ASSUME RInv, RInv', ApplyToBackend
    PROVE  Abstract!Persist
<1> USE StoreAssumption
<1> DEFINE t == run.target
<1>1. /\ run.phase = "applying" /\ t \in Layers /\ base[t] = Backend /\ t \in Node
      /\ ver' = [ver EXCEPT ![Backend] = ver[t]] /\ UNCHANGED <<state, change, call, closed, log>>
  BY BaseFacts DEF ApplyToBackend, txVars, infoVars, RInv, HInv, IInv, FlushStaysLegal, Node
<1>2. /\ ver \in [Node -> 1..Len(log)] /\ Len(log) \in Nat
      /\ db' = log'[ver'[Backend]]
  BY DEF RInv, HInv, IInv, TypeOK, LayersMatchHistory
<1>3. ver[Backend] < ver[t]
  BY <1>1 DEF RInv, LayersGrow
<1>4. /\ ver'[Backend] \in (ver[Backend] + 1)..Len(log) /\ db' = log[ver'[Backend]]
  <2>1. ver'[Backend] = ver[t] /\ ver[t] \in 1..Len(log) /\ ver[Backend] \in 1..Len(log)
    BY <1>1, <1>2 DEF Node
  <2> QED BY <2>1, <1>1, <1>2, <1>3
<1>5. \A x \in Tx : Unnoticed(x)
  BY <1>1, <1>2 DEF Unnoticed, Status, Node
<1>6. \A x \in Tx : Status(x)' = Status(x) /\ Since(x)' = Since(x) /\ Reads(x)' = Reads(x)
  BY <1>5, UnnoticedMapped DEF Unnoticed
<1> QED BY <1>1, <1>4, <1>6 DEF Abstract!Persist, Since, Reads

\* Every other step is invisible: merging layers into each other, cleaning up, running jobs,
\* refusing a commit for the size of the stack, telling a client how its call ended, and
\* whatever happens to snapshots.
LEMMA InvisibleStep ==
    ASSUME RInv, RInv', [Next]_vars, ~ApplyToBackend,
           \A t \in Tx : ~Open(t) /\ ~Commit(t) /\ ~CommitConflict(t) /\ ~Abort(t),
           \A t \in Tx : ~TxTruncate(t) /\ \A k \in Key : ~TxPut(t, k) /\ ~TxRemove(t, k)
    PROVE  UNCHANGED Abstract!vars
<1> USE StoreAssumption
<1>1. /\ closed \subseteq Tx /\ ver \in [Node -> 1..Len(log)] /\ change \in [Tx -> Change]
      /\ state \in [Tx -> {"none", "open", "committed", "aborted", "conflicted"}]
      /\ call \in [Tx -> {"none", "refused", "commit", "abort", "conflict", "threw"}]
      /\ \A x \in closed : call[x] \in {"none", "commit", "threw"} /\ ~Ready(x)
  BY DEF RInv, HInv, IInv, TypeOK, Registered
<1>2. SUFFICES UNCHANGED <<log, ver[Backend], db>> /\ \A x \in Tx : Unnoticed(x)
  BY StutterStep
<1>3. CASE UNCHANGED <<state, change, call, closed, db, log, ver>>
  BY <1>3 DEF Unnoticed, Status
<1>4. ASSUME NEW t \in Tx, CommitRefused(t)
      PROVE  UNCHANGED <<log, ver[Backend], db>> /\ \A x \in Tx : Unnoticed(x)
  <2>1. /\ UNCHANGED <<state, change, closed, db, log, ver>> /\ state[t] = "open"
        /\ call[t] \in {"none", "refused"} /\ call' = [call EXCEPT ![t] = "refused"]
    BY <1>4 DEF CommitRefused, Ready, txVars, infoVars, history
  <2> QED BY <1>1, <2>1 DEF Unnoticed, Status
<1>5. ASSUME NEW t \in Tx, FinishCommit(t)
      PROVE  UNCHANGED <<log, ver[Backend], db>> /\ \A x \in Tx : Unnoticed(x)
  <2>1. /\ UNCHANGED <<change, closed, db, log, ver>> /\ t \in closed
        /\ call' = [call EXCEPT ![t] = "none"] /\ state' = [state EXCEPT ![t] = "committed"]
    BY <1>5 DEF FinishCommit, infoVars, history, RInv, CommitsAreClosed
  <2> QED BY <1>1, <2>1 DEF Unnoticed, Status
<1>6. ASSUME NEW t \in Tx, FinishLeave(t)
      PROVE  UNCHANGED <<log, ver[Backend], db>> /\ \A x \in Tx : Unnoticed(x)
  <2>1. /\ UNCHANGED <<change, closed, db, log, ver>> /\ t \notin closed
        /\ call[t] \in {"abort", "conflict"}
        /\ call' = [call EXCEPT ![t] = "none"]
        /\ state' = [state EXCEPT ![t] = IF call[t] = "abort" THEN "aborted" ELSE "conflicted"]
    BY <1>1, <1>6 DEF FinishLeave, history
  <2> QED BY <1>1, <2>1 DEF Unnoticed, Status, Ready
<1>7. CASE ApplyToParent
  <2> DEFINE p == parent[run.target]
  <2>1. p \in Layers /\ p \in Tx /\ p \in closed
    BY <1>7, BaseFacts, StackFacts DEF ApplyToParent, RInv, HInv, IInv, FlushStaysLegal
  <2>2. /\ UNCHANGED <<state, call, closed, db, log>>
        /\ \A x \in Tx : x # p => change'[x] = change[x]
        /\ \A n \in Node : n # p => ver'[n] = ver[n]
    BY <1>1, <1>7, <2>1 DEF ApplyToParent, infoVars
  <2> QED BY <1>1, <2>1, <2>2 DEF Unnoticed, Status, Node
<1>8. CASE EndJob
  <2>1. /\ UNCHANGED <<state, change, closed, db, log, ver>>
        /\ call' = call \/ (run.job.tx \in closed /\ call' = [call EXCEPT ![run.job.tx] = "threw"])
    BY <1>8 DEF EndJob, RInv, HInv, IInv, JobsAreLegal, txVars, infoVars, history
  <2> QED BY <1>1, <2>1 DEF Unnoticed, Status
<1>9. CASE ApplyFails \/ Cleanup \/ Continue
  BY <1>3, <1>9 DEF ApplyFails, Cleanup, Continue, txVars, infoVars, history, RInv, HInv
<1>10. ASSUME NEW s \in Snap, Snapshots(s)
       PROVE  UNCHANGED <<log, ver[Backend], db>> /\ \A x \in Tx : Unnoticed(x)
  BY <1>3, <1>10 DEF Snapshots, StoreSnapshot, SnapshotAbort, TxSnapshot, txVars, infoVars, history
<1>11. CASE UNCHANGED vars
  BY <1>3, <1>11 DEF vars, txVars, infoVars, history
<1>12. ASSUME NEW t \in Tx, Client(t) PROVE CommitRefused(t)
  BY <1>12 DEF Client
<1> QED BY <1>4, <1>5, <1>6, <1>7, <1>8, <1>9, <1>10, <1>11, <1>12 DEF Next, Finish, Synchronizer

LEMMA AbstractStep ==
    ASSUME ~Truncates, RInv, RInv', [Next]_vars
    PROVE  [Abstract!Next]_(Abstract!vars)
<1>1. ASSUME NEW t \in Tx, Open(t) \/ Commit(t) \/ CommitConflict(t) \/ Abort(t)
      PROVE  Abstract!Next
  BY <1>1, OpenMapped, CommitMapped, ConflictMapped, AbortMapped DEF Abstract!Next
<1>2. ASSUME NEW t \in Tx, TxTruncate(t) \/ \E k \in Key : TxPut(t, k) \/ TxRemove(t, k)
      PROVE  Abstract!Next
  BY <1>2, WriteMapped DEF Abstract!Next
<1>3. CASE ApplyToBackend
  BY <1>3, PersistMapped DEF Abstract!Next
<1> QED BY <1>1, <1>2, <1>3, InvisibleStep

\* The store, with its stack of layers, its asynchronous merges and its queue of jobs,
\* behaves like a store that has none of these: reads are isolated, of the transactions
\* begun on one state the first to commit succeeds and the others conflict, a commit is
\* visible to whoever opens next, merging is invisible, and the database always holds one
\* whole committed state and moves only to newer ones.
THEOREM StoreImplementsAbstractStore ==
    ASSUME ~Truncates, ~Failing
    PROVE  Spec => ImplementsAbstractStore
<1>1. Init => Abstract!Init
  <2> SUFFICES ASSUME Init PROVE Abstract!Init
    OBVIOUS
  <2>1. \A t \in Tx : Status(t) = "none" /\ Since(t) = 0 /\ Reads(t) = Nothing
    BY DEF Init, Status, Since, Reads, Ready
  <2>2. ver[Backend] = 1 /\ db \in [Key -> {Seed, Absent}] /\ log = <<db>>
    BY DEF Init, Node
  <2> QED BY <2>1, <2>2 DEF Abstract!Init, Since, Reads
<1>2. RInv /\ RInv' /\ [Next]_vars => [Abstract!Next]_(Abstract!vars)
  BY AbstractStep
<1>3. Spec => []RInv
  BY RInvariance
<1> QED BY <1>1, <1>2, <1>3, PTL DEF Spec, ImplementsAbstractStore, Abstract!Spec

-----------------------------------------------------------------------------
(***************************************************************************)
(* A snapshot never changes: SnapshotManager.applyTx makes it remember the *)
(* old value of each key that a merge is about to change below it, and     *)
(* hands it to the state that takes the merged one over.                   *)
(*                                                                         *)
(* Proved without truncations and refused writes and for values none       *)
(* of which is falsy (Snapshot._apply loses a falsy value, OldCell).       *)
(***************************************************************************)

\* Where a reader of a node gets to that is still on the stack: merged layers are
\* skipped, as what they are based on contains them.
Landing(own) ==
    /\ own \in [Node -> Node]
    /\ \A x \in Node : own[x] = IF x \in Live THEN x ELSE own[base[x]]

Merging == run.phase \in {"applying", "applied"}

\* A snapshot is of a committed state, only committed states and the backend manage
\* snapshots, and none is managed before it is taken.
SnapshotsFit ==
    /\ old \in [Snap -> Change]
    /\ \A s \in Snap : under[s] \in closed \cup {Backend}
    /\ \A s \in Snap : snap[s] = "none" => \A n \in Node : s \notin managed[n]
    /\ \A t \in Tx : t \notin closed => managed[t] = {}

\* A snapshot is managed by the state its reads get to; while that one is merged into the
\* state below, by both.
ManagedWhereRead(own) ==
    \A n \in Live : \A s \in managed[n] :
        \/ own[under[s]] = n
        \/ Merging /\ n = parent[run.target] /\ own[under[s]] = run.target

\* While a merge is being applied, the snapshots of the state it changes remember the old
\* value of each key it changes.
Remembered(own) ==
    run.phase = "applying" =>
        \A s \in managed[parent[run.target]] \ late :
            own[under[s]] = parent[run.target] /\ snap[s] = "open" =>
                \A k \in Key : change[run.target].cell[k] # Untouched
                                   => old[s].cell[k] # Untouched

SInv ==
    /\ RInv /\ SnapshotsFit
    /\ \E own : Landing(own) /\ ManagedWhereRead(own) /\ Remembered(own)

-----------------------------------------------------------------------------
(***************************************************************************)
(* What remembering does to a difference                                   *)
(***************************************************************************)

LEMMA PreserveType ==
    ASSUME NEW c \in Change, NEW d \in Change, NEW o \in Contents
    PROVE  Preserve(c, d, o) \in Change
BY OverlayAssumption DEF Preserve, OldCell, Change, Contents

\* A snapshot that remembers what d is about to change reads what it did before, and it
\* remembers something for every key that d touches.
LEMMA PreserveBefore ==
    ASSUME Falsy = {}, NEW c \in Change, NEW d \in Change, ~d.truncated, NEW b \in Contents
    PROVE  /\ On(Preserve(c, d, On(c, b)), b) = On(c, b)
           /\ \A k \in Key : d.cell[k] # Untouched
                               => Preserve(c, d, On(c, b)).cell[k] # Untouched
<1> DEFINE o == On(c, b)
           p == Preserve(c, d, o)
<1>1. o \in Contents
  BY OnType
<1>2. ASSUME NEW k \in Key
      PROVE  Get(p, b, k) = o[k] /\ (d.cell[k] # Untouched => p.cell[k] # Untouched)
  <2>1. p.truncated = c.truncated /\ p.cell[k] = OldCell(c, d, o, k)
    BY DEF Preserve, Change
  <2>2. o[k] = Get(c, b, k)
    BY DEF On
  <2>3. o[k] \in Value \cup {Absent}
    BY <1>1 DEF Contents
  <2> HIDE DEF o, p
  <2>4. CASE Remembers(c, k)
    BY <2>1, <2>2, <2>4 DEF OldCell, Get, Remembers
  <2>5. CASE ~Remembers(c, k) /\ d.cell[k] = Untouched
    BY <2>1, <2>2, <2>5, OverlayAssumption DEF OldCell, Get, Remembers
  <2>6. CASE ~Remembers(c, k) /\ d.cell[k] # Untouched
    BY <2>1, <2>3, <2>6, OverlayAssumption DEF OldCell, Get
  <2> QED BY <2>4, <2>5, <2>6
<1>3. o = [k \in Key |-> o[k]]
  BY DEF On
<1> HIDE DEF o, p
<1>4. On(p, b) = o
  BY <1>2, <1>3 DEF On
<1> QED BY <1>2, <1>4 DEF o, p

-----------------------------------------------------------------------------
(***************************************************************************)
(* What steps do to the contents of nodes                                  *)
(***************************************************************************)

ViewEquation ==
    /\ View(Backend) = db
    /\ \A t \in Tx : View(t) = On(change[t], View(base[t]))
    /\ \A n \in Node : View(n) \in Contents
    /\ \A n \in Live : View(n) = log[ver[n]]

LEMMA ViewNow == RInv => ViewEquation
BY ViewFacts, ViewIsHistory DEF RInv, HInv, IInv, ViewEquation

LEMMA ViewNext == RInv' => ViewEquation'
BY ViewNow, PTL

\* What is committed reads the same as before a step that changes no committed difference.
LEMMA ViewKept ==
    ASSUME RInv, RInv', db' = db,
           \A x \in closed : change'[x] = change[x] /\ base'[x] = base[x]
    PROVE  \A x \in closed \cup {Backend} : View(x)' = View(x)
<1> USE StoreAssumption
<1>1. PICK rank : Chained(Node, Backend, base, rank)
  BY DEF RInv, Founded
<1>2. /\ Node = Tx \cup {Backend} /\ closed \subseteq Tx
      /\ \A t \in Tx : base[t] \in closed \cup {Backend}
  BY DEF RInv, HInv, IInv, TypeOK, ReadsClosed, Node
<1>3. ViewEquation /\ ViewEquation'
  BY ViewNow, ViewNext
<1> DEFINE P == {n \in Node : n \in closed \cup {Backend} => View(n)' = View(n)}
<1>4. Backend \in P
  BY <1>2, <1>3 DEF ViewEquation
<1>5. \A n \in Node \ {Backend} : base[n] \in P => n \in P
  BY <1>2, <1>3 DEF ViewEquation
<1>6. Node \subseteq P
  <2> HIDE DEF P
  <2> QED BY <1>1, <1>4, <1>5, ChainInduction
<1> QED BY <1>2, <1>6

\* The clean-up of a merge changes nothing anybody reads.
LEMMA ViewCleaned ==
    ASSUME RInv, RInv', Cleanup
    PROVE  \A x \in Node : View(x)' = View(x)
<1> USE StoreAssumption
<1> DEFINE t == run.target
           p == parent[t]
<1>1. PICK rank : Chained(Node, Backend, base, rank)'
  BY DEF RInv, Founded
<1>2. /\ t \in Live /\ p \in Live /\ ver[p] = ver[t] /\ UNCHANGED <<change, db, log, ver>>
      /\ \A x \in Tx : base'[x] = base[x] \/ (base[x] = t /\ base'[x] = p)
      /\ Node' = Node /\ Node = Tx \cup {Backend}
  BY CleanupFacts DEF RInv, HInv, Live, Node
<1>3. ViewEquation /\ ViewEquation'
  BY ViewNow, ViewNext
<1> HIDE DEF p, t
<1>4. View(p) = View(t)
  BY <1>2, <1>3 DEF ViewEquation
<1>5. \A x \in Tx : View(x) = On(change[x], View(base'[x]))
  BY <1>2, <1>3, <1>4 DEF ViewEquation
<1> DEFINE P == {n \in Node : View(n)' = View(n)}
<1>6. Backend \in P
  BY <1>2, <1>3 DEF ViewEquation
<1>7. \A n \in Node \ {Backend} : base'[n] \in P => n \in P
  BY <1>2, <1>3, <1>5 DEF ViewEquation
<1>8. Node \subseteq P
  <2>1. Chained(Node, Backend, base', rank)
    BY <1>1, <1>2 DEF Chained
  <2> HIDE DEF P
  <2> QED BY <2>1, <1>6, <1>7, ChainInduction
<1> QED BY <1>8

\* A merge changes what is read through the state it is merged into, and there only the
\* keys it touches.
LEMMA ViewApplied ==
    ASSUME RInv, RInv', ApplyToBackend \/ ApplyToParent, NEW own, Landing(own),
           NEW t, t = run.target, NEW p, p = parent[t]
    PROVE  \A x \in Node :
               /\ own[x] # p => View(x)' = View(x)
               /\ \A k \in Key : change[t].cell[k] = Untouched => View(x)'[k] = View(x)[k]
<1> USE StoreAssumption
<1>1. PICK rank : Chained(Node, Backend, base, rank)
  BY DEF RInv, Founded
<1>2. /\ t \in Layers /\ t \in Tx /\ p \in Live /\ p \in Node /\ p # t /\ base[t] = p
      /\ Node = Tx \cup {Backend} /\ \A x \in Tx : base[x] \in Node
  BY BaseFacts, StackFacts DEF ApplyToBackend, ApplyToParent, RInv, HInv, IInv,
     FlushStaysLegal, TypeOK, Live, Node
<1>3. /\ UNCHANGED <<base, stack, log>> /\ ver' = [ver EXCEPT ![p] = ver[t]]
      /\ \A x \in Tx \ {p} : change'[x] = change[x]
  BY DEF ApplyToBackend, ApplyToParent, txVars, infoVars, RInv, HInv, IInv, TypeOK
<1>4. Live' = Live
  BY <1>3 DEF Live, Layers
<1>5. ViewEquation /\ ViewEquation'
  BY ViewNow, ViewNext
<1>6. \A x \in Live : x \in Node /\ x # p => View(x)' = View(x)
  <2>1. \A x \in Live : x \in Node
    BY BaseFacts DEF RInv, HInv, Live, Node
  <2>2. \A x \in Live : View(x) = log[ver[x]] /\ View(x)' = log[ver'[x]]
    BY <1>3, <1>4, <1>5 DEF ViewEquation
  <2>3. \A x \in Node : x # p => ver'[x] = ver[x]
    BY <1>3 DEF RInv, HInv, IInv, TypeOK
  <2> QED BY <2>1, <2>2, <2>3
<1>7. \A x \in Node : x = Backend => x \in Live
  BY DEF Live
<1> DEFINE P == {n \in Node : own[n] # p => View(n)' = View(n)}
<1>8. Node \subseteq P
  <2>1. Backend \in P
    BY <1>2, <1>6, <1>7 DEF Landing
  <2>2. \A n \in Node \ {Backend} : base[n] \in P => n \in P
    <3> TAKE n \in Node \ {Backend}
    <3>1. CASE n \in Live
      BY <3>1, <1>6 DEF Landing
    <3>2. CASE n \notin Live
      <4>1. PICK m \in Node : m = base[n]
        BY <1>2
      <4>2. own[n] = own[m] /\ n \in Tx /\ n # p
        BY <3>2, <4>1, <1>2 DEF Landing
      <4>3. View(n) = On(change[n], View(m)) /\ View(n)' = On(change[n], View(m)')
        BY <4>1, <4>2, <1>3, <1>5 DEF ViewEquation
      <4> QED BY <4>1, <4>2, <4>3
    <3> QED BY <3>1, <3>2
  <2> HIDE DEF P
  <2> QED BY <1>1, <2>1, <2>2, ChainInduction
<1> DEFINE Q == {n \in Node : \A k \in Key : change[t].cell[k] = Untouched
                                               => View(n)'[k] = View(n)[k]}
<1>9. Node \subseteq Q
  <2>1. p \in Q
    <3>1. View(p)' = log[ver[t]] /\ log[ver[t]] = On(change[t], log[ver[p]]) /\ View(p) = log[ver[p]]
      BY <1>2, <1>3, <1>4, <1>5 DEF ViewEquation, RInv, HInv, IInv, TypeOK, LayersMatchHistory
    <3>2. ~change[t].truncated
      BY <1>2 DEF RInv, HInv
    <3> QED BY <3>1, <3>2, <1>2 DEF On, Get
  <2>2. \A n \in Live : n \in Node => n \in Q
    BY <2>1, <1>6
  <2>3. Backend \in Q
    BY <2>2, <1>2, <1>7
  <2>4. \A n \in Node \ {Backend} : base[n] \in Q => n \in Q
    <3> TAKE n \in Node \ {Backend}
    <3>1. CASE n \in Live
      BY <3>1, <2>2
    <3>2. CASE n \notin Live
      <4>1. PICK m \in Node : m = base[n]
        BY <1>2
      <4>2. View(n) = On(change[n], View(m)) /\ View(n)' = On(change[n], View(m)')
        BY <3>2, <4>1, <1>2, <1>3, <1>5 DEF ViewEquation
      <4>3. ASSUME NEW k \in Key, View(m)'[k] = View(m)[k]
            PROVE  View(n)'[k] = View(n)[k]
        BY <4>2, <4>3 DEF On, Get
      <4> QED BY <4>1, <4>3
    <3> QED BY <3>1, <3>2
  <2> HIDE DEF Q
  <2> QED BY <1>1, <2>3, <2>4, ChainInduction
<1> QED BY <1>8, <1>9

-----------------------------------------------------------------------------
(***************************************************************************)
(* The steps, as snapshots see them                                        *)
(***************************************************************************)

\* A merge begins: the snapshots of the state it changes are gone through.
Begins ==
    /\ ~Merging /\ run'.phase = "applying"
    /\ ApplySnapshots(run'.target) /\ UNCHANGED <<late, change, parent>>

\* Nothing happens to snapshots, and a merge that is under way stays what it is.
Goes ==
    /\ UNCHANGED <<snapVars, late>>
    /\ Merging' => Merging
    /\ Merging => /\ Merging' /\ run'.target = run.target
                  /\ parent'[run.target] = parent[run.target]
    /\ run'.phase = "applying" =>
         run.phase = "applying" /\ change'[run.target] = change[run.target]

LEMMA AttemptKinds ==
    ASSUME NEW job, NEW end, NEW t, Attempt(job, end, t), ~Merging,
           UNCHANGED <<late, change, parent>>
    PROVE  Begins \/ Goes
<1>1. run' = [job |-> job, end |-> end, target |-> t, phase |-> Outcome(t)']
      /\ Outcome(t)' \in {"thrown", "applying", "false"}
  BY DEF Attempt, Outcome
<1>2. CASE run'.phase = "applying"
  BY <1>1, <1>2 DEF Attempt, Begins
<1>3. CASE run'.phase # "applying"
  BY <1>1, <1>3 DEF Attempt, Goes, Merging
<1> QED BY <1>2, <1>3

LEMMA StartKinds ==
    ASSUME NEW job, Start(job), ~Merging, UNCHANGED <<late, change, parent>>
    PROVE  Begins \/ Goes
<1>1. CASE job.kind # "merge" /\ stack = <<>>
  BY <1>1 DEF Start, Goes, Merging
<1>2. CASE ~(job.kind # "merge" /\ stack = <<>>)
  BY <1>2, AttemptKinds DEF Start
<1> QED BY <1>1, <1>2

LEMMA StepKinds ==
    ASSUME RInv, RInv', [Next]_vars
    PROVE  Begins \/ Goes \/ Cleanup \/ \E s \in Snap : Snapshots(s)
<1> USE StoreAssumption
<1>1. /\ parent \in [Tx -> Node \cup {Null}] /\ change \in [Tx -> Change] /\ run \in Running \cup {Idle}
      /\ Merging => run.target \in Layers /\ run.target \in Tx /\ run # Idle /\ ~Finished
      /\ \A l \in Layers : l \in Tx /\ state[l] # "none" /\ ~Ready(l)
      /\ run = Idle => ~Merging
  <2>1. /\ parent \in [Tx -> Node \cup {Null}] /\ change \in [Tx -> Change]
        /\ run \in Running \cup {Idle}
    BY DEF RInv, HInv, IInv, TypeOK
  <2>2. Merging => run.target \in Layers /\ run # Idle /\ ~Finished
    BY DEF RInv, HInv, IInv, FlushStaysLegal, Merging, Idle, Finished
  <2>3. \A l \in Layers : l \in Tx /\ l \in closed
    BY StackFacts DEF RInv, HInv, IInv
  <2>4. \A l \in closed : l \in Tx => state[l] # "none" /\ ~Ready(l)
    BY DEF RInv, HInv, IInv, Registered
  <2> QED BY <2>1, <2>2, <2>3, <2>4 DEF Merging, Idle
<1>2. ASSUME UNCHANGED <<run, snapVars, late>>,
             Merging => change'[run.target] = change[run.target]
                        /\ parent'[run.target] = parent[run.target]
      PROVE  Goes
  BY <1>2 DEF Goes, Merging
<1>3. ASSUME NEW job, Push(job), late' = late, UNCHANGED <<change, parent>> PROVE Begins \/ Goes
  BY <1>1, <1>2, <1>3, StartKinds DEF Push
<1>4. ASSUME NEW t \in Tx, Client(t) PROVE Begins \/ Goes
  <2>1. CASE Open(t)
    BY <1>1, <1>2, <2>1 DEF Open
  <2>2. CASE TxTruncate(t) \/ \E k \in Key : TxPut(t, k) \/ TxRemove(t, k)
    BY <1>1, <1>2, <2>2 DEF TxTruncate, TxPut, TxRemove, Modify, infoVars, history
  <2>3. CASE Commit(t)
    <3>1. CASE Flushable(t)'
      BY <1>3, <2>3, <3>1 DEF Commit, txVars
    <3>2. CASE ~Flushable(t)'
      BY <1>2, <2>3, <3>2 DEF Commit, txVars
    <3> QED BY <3>1, <3>2
  <2>4. CASE CommitRefused(t)
    BY <1>2, <2>4 DEF CommitRefused, txVars, infoVars, history
  <2>5. CASE CommitConflict(t) \/ Abort(t)
    <3>1. PICK why : Leave(t, why)
      BY <2>5 DEF CommitConflict, Abort
    <3>2. UNCHANGED <<change, parent, late>>
      BY <3>1 DEF Leave, txVars, history
    <3>3. Push([kind |-> "all", tx |-> t]) \/ UNCHANGED <<run, snapVars>>
      BY <3>1 DEF Leave
    <3> QED BY <1>2, <1>3, <3>2, <3>3
  <2> QED BY <1>4, <2>1, <2>2, <2>3, <2>4, <2>5 DEF Client
<1>5. ASSUME NEW t \in Tx, Finish(t) PROVE Goes
  BY <1>2, <1>5 DEF Finish, FinishCommit, FinishLeave, infoVars, history
<1>6. CASE ApplyToBackend \/ ApplyToParent
  <2>1. /\ run.phase = "applying" /\ run.target \in Layers /\ UNCHANGED <<snapVars, late, parent>>
        /\ run' = [run EXCEPT !.phase = "applied"] /\ run \in Running
    BY <1>1, <1>6 DEF ApplyToBackend, ApplyToParent, infoVars, Merging
  <2> QED BY <2>1 DEF Goes, Merging, Running
<1>7. CASE ApplyFails
  <2>1. run'.phase = "failed"
    BY <1>1, <1>7 DEF ApplyFails, Merging, Running
  <2> QED BY <2>1 DEF RInv, HInv
<1>8. CASE Continue
  <2>1. ~Merging /\ UNCHANGED <<late, change, parent>>
    BY <1>8 DEF Continue, Merging, history, txVars, infoVars
  <2> QED BY <1>8, <2>1, AttemptKinds DEF Continue
<1>9. CASE EndJob
  <2>1. ~Merging /\ UNCHANGED <<late, change, parent>>
    BY <1>1, <1>9 DEF EndJob, history, txVars, infoVars
  <2>2. CASE run' = Idle /\ UNCHANGED snapVars
    BY <2>1, <2>2 DEF Goes, Merging, Idle
  <2> QED BY <1>9, <2>1, <2>2, StartKinds DEF EndJob
<1>10. CASE UNCHANGED vars
  BY <1>2, <1>10 DEF vars, txVars, infoVars, history
<1> QED BY <1>4, <1>5, <1>6, <1>7, <1>8, <1>9, <1>10 DEF Next, Synchronizer

\* What committed states get to stays, and no state comes back.
Kept(new, own) ==
    \A x \in closed \cup {Backend} : new[x] = own[x] /\ (x \in Live' => x \in Live)

\* Where reads get to after a step: what got to a merged layer gets to its parent once that
\* layer is cleaned up, and only new states are reached besides.
LEMMA LandingStep ==
    ASSUME RInv, RInv', [Next]_vars, NEW own, Landing(own)
    PROVE  \E new : /\ Landing(new)'
                    /\ \A x \in closed \cup {Backend} :
                         /\ new[x] = IF Cleanup /\ own[x] = run.target THEN parent[run.target]
                                     ELSE own[x]
                         /\ x \in Live' => x \in Live
<1> USE StoreAssumption
<1>1. /\ Node' = Node /\ Node = Tx \cup {Backend} /\ Backend \in Live /\ closed \subseteq Tx
      /\ base \in [Tx -> Node] /\ \A x \in Tx : base[x] \in closed \cup {Backend}
      /\ Live \subseteq closed \cup {Backend}
  BY StackFacts DEF RInv, HInv, IInv, TypeOK, ReadsClosed, Node, Live
<1>2. /\ own \in [Node -> Node]
      /\ \A x \in Node : own[x] = IF x \in Live THEN x ELSE own[base[x]]
  BY DEF Landing
<1>3. CASE Cleanup
  <2>0. PICK t, p, new : t = run.target /\ p = parent[t]
                         /\ new = [x \in Node |-> IF own[x] = t THEN p ELSE own[x]]
    OBVIOUS
  <2>1. /\ t \in Layers /\ t \in Tx /\ t \in Node /\ p \in Live /\ p \in Node /\ p # t /\ base[t] = p
        /\ Layers' = Layers \ {t}
        /\ base' = [x \in Tx |-> IF base[x] = t /\ Attached(x) THEN p ELSE base[x]]
    BY <1>3, <2>0, CleanupFacts DEF RInv, HInv, Node
  <2>2. Live' = Live \ {t}
    BY <2>1 DEF Live
  <2>3. t \in Live /\ own[t] = t /\ own[p] = p
    BY <1>2, <2>1 DEF Live
  <2>4. new \in [Node -> Node] /\ \A x \in Node : new[x] = IF own[x] = t THEN p ELSE own[x]
    BY <1>2, <2>0, <2>1
  <2>5. ASSUME NEW x \in Node PROVE new[x] = IF x \in Live' THEN x ELSE new[base'[x]]
    <3>1. CASE x \in Live'
      BY <3>1, <2>2, <2>4, <1>2
    <3>2. CASE x = t
      BY <3>2, <1>2, <2>1, <2>2, <2>3, <2>4
    <3>3. CASE x \notin Live
      <4>1. x \in Tx /\ own[x] = own[base[x]] /\ base[x] \in Node
        BY <3>3, <1>1, <1>2
      <4>2. base'[x] = base[x] \/ (base[x] = t /\ base'[x] = p)
        BY <4>1, <2>1
      <4> QED BY <3>3, <4>1, <4>2, <2>1, <2>2, <2>3, <2>4
    <3> QED BY <3>1, <3>2, <3>3, <2>2
  <2>6. Landing(new)'
    BY <1>1, <2>4, <2>5 DEF Landing
  <2>7. \A x \in closed \cup {Backend} :
           new[x] = (IF own[x] = t THEN p ELSE own[x]) /\ (x \in Live' => x \in Live)
    BY <1>1, <2>2, <2>4
  <2> QED BY <1>3, <2>0, <2>6, <2>7
<1>4. ASSUME NEW t \in Tx, t \notin Live, t \notin closed, Live' = Live \cup {t}, base' = base, ~Cleanup
      PROVE  \E new : Landing(new)' /\ Kept(new, own)
  <2> DEFINE new == [own EXCEPT ![t] = t]
  <2>1. new \in [Node -> Node] /\ \A x \in Node : x # t => new[x] = own[x]
    BY <1>1, <1>2
  <2>2. \A x \in Node : new[x] = IF x \in Live' THEN x ELSE new[base'[x]]
    BY <1>1, <1>2, <1>4, <2>1
  <2>3. Landing(new)'
    BY <1>1, <2>1, <2>2 DEF Landing
  <2>4. Kept(new, own)
    BY <1>1, <1>4, <2>1 DEF Kept
  <2> HIDE DEF new
  <2> QED BY <2>3, <2>4
<1>5. ASSUME NEW t \in Tx, Open(t)
      PROVE  \E new : Landing(new)' /\ Kept(new, own)
  <2>0. PICK new : new = [own EXCEPT ![t] = Top]
    OBVIOUS
  <2>1. /\ t \notin closed /\ Top \in Live /\ Top \in Node /\ Live' = Live
        /\ base' = [base EXCEPT ![t] = Top]
    BY <1>5, StackFacts DEF Open, RInv, HInv, IInv, Registered, Live, Layers, Node
  <2>2. new \in [Node -> Node] /\ new[t] = Top /\ \A x \in Node : x # t => new[x] = own[x]
    BY <1>1, <1>2, <2>0, <2>1
  <2>3. \A x \in Node : new[x] = IF x \in Live' THEN x ELSE new[base'[x]]
    BY <1>1, <1>2, <2>1, <2>2
  <2>4. Landing(new)'
    BY <1>1, <2>2, <2>3 DEF Landing
  <2>5. Kept(new, own)
    BY <1>1, <2>1, <2>2 DEF Kept
  <2> QED BY <2>4, <2>5
<1>6. ASSUME NEW t \in Tx, Commit(t)
      PROVE  \E new : Landing(new)' /\ Kept(new, own)
  <2>1. t \notin Live /\ t \notin closed /\ base' = base /\ stack' = Append(stack, t)
    BY <1>6, BaseFacts DEF Commit, Live, txVars, RInv, HInv, IInv, Registered
  <2>2. Layers' = Layers \cup {t}
    <3>1. stack \in Seq(Tx)
      BY DEF RInv, HInv, IInv, TypeOK
    <3>2. DOMAIN stack = 1..Len(stack) /\ DOMAIN stack' = 1..(Len(stack) + 1)
          /\ stack'[Len(stack) + 1] = t /\ \A i \in 1..Len(stack) : stack'[i] = stack[i]
          /\ Len(stack) \in Nat
      BY <2>1, <3>1, AppendProperties
    <3> QED BY <3>2 DEF Layers
  <2>3. ~Cleanup
    BY <2>1, <1>6 DEF Cleanup, Commit
  <2> QED BY <1>4, <2>1, <2>2, <2>3 DEF Live
<1>7. CASE ~Cleanup /\ ~\E t \in Tx : Open(t) \/ Commit(t)
  <2>1. UNCHANGED <<base, stack>>
    <3>1. ASSUME NEW t \in Tx, Client(t) \/ Finish(t) PROVE UNCHANGED <<base, stack>>
      BY <1>7, <3>1 DEF Client, TxTruncate, TxPut, TxRemove, Modify, CommitRefused, Finish,
         CommitConflict, Abort, Leave, FinishCommit, FinishLeave, txVars, infoVars
    <3>2. ASSUME Synchronizer PROVE UNCHANGED <<base, stack>>
      BY <1>7, <3>2 DEF Synchronizer, ApplyToBackend, ApplyToParent, ApplyFails, Continue, EndJob,
         txVars, infoVars
    <3>3. ASSUME NEW s \in Snap, Snapshots(s) PROVE UNCHANGED <<base, stack>>
      BY <3>3 DEF Snapshots, StoreSnapshot, SnapshotAbort, TxSnapshot, txVars, infoVars
    <3>4. CASE UNCHANGED vars
      BY <3>4 DEF vars, txVars, infoVars
    <3> QED BY <3>1, <3>2, <3>3, <3>4 DEF Next
  <2>2. Live' = Live
    BY <2>1 DEF Live, Layers
  <2>3. Landing(own)'
    BY <1>1, <1>2, <2>1, <2>2 DEF Landing
  <2> QED BY <1>7, <2>2, <2>3
<1>8. ASSUME NEW t \in Tx, Open(t) \/ Commit(t) PROVE ~Cleanup
  <2>1. Layers \subseteq Layers'
    <3>1. CASE Open(t)
      BY <3>1 DEF Open, Layers
    <3>2. CASE Commit(t)
      <4>1. stack \in Seq(Tx) /\ stack' = Append(stack, t)
        BY <3>2 DEF Commit, RInv, HInv, IInv, TypeOK
      <4>2. \A i \in DOMAIN stack : i \in DOMAIN stack' /\ stack'[i] = stack[i]
        BY <4>1, AppendProperties
      <4> QED BY <4>2 DEF Layers
    <3> QED BY <1>8, <3>1, <3>2
  <2>2. Cleanup => run.target \in Layers /\ run.target \notin Layers'
    BY CleanupFacts DEF RInv, HInv
  <2> QED BY <2>1, <2>2
<1> QED BY <1>3, <1>5, <1>6, <1>7, <1>8 DEF Kept

\* Committed differences change only when one is merged into another.
LEMMA CommittedKept ==
    ASSUME RInv, [Next]_vars
    PROVE  /\ closed \subseteq closed'
           /\ ~ApplyToBackend /\ ~ApplyToParent /\ ~Cleanup =>
                db' = db /\ \A x \in closed : change'[x] = change[x] /\ base'[x] = base[x]
<1>1. /\ closed \subseteq Tx /\ change \in [Tx -> Change] /\ base \in [Tx -> Node]
      /\ \A t \in closed : ~Ready(t) /\ state[t] # "none"
  BY DEF RInv, HInv, IInv, TypeOK, Registered
<1>2. ASSUME NEW t \in Tx, Client(t) \/ Finish(t)
      PROVE  closed \subseteq closed' /\ db' = db
             /\ \A x \in closed : change'[x] = change[x] /\ base'[x] = base[x]
  <2>1. CASE Open(t)
    BY <1>1, <2>1 DEF Open
  <2>2. CASE TxTruncate(t) \/ \E k \in Key : TxPut(t, k) \/ TxRemove(t, k)
    BY <1>1, <2>2 DEF TxTruncate, TxPut, TxRemove, Modify, infoVars
  <2>3. CASE ~Open(t) /\ ~(TxTruncate(t) \/ \E k \in Key : TxPut(t, k) \/ TxRemove(t, k))
    BY <1>2, <2>3 DEF Client, Commit, CommitRefused, Finish, CommitConflict, Abort, Leave,
       FinishCommit, FinishLeave, txVars, infoVars
  <2> QED BY <2>1, <2>2, <2>3
<1>3. CASE Synchronizer
  BY <1>3 DEF Synchronizer, ApplyToBackend, ApplyToParent, ApplyFails, Cleanup, Continue, EndJob,
     txVars, infoVars
<1>4. ASSUME NEW s \in Snap, Snapshots(s) PROVE UNCHANGED <<closed, db, change, base>>
  BY <1>4 DEF Snapshots, StoreSnapshot, SnapshotAbort, TxSnapshot, txVars, infoVars
<1>5. CASE UNCHANGED vars
  BY <1>5 DEF vars, txVars, infoVars
<1> QED BY <1>2, <1>3, <1>4, <1>5 DEF Next

\* A snapshot is taken of n, with differences c; or taking it throws; or it is given up.
Taken(s, n, c) ==
    /\ snap[s] = "none"
    /\ \A r \in Snap \ {s} : snap'[r] = snap[r] /\ old'[r] = old[r] /\ under'[r] = under[r]
    /\ snap'[s] # "none" /\ old' = [old EXCEPT ![s] = c] /\ under' = [under EXCEPT ![s] = n]
    /\ managed' = [managed EXCEPT ![n] = @ \cup {s}]
    /\ late \subseteq late' /\ (snap'[s] = "open" /\ n \in BeingMerged => s \in late')

Dropped(s) ==
    /\ snap' = [snap EXCEPT ![s] = IF snap[s] = "none" THEN "threw" ELSE "aborted"]
    /\ old' \in {old, [old EXCEPT ![s] = Emptied]}
    /\ managed' \in {managed, [managed EXCEPT ![Backend] = @ \ {s}]}
    /\ UNCHANGED <<under, late>>

LEMMA SnapshotKinds ==
    ASSUME RInv, SnapshotsFit, NEW s \in Snap, Snapshots(s)
    PROVE  /\ UNCHANGED <<txVars, call, infoVars, db, queue, run, log, ver>>
           /\ Dropped(s) \/ \E n \in closed \cup {Backend}, c \in Change : Taken(s, n, c)
<1>1. /\ snap \in [Snap -> {"none", "open", "aborted", "threw"}] /\ old \in [Snap -> Change]
      /\ under \in [Snap -> Node] /\ change \in [Tx -> Change] /\ closed \subseteq Tx
      /\ Top \in closed \cup {Backend}
      /\ \A t \in Tx : state[t] = "committed" => t \in closed
  BY StackFacts DEF RInv, HInv, IInv, TypeOK, SnapshotsFit, CommitsAreClosed
<1>2. UNCHANGED <<txVars, call, infoVars, db, queue, run, log, ver>>
  BY DEF Snapshots, StoreSnapshot, SnapshotAbort, TxSnapshot, history
<1>3. ASSUME NEW n \in closed \cup {Backend}, NEW c \in Change, Register(s, n, c), snap[s] = "none"
      PROVE  Taken(s, n, c)
  BY <1>1, <1>3 DEF Register, Taken
<1>4. ASSUME SnapshotThrows(s), snap[s] = "none" PROVE Dropped(s)
  BY <1>1, <1>4 DEF SnapshotThrows, Dropped
<1>5. CASE StoreSnapshot(s)
  BY <1>1, <1>2, <1>3, <1>4, <1>5, ChangeType DEF StoreSnapshot
<1>6. CASE SnapshotAbort(s)
  BY <1>1, <1>2, <1>6 DEF SnapshotAbort, Dropped, history
<1>7. ASSUME NEW t \in Tx, TxSnapshot(s, t)
      PROVE  Dropped(s) \/ \E n \in closed \cup {Backend}, c \in Change : Taken(s, n, c)
  <2>1. CASE Register(s, t, NoChange) /\ state[t] = "committed"
    BY <1>1, <1>3, <1>7, <2>1, ChangeType DEF TxSnapshot
  <2>2. CASE SnapshotThrows(s)
    BY <1>4, <1>7, <2>2 DEF TxSnapshot
  <2>3. CASE Register(s, Top, change[t])
    BY <1>1, <1>3, <1>7, <2>3 DEF TxSnapshot
  <2>4. CASE /\ snap' = [snap EXCEPT ![s] = "threw"]
             /\ under' = [under EXCEPT ![s] = Top]
             /\ managed' = [managed EXCEPT ![Top] = @ \cup {s}]
             /\ UNCHANGED <<old, late>>
    <3>1. Taken(s, Top, old[s])
      BY <1>1, <1>7, <2>4 DEF Taken, TxSnapshot
    <3> QED BY <1>1, <3>1
  <2> QED BY <1>7, <2>1, <2>2, <2>3, <2>4 DEF TxSnapshot
<1> QED BY <1>2, <1>5, <1>6, <1>7 DEF Snapshots

-----------------------------------------------------------------------------
(***************************************************************************)
(* The inductive invariant                                                 *)
(***************************************************************************)

LayersTyped == Layers \subseteq Tx /\ \A l \in Layers : parent[l] # l /\ parent[l] \in Node

LEMMA LayersAfterStep == (TypeOK /\ Registered)' => LayersTyped'
<1>1. TypeOK /\ Registered => LayersTyped
  BY StackFacts DEF LayersTyped
<1> QED BY <1>1, PTL

\* The state a merge begins with and the one below it.
LEMMA BeginFacts ==
    ASSUME RInv, RInv', Begins, NEW t, t = run'.target, NEW p, p = parent[t]
    PROVE  /\ t \in Tx /\ t \in Live' /\ p \in Node /\ p # t /\ p \in closed' \cup {Backend}
           /\ managed' = [managed EXCEPT ![p] = @ \cup managed[t]] /\ UNCHANGED <<snap, under>>
           /\ old' = [s \in Snap |-> IF s \in managed[p]
                                       THEN Preserve(old[s], change[t], SnapView(s)) ELSE old[s]]
           /\ UNCHANGED <<late, change, parent>> /\ run'.phase = "applying" /\ ~Merging
<1>1. t \in Layers' /\ parent'[t] = p
  BY DEF Begins, RInv, HInv, IInv, FlushStaysLegal
<1>2. TypeOK' /\ Registered' /\ ReadsClosed'
  BY DEF RInv, HInv, IInv
<1>3. (Layers \subseteq Tx)' /\ \A l \in Layers' : parent'[l] # l /\ parent'[l] \in Node
  BY <1>2, LayersAfterStep DEF LayersTyped, Node
<1>4. t \in Tx /\ p # t /\ p \in Node /\ base'[t] = p
  BY <1>1, <1>2, <1>3 DEF Registered, Attached
<1>5. p \in closed' \cup {Backend}
  BY <1>2, <1>4 DEF ReadsClosed
<1> QED BY <1>1, <1>4, <1>5 DEF Begins, ApplySnapshots, Live

LEMMA FitStep ==
    ASSUME RInv, RInv', SnapshotsFit, [Next]_vars
    PROVE  SnapshotsFit'
<1> USE StoreAssumption
<1>1. closed \subseteq closed' /\ closed' \subseteq Tx /\ Node = Tx \cup {Backend} /\ Node' = Node
  BY CommittedKept DEF RInv, HInv, IInv, TypeOK, Node
<1>2. /\ snap \in [Snap -> {"none", "open", "aborted", "threw"}] /\ under \in [Snap -> Node]
      /\ managed \in [Node -> SUBSET Snap]
  BY DEF RInv, HInv, IInv, TypeOK
<1>3. CASE UNCHANGED snapVars
  BY <1>1, <1>3 DEF SnapshotsFit, snapVars
<1>4. CASE Begins
  <2>1. PICK t, p : t = run'.target /\ p = parent[t]
    OBVIOUS
  <2>2. /\ t \in Tx /\ p \in Node /\ p \in closed' \cup {Backend}
        /\ managed' = [managed EXCEPT ![p] = @ \cup managed[t]] /\ UNCHANGED <<snap, under>>
        /\ old' = [s \in Snap |-> IF s \in managed[p]
                                    THEN Preserve(old[s], change[t], SnapView(s)) ELSE old[s]]
    BY <1>4, <2>1, BeginFacts
  <2>3. old' \in [Snap -> Change]
    <3>1. ASSUME NEW s \in Snap PROVE Preserve(old[s], change[t], SnapView(s)) \in Change
      <4>1. old[s] \in Change /\ change[t] \in Change /\ View(under[s]) \in Contents
        BY <1>2, <2>2, ViewNow DEF SnapshotsFit, ViewEquation, RInv, HInv, IInv, TypeOK
      <4> QED BY <4>1, OnType, PreserveType DEF SnapView
    <3> QED BY <2>2, <3>1 DEF SnapshotsFit
  <2> QED BY <1>1, <1>2, <2>2, <2>3 DEF SnapshotsFit
<1>5. ASSUME NEW s \in Snap, Snapshots(s) PROVE SnapshotsFit'
  <2>1. closed' = closed
    BY <1>5, SnapshotKinds DEF infoVars
  <2>2. CASE Dropped(s)
    BY <1>1, <1>2, <2>1, <2>2, ChangeType DEF Dropped, SnapshotsFit
  <2>3. ASSUME NEW n \in closed \cup {Backend}, NEW c \in Change, Taken(s, n, c)
        PROVE  SnapshotsFit'
    BY <1>1, <1>2, <2>1, <2>3 DEF Taken, SnapshotsFit
  <2> QED BY <1>5, <2>2, <2>3, SnapshotKinds
<1>6. CASE Cleanup
  BY <1>3, <1>6, CleanupFacts DEF RInv, HInv
<1> QED BY <1>3, <1>4, <1>5, <1>6, StepKinds DEF Goes

LEMMA WhereReadStep ==
    ASSUME RInv, RInv', SnapshotsFit, SnapshotsFit', [Next]_vars, NEW own, Landing(own),
           ManagedWhereRead(own), Remembered(own)
    PROVE  \E new : Landing(new)' /\ ManagedWhereRead(new)' /\ Remembered(new)'
<1> USE StoreAssumption
<1>1. PICK new : /\ Landing(new)'
                 /\ \A x \in closed \cup {Backend} :
                      /\ new[x] = IF Cleanup /\ own[x] = run.target THEN parent[run.target]
                                  ELSE own[x]
                      /\ x \in Live' => x \in Live
  BY LandingStep
<1>2. /\ \A s \in Snap : under[s] \in closed \cup {Backend}
      /\ \A n \in Node : managed[n] # {} => n \in closed \cup {Backend}
      /\ Live' \subseteq Node /\ Live \subseteq Node /\ Node' = Node
      /\ managed \in [Node -> SUBSET Snap]
  <2>1. \A l : (l \in Layers => l \in Tx) /\ (l \in Layers' => l \in Tx)
    BY StackFacts, LayersAfterStep DEF LayersTyped, RInv, HInv, IInv
  <2> QED BY <2>1 DEF SnapshotsFit, Node, Live, RInv, HInv, IInv, TypeOK
<1>3. \A n \in Live : \A s \in managed[n] :
        own[under[s]] = n \/ (Merging /\ n = parent[run.target] /\ own[under[s]] = run.target)
  BY DEF ManagedWhereRead
<1>4. CASE Cleanup
  <2>1. /\ UNCHANGED snapVars /\ run'.phase = "true" /\ Live' = Live \ {run.target}
        /\ ~Merging'
    BY <1>4, CleanupFacts, StoreAssumption DEF RInv, HInv, Live, Node, Merging
  <2>2. \A s \in Snap : under'[s] = under[s]
    BY <2>1 DEF snapVars
  <2>3. ASSUME NEW n \in Live', NEW s \in managed[n] PROVE new[under[s]] = n
    <3>1. n \in Live /\ n # run.target /\ s \in Snap
      BY <1>2, <2>1
    <3> QED BY <1>1, <1>2, <1>3, <1>4, <3>1
  <2>4. ManagedWhereRead(new)'
    BY <2>1, <2>3 DEF ManagedWhereRead, snapVars
  <2>5. Remembered(new)'
    BY <2>1 DEF Remembered
  <2> QED BY <1>1, <2>4, <2>5
<1>5. CASE ~Cleanup
  <2>0. \A x \in closed \cup {Backend} : new[x] = own[x] /\ (x \in Live' => x \in Live)
    BY <1>1, <1>5
  <2>1. CASE Begins
    <3>1. PICK t, p : t = run'.target /\ p = parent[t]
      OBVIOUS
    <3>2. /\ t \in Tx /\ t \in Live' /\ p \in Node /\ p # t
          /\ managed' = [managed EXCEPT ![p] = @ \cup managed[t]] /\ UNCHANGED <<snap, under>>
          /\ old' = [s \in Snap |-> IF s \in managed[p]
                                      THEN Preserve(old[s], change[t], SnapView(s)) ELSE old[s]]
          /\ UNCHANGED <<late, change, parent>> /\ run'.phase = "applying" /\ ~Merging
      BY <2>1, <3>1, BeginFacts
    <3>3. ASSUME NEW n \in Live', NEW s \in managed[n] PROVE new[under[s]] = n
      BY <2>0, <3>2, <1>2, <1>3
    <3>4. \A s \in managed[t] : new[under[s]] = t
      BY <3>2, <3>3
    <3>5. ManagedWhereRead(new)'
      <4>1. ASSUME NEW n \in Live', NEW s \in managed'[n]
            PROVE  new[under[s]] = n \/ (n = p /\ new[under[s]] = t)
        BY <3>2, <3>3, <3>4, <1>2
      <4>2. Merging'
        BY <3>2 DEF Merging
      <4> QED BY <3>1, <3>2, <4>1, <4>2 DEF ManagedWhereRead
    <3>6. ASSUME NEW s \in managed[p], NEW k \in Key, change[t].cell[k] # Untouched
          PROVE  old'[s].cell[k] # Untouched
      <4>1. /\ s \in Snap /\ old[s] \in Change /\ change[t] \in Change /\ View(under[s]) \in Contents
        BY <1>2, <3>2, <3>6, ViewNow DEF SnapshotsFit, ViewEquation, RInv, HInv, IInv, TypeOK
      <4>2. old'[s].cell[k] = OldCell(old[s], change[t], SnapView(s), k)
        BY <3>2, <3>6, <4>1 DEF Preserve
      <4>3. SnapView(s)[k] \in Value \cup {Absent}
        BY <4>1, OnType DEF SnapView, Contents
      <4>4. ~change[t].truncated
        BY <3>2 DEF RInv, HInv
      <4> QED BY <3>6, <4>1, <4>2, <4>3, <4>4, OverlayAssumption DEF OldCell, Remembers
    <3>7. Remembered(new)'
      <4>1. ASSUME NEW s \in managed'[p], new[under[s]] = p PROVE s \in managed[p]
        BY <3>2, <3>4, <4>1, <1>2
      <4> QED BY <3>1, <3>2, <3>6, <4>1 DEF Remembered
    <3> QED BY <1>1, <3>5, <3>7
  <2>2. CASE Goes
    <3>1. UNCHANGED <<snap, old, under, managed, late>>
      BY <2>2 DEF Goes, snapVars
    <3>2. ManagedWhereRead(new)'
      <4>1. ASSUME NEW n \in Live', NEW s \in managed[n]
            PROVE  new[under[s]] = n
                   \/ (Merging' /\ n = parent'[run'.target] /\ new[under[s]] = run'.target)
        <5>1. n \in Live /\ new[under[s]] = own[under[s]]
          BY <1>2, <2>0
        <5>2. Merging => Merging' /\ run'.target = run.target /\ parent'[run.target] = parent[run.target]
          BY <2>2 DEF Goes
        <5> QED BY <1>3, <5>1, <5>2
      <4> QED BY <3>1, <4>1 DEF ManagedWhereRead
    <3>3. Remembered(new)'
      <4>1. SUFFICES ASSUME run'.phase = "applying" PROVE Remembered(new)'
        BY DEF Remembered
      <4>2. /\ run.phase = "applying" /\ run'.target = run.target
            /\ parent'[run.target] = parent[run.target] /\ change'[run.target] = change[run.target]
        BY <2>2, <4>1 DEF Goes, Merging
      <4>3. parent[run.target] \in Node
        BY <4>2, BaseFacts DEF RInv, HInv, IInv, FlushStaysLegal, Node
      <4>4. \A s \in managed[parent[run.target]] : new[under[s]] = own[under[s]]
        BY <1>2, <2>0, <4>3
      <4> QED BY <3>1, <4>2, <4>4 DEF Remembered
    <3> QED BY <1>1, <3>2, <3>3
  <2>3. ASSUME NEW r \in Snap, Snapshots(r)
        PROVE  ManagedWhereRead(new)' /\ Remembered(new)'
    <3>1. UNCHANGED <<change, parent, run>> /\ Merging' = Merging
      BY <2>3, SnapshotKinds DEF txVars, infoVars, Merging
    <3>2. CASE Dropped(r)
      <4>1. \A n \in Node : managed'[n] \subseteq managed[n]
        BY <3>2, <1>2 DEF Dropped
      <4>2. under' = under /\ late' = late
            /\ \A s \in Snap : snap'[s] = "open" => snap[s] = "open" /\ s # r /\ old'[s] = old[s]
        BY <3>2 DEF Dropped, SnapshotsFit, RInv, HInv, IInv, TypeOK
      <4>3. ManagedWhereRead(new)'
        <5>1. ASSUME NEW n \in Live', NEW s \in managed'[n]
              PROVE  n \in Live /\ s \in managed[n] /\ new[under[s]] = own[under[s]]
          BY <1>2, <2>0, <4>1
        <5> QED BY <1>3, <3>1, <4>2, <5>1 DEF ManagedWhereRead
      <4>4. Remembered(new)'
        <5>1. SUFFICES ASSUME run.phase = "applying" PROVE Remembered(new)'
          BY <3>1 DEF Remembered
        <5>2. parent[run.target] \in Node
          BY <5>1, BaseFacts DEF RInv, HInv, IInv, FlushStaysLegal, Node
        <5>3. \A s \in managed'[parent[run.target]] :
                s \in Snap /\ s \in managed[parent[run.target]] /\ new[under[s]] = own[under[s]]
          BY <1>2, <2>0, <4>1, <5>2
        <5> QED BY <3>1, <4>2, <5>1, <5>3 DEF Remembered
      <4> QED BY <4>3, <4>4
    <3>3. ASSUME NEW n0 \in closed \cup {Backend}, NEW c \in Change, Taken(r, n0, c)
          PROVE  ManagedWhereRead(new)' /\ Remembered(new)'
      <4>1. /\ \A n \in Node : r \notin managed[n] /\ n0 \in Node
            /\ \A n \in Node : managed'[n] = IF n = n0 THEN managed[n] \cup {r} ELSE managed[n]
            /\ under'[r] = n0 /\ \A s \in Snap \ {r} : under'[s] = under[s] /\ snap'[s] = snap[s]
                                                       /\ old'[s] = old[s]
            /\ late \subseteq late' /\ (snap'[r] = "open" /\ n0 \in BeingMerged => r \in late')
        <5>1. n0 \in Node /\ \A n \in Node : r \notin managed[n]
          BY <3>3, <1>2 DEF Taken, SnapshotsFit, RInv, HInv, IInv, TypeOK, Node
        <5>2. \A n \in Node : managed'[n] = IF n = n0 THEN managed[n] \cup {r} ELSE managed[n]
          BY <3>3, <1>2 DEF Taken
        <5>3. under'[r] = n0 /\ \A s \in Snap \ {r} : under'[s] = under[s] /\ snap'[s] = snap[s]
                                                       /\ old'[s] = old[s]
          BY <3>3 DEF Taken, RInv, HInv, IInv, TypeOK
        <5> QED BY <3>3, <5>1, <5>2, <5>3 DEF Taken
      <4>0. ASSUME NEW n \in Node, NEW s \in managed'[n], s # r
            PROVE  s \in Snap /\ s \in managed[n] /\ under'[s] = under[s]
                   /\ new[under[s]] = own[under[s]] /\ (n \in Live' => n \in Live)
        <5>0. managed'[n] = managed[n] \/ managed'[n] = managed[n] \cup {r}
          BY <4>1
        <5>1. s \in managed[n]
          BY <4>0, <5>0
        <5>2. s \in Snap /\ n \in closed \cup {Backend}
          BY <5>1, <1>2
        <5> QED BY <4>0, <4>1, <5>1, <5>2, <1>2, <2>0
      <4>2. ManagedWhereRead(new)'
        <5>1. ASSUME NEW n \in Live', NEW s \in managed'[n], s # r
              PROVE  n \in Live /\ s \in managed[n] /\ new[under'[s]] = own[under[s]]
          BY <1>2, <4>0, <5>1
        <5>2. ASSUME NEW n \in Live', r \in managed'[n]
              PROVE  new[under'[r]] = n
          <6>1. n = n0
            BY <1>2, <4>1, <5>2
          <6> QED BY <1>1, <1>2, <4>1, <6>1 DEF Landing
        <5> QED BY <1>3, <3>1, <5>1, <5>2 DEF ManagedWhereRead
      <4>3. Remembered(new)'
        <5>1. SUFFICES ASSUME run.phase = "applying" PROVE Remembered(new)'
          BY <3>1 DEF Remembered
        <5>2. parent[run.target] \in Node
          BY <5>1, BaseFacts DEF RInv, HInv, IInv, FlushStaysLegal, Node
        <5>3. ASSUME NEW s \in managed'[parent[run.target]], s # r
              PROVE  s \in Snap /\ s \in managed[parent[run.target]] /\ new[under'[s]] = own[under[s]]
          BY <4>0, <5>2, <5>3
        <5>4. r \in managed'[parent[run.target]] /\ snap'[r] = "open" => r \in late'
          BY <4>1, <5>1, <5>2 DEF BeingMerged
        <5> QED BY <3>1, <4>1, <5>1, <5>3, <5>4 DEF Remembered
      <4> QED BY <4>2, <4>3
    <3> QED BY <2>3, <3>2, <3>3, SnapshotKinds
  <2> QED BY <1>1, <1>5, <2>1, <2>2, <2>3, StepKinds
<1> QED BY <1>4, <1>5

LEMMA SnapshotInit == Init => SInv
<1> SUFFICES ASSUME Init PROVE SInv
  OBVIOUS
<1>1. Live = {Backend} /\ run.phase = "idle"
  BY DEF Init, Live, Layers, Idle
<1>2. SnapshotsFit
  BY ChangeType DEF Init, SnapshotsFit, Node
<1>3. Landing([x \in Node |-> Backend])
  BY <1>1 DEF Landing, Init, Node
<1>4. ManagedWhereRead([x \in Node |-> Backend]) /\ Remembered([x \in Node |-> Backend])
  BY <1>1 DEF ManagedWhereRead, Remembered, Init, Node
<1> QED BY <1>2, <1>3, <1>4, InitR DEF SInv

LEMMA SnapshotNext ==
    ASSUME ~Truncates, ~Failing, SInv, [Next]_vars
    PROVE  SInv'
<1>1. RInv /\ RInv' /\ SnapshotsFit
  BY NextR DEF SInv
<1>2. SnapshotsFit'
  BY <1>1, FitStep
<1> QED BY <1>1, <1>2, WhereReadStep DEF SInv

-----------------------------------------------------------------------------
LEMMA StableStep ==
    ASSUME Falsy = {}, SInv, SInv', [Next]_vars, NEW s \in Snap,
           snap[s] = "open", snap'[s] = "open", Maintained(s)'
    PROVE  SnapView(s)' = SnapView(s)
<1> USE StoreAssumption
<1>0. /\ RInv /\ RInv' /\ SnapshotsFit /\ under \in [Snap -> Node] /\ change \in [Tx -> Change]
      /\ managed \in [Node -> SUBSET Snap] /\ old \in [Snap -> Change]
  BY DEF SInv, RInv, HInv, IInv, TypeOK, SnapshotsFit
<1>1. PICK x \in closed \cup {Backend} : x = under[s]
  BY <1>0 DEF SnapshotsFit
<1>2. x \in Node /\ View(x) \in Contents /\ old[s] \in Change /\ SnapView(s) = On(old[s], View(x))
  BY <1>0, <1>1, ViewNow DEF ViewEquation, SnapView
<1>3. ASSUME old'[s] = old[s], under'[s] = x, View(x)' = View(x) PROVE SnapView(s)' = SnapView(s)
  BY <1>2, <1>3 DEF SnapView
<1>4. ~ApplyToBackend /\ ~ApplyToParent => View(x)' = View(x)
  BY <1>0, <1>2, CommittedKept, ViewKept, ViewCleaned
<1>5. CASE Cleanup
  <2>1. UNCHANGED snapVars /\ View(x)' = View(x)
    BY <1>0, <1>2, <1>5, CleanupFacts, ViewCleaned DEF RInv, HInv
  <2> QED BY <2>1, <1>1, <1>3 DEF snapVars
<1>6. CASE Begins
  <2>1. PICK t, p : t = run'.target /\ p = parent[t]
    OBVIOUS
  <2>2. /\ t \in Tx /\ UNCHANGED <<snap, under>> /\ run'.phase = "applying" /\ ~Merging
        /\ old' = [r \in Snap |-> IF r \in managed[p]
                                    THEN Preserve(old[r], change[t], SnapView(r)) ELSE old[r]]
    BY <1>0, <1>6, <2>1, BeginFacts
  <2>3. View(x)' = View(x)
    BY <1>4, <2>2 DEF Merging, ApplyToBackend, ApplyToParent
  <2>4. SnapView(s)' = On(old'[s], View(x))
    BY <1>1, <2>2, <2>3 DEF SnapView
  <2>5. CASE s \in managed[p]
    <3>1. ~change[t].truncated /\ change[t] \in Change
      BY <1>0, <2>2 DEF RInv, HInv
    <3> QED BY <1>2, <2>2, <2>4, <2>5, <3>1, PreserveBefore
  <2>6. CASE s \notin managed[p]
    BY <1>2, <2>2, <2>4, <2>6
  <2> QED BY <2>5, <2>6
<1>7. CASE \E r \in Snap : Snapshots(r)
  <2>1. PICK r \in Snap : Snapshots(r)
    BY <1>7
  <2>2. UNCHANGED run /\ (Dropped(r) \/ \E n, c : Taken(r, n, c))
    BY <1>0, <2>1, SnapshotKinds
  <2>3. s # r /\ old'[s] = old[s] /\ under'[s] = x
    BY <1>0, <1>1, <2>2 DEF Dropped, Taken, RInv, HInv, IInv, TypeOK
  <2>4. ~ApplyToBackend /\ ~ApplyToParent
    BY <2>2, <1>0 DEF ApplyToBackend, ApplyToParent, RInv, HInv, IInv, TypeOK, Running, Idle
  <2> QED BY <1>3, <1>4, <2>3, <2>4
<1>8. CASE Goes /\ ~ApplyToBackend /\ ~ApplyToParent
  BY <1>1, <1>3, <1>4, <1>8 DEF Goes, snapVars
<1>9. CASE Goes /\ (ApplyToBackend \/ ApplyToParent)
  <2>1. PICK own : Landing(own) /\ ManagedWhereRead(own) /\ Remembered(own)
    BY DEF SInv
  <2>2. PICK t, p : t = run.target /\ p = parent[t]
    OBVIOUS
  <2>3. /\ run.phase = "applying" /\ p # t /\ UNCHANGED <<snap, old, under, managed, late, stack>>
    BY <1>0, <1>9, <2>2, StackFacts
    DEF Goes, snapVars, ApplyToBackend, ApplyToParent, infoVars, RInv, HInv, IInv, FlushStaysLegal
  <2>4. /\ own[x] # p => View(x)' = View(x)
        /\ \A k \in Key : change[t].cell[k] = Untouched => View(x)'[k] = View(x)[k]
    BY <1>0, <1>2, <1>9, <2>1, <2>2, ViewApplied
  <2>5. CASE own[x] # p
    BY <1>1, <1>3, <2>3, <2>4, <2>5
  <2>6. CASE own[x] = p
    <3>1. PICK n \in Live : s \in managed[n] /\ s \notin late
      BY <2>3 DEF Maintained, Live, Layers
    <3>2. s \in managed[p]
      BY <1>1, <2>1, <2>2, <2>3, <2>6, <3>1 DEF ManagedWhereRead
    <3>3. \A k \in Key : change[t].cell[k] # Untouched => old[s].cell[k] # Untouched
      BY <1>1, <2>1, <2>2, <2>3, <2>6, <3>1, <3>2 DEF Remembered
    <3>4. SnapView(s)' = On(old[s], View(x)')
      BY <1>1, <2>3 DEF SnapView
    <3>5. \A k \in Key : Get(old[s], View(x)', k) = Get(old[s], View(x), k)
      BY <2>4, <3>3 DEF Get
    <3> QED BY <1>2, <3>4, <3>5 DEF On
  <2> QED BY <2>5, <2>6
<1> QED BY <1>0, <1>5, <1>6, <1>7, <1>8, <1>9, StepKinds

\* A snapshot that some state keeps up to date never changes what it reads: whatever is
\* committed, merged, written to the backend, or handed from a merged state to the one below
\* while the snapshot is open (Snapshot._apply, SnapshotManager.applyTx).
THEOREM SnapshotsStayStable ==
    ASSUME ~Truncates, ~Failing, Falsy = {}
    PROVE  Spec => MaintainedSnapshotsAreStable
<1>1. SInv /\ [Next]_vars => SInv'
  BY SnapshotNext
<1>2. SInv /\ SInv' /\ [Next]_vars =>
        [\A s \in Snap : snap[s] = "open" /\ snap'[s] = "open" /\ Maintained(s)'
                           => SnapView(s)' = SnapView(s)]_vars
  BY StableStep
<1> QED BY <1>1, <1>2, SnapshotInit, PTL DEF Spec, MaintainedSnapshotsAreStable
=============================================================================
