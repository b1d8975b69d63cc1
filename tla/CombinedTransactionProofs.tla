--------------------- MODULE CombinedTransactionProofs ---------------------
(***************************************************************************)
(* The inductive invariant of the combined transactions, for every set of  *)
(* stores, transactions and combined transactions and for a database that  *)
(* may fail.                                                               *)
(***************************************************************************)
EXTENDS CombinedTransaction, SequenceLemmas

\* The transactions that children lists of the stores may name.
Attached(t) == Usable(t) \/ t \in Layers(StoreOf[t])

\* The stack of store s is one chain of its own transactions.
StackIsChain(s) ==
    /\ Linked(stack[s], parent, s) /\ Distinct(stack[s])
    /\ \A t \in Layers(s) : StoreOf[t] = s

\* The stacks, the parents and the children tell the same story, across all stores.
Registered ==
    /\ \A s \in Store : StackIsChain(s)
    /\ \A t \in Tx : t \in Layers(StoreOf[t]) <=> t \in closed /\ parent[t] # Null
    /\ \A n \in Node : children[n] = {t \in Tx : Attached(t) /\ parent[t] = n}
    /\ \A t \in Tx : Attached(t) =>
         t \in known /\ parent[t] \in Layers(StoreOf[t]) \cup {StoreOf[t]}
    /\ \A t \in closed :
         call[t] \in {"none", "commit", "threw"} /\ state[t] # "none" /\ ~Usable(t)
           /\ (t \in known => parent[t] # Null)
    /\ \A t \in Tx : state[t] = "none" => call[t] = "none"

\* Whoever awaits a job is in a call, and a job merges committed states of its own store.
JobsAreLegal ==
    /\ \A t \in Tx : Awaiting(t) => call[t] # "none"
    /\ \A s \in Store : \A i \in DOMAIN queue[s] :
         queue[s][i].kind = "merge" => queue[s][i].tx \in closed /\ StoreOf[queue[s][i].tx] = s

\* A merge into a parent or a backend is of a layer of the synchronizer's own store
\* that no combined transaction will write.
MergeIsLegal(s) ==
    run[s].phase \in {"applying", "applied", "failed"} =>
        /\ run[s].target \in Layers(s) /\ Dep(run[s].target) = Null
        /\ run[s].onto \in Node

MergesAreLegal == \A s \in Store : MergeIsLegal(s)

\* A flush is of a combined transaction all of whose members have reported, and its
\* batch holds their writes and those of plain transactions merged into them.
FlushIsLegal(s) ==
    /\ run[s].phase \in {"flushing", "writing", "written"} =>
         /\ run[s].target \in Tx /\ Dep(run[s].target) # Null
         /\ Members(Dep(run[s].target)) \subseteq flushable[Dep(run[s].target)]
    /\ run[s].phase = "writing" =>
         /\ Members(Dep(run[s].target)) \subseteq run[s].batch
         /\ run[s].batch \subseteq closed
         /\ \A m \in run[s].batch : Dep(m) \in {Null, Dep(run[s].target)}

FlushesAreLegal == \A s \in Store : FlushIsLegal(s)

\* The members of a combined transaction are open until it commits or aborts them.
MembersAreReady ==
    /\ \A c \in Comb : ctx[c] # "none" => c \in joined
    /\ \A c \in joined : ctx[c] \in {"none", "checking"} => \A t \in Members(c) : Usable(t)
    /\ \A t \in turn : Usable(t) /\ MemberOf[t] \in joined
                         /\ ctx[MemberOf[t]] \in {"committing", "rejecting", "aborting"}
    /\ \A c \in Comb : \A t \in flushable[c] : MemberOf[t] = c /\ c \in joined /\ t \in closed

\* A layer holds its own writes and those of plain transactions, all committed.
HoldsAreLegal ==
    /\ \A t \in Tx : t \in holds[t] /\ \A m \in holds[t] : m # t => Dep(m) = Null /\ m \in closed
    /\ persisted \subseteq closed

IInv == /\ TypeOK /\ Registered /\ JobsAreLegal /\ MergesAreLegal /\ FlushesAreLegal
        /\ MembersAreReady /\ HoldsAreLegal /\ ReportsStayTrue /\ AllOrNothing

-----------------------------------------------------------------------------
(***************************************************************************)
(* The stacks                                                              *)
(***************************************************************************)

\* The layers of a store and its current state, without indices.
LEMMA StackFacts ==
    ASSUME TypeOK, Registered, NEW s \in Store
    PROVE  /\ Layers(s) \subseteq closed /\ Layers(s) \subseteq Tx
           /\ \A l \in Layers(s) : StoreOf[l] = s
           /\ Top(s) \in Layers(s) \cup {s} /\ Top(s) \in Node
           /\ stack[s] # <<>> => Top(s) \in Layers(s) /\ stack[s][1] \in Layers(s)
           /\ \A l \in Layers(s) :
                /\ parent[l] # l /\ parent[l] # Top(s) /\ parent[l] \in Layers(s) \cup {s}
                /\ stack[s] # <<>>
           /\ \A l, m \in Layers(s) : parent[l] = parent[m] => l = m
           /\ \A n \in Layers(s) \cup {s} : n # Top(s) => \E l \in Layers(s) : parent[l] = n
<1>1. stack[s] \in Seq(Tx) /\ s \notin Tx
  BY CombinedAssumption DEF TypeOK
<1>2. Linked(stack[s], parent, s) /\ Distinct(stack[s]) /\ \A l \in Layers(s) : StoreOf[l] = s
  BY DEF Registered, StackIsChain
<1>3. Layers(s) = Elements(stack[s]) /\ Top(s) = TopOf(stack[s], s)
  BY DEF Layers, Elements, Top, TopOf
<1>4. /\ Layers(s) \subseteq Tx
      /\ Top(s) \in Layers(s) \cup {s}
      /\ stack[s] # <<>> => Top(s) \in Layers(s) /\ stack[s][1] \in Layers(s)
      /\ \A l \in Layers(s) :
           /\ parent[l] # l /\ parent[l] # Top(s) /\ parent[l] \in Layers(s) \cup {s}
           /\ stack[s] # <<>>
      /\ \A l, m \in Layers(s) : parent[l] = parent[m] => l = m
      /\ \A n \in Layers(s) \cup {s} : n # Top(s) => \E l \in Layers(s) : parent[l] = n
  BY <1>1, <1>2, <1>3, LinkedFacts
<1>5. Layers(s) \subseteq closed
  BY <1>2, <1>4 DEF Registered
<1>6. Top(s) \in Node
  BY <1>4 DEF Node
<1> QED BY <1>2, <1>4, <1>5, <1>6

\* What an attached transaction stands on belongs to its own store.
LEMMA AttachedFacts ==
    ASSUME TypeOK, Registered, NEW t \in Tx, Attached(t)
    PROVE  /\ StoreOf[t] \in Store /\ t \in known /\ t \in children[parent[t]]
           /\ parent[t] \in Layers(StoreOf[t]) \cup {StoreOf[t]}
           /\ parent[t] \in Node /\ parent[t] # Null /\ parent[t] # t
           /\ \A s \in Store : parent[t] \in Layers(s) \cup {s} => s = StoreOf[t]
<1>1. StoreOf[t] \in Store /\ t \in known /\ parent[t] \in Layers(StoreOf[t]) \cup {StoreOf[t]}
  BY CombinedAssumption DEF Registered
<1>2. Layers(StoreOf[t]) \subseteq Tx /\ \A l \in Layers(StoreOf[t]) : StoreOf[l] = StoreOf[t]
  BY <1>1, StackFacts
<1>3. parent[t] \in Node /\ parent[t] # Null
  BY <1>1, <1>2, CombinedAssumption DEF Node
<1>4. t \in children[parent[t]]
  BY <1>3 DEF Registered
<1>5. ASSUME NEW s \in Store, parent[t] \in Layers(s) \cup {s}
      PROVE  s = StoreOf[t]
  <2>1. Layers(s) \subseteq Tx /\ \A l \in Layers(s) : StoreOf[l] = s
    BY StackFacts
  <2> QED BY <1>1, <1>2, <1>5, <2>1, CombinedAssumption
<1>6. parent[t] # t
  <2>1. CASE t \in Layers(StoreOf[t])
    BY <1>1, <2>1, StackFacts
  <2>2. CASE t \notin Layers(StoreOf[t])
    BY <1>1, <2>2, CombinedAssumption
  <2> QED BY <2>1, <2>2
<1> QED BY <1>1, <1>3, <1>4, <1>5, <1>6

\* The committed children of a node are the layers that stand on it.
LEMMA ChildFacts ==
    ASSUME TypeOK, Registered
    PROVE  /\ \A n \in Node : \A x : x \in children[n] <=> x \in Tx /\ Attached(x) /\ parent[x] = n
           /\ \A s \in Store : children[Top(s)] \cap closed = {}
           /\ \A t \in Tx : Usable(t) /\ Committable(t) => parent[t] = Top(StoreOf[t])
           /\ \A t \in Tx : t \in closed /\ Attached(t) => t \in Layers(StoreOf[t])
<1>1. \A n \in Node : \A x : x \in children[n] <=> x \in Tx /\ Attached(x) /\ parent[x] = n
  BY DEF Registered
<1>2. \A t \in Tx : t \in closed /\ Attached(t) => t \in Layers(StoreOf[t])
  BY DEF Registered, Attached
<1>3. ASSUME NEW s \in Store, NEW t \in children[Top(s)] \cap closed
      PROVE  FALSE
  <2>1. Top(s) \in Layers(s) \cup {s} /\ Top(s) \in Node
    BY StackFacts
  <2>2. t \in Tx /\ Attached(t) /\ parent[t] = Top(s)
    BY <1>1, <1>3, <2>1
  <2>3. s = StoreOf[t]
    BY <2>1, <2>2, AttachedFacts
  <2>4. t \in Layers(s)
    BY <1>2, <1>3, <2>2, <2>3
  <2> QED BY <2>2, <2>4, StackFacts
<1>4. ASSUME NEW t \in Tx, Usable(t), Committable(t), parent[t] # Top(StoreOf[t])
      PROVE  FALSE
  <2>1. Attached(t)
    BY <1>4 DEF Attached
  <2>2. StoreOf[t] \in Store /\ parent[t] \in Layers(StoreOf[t]) \cup {StoreOf[t]} /\ parent[t] \in Node
    BY <2>1, AttachedFacts
  <2>3. PICK l \in Layers(StoreOf[t]) : parent[l] = parent[t]
    BY <1>4, <2>2, StackFacts
  <2>4. l \in Tx /\ l \in closed /\ Attached(l)
    BY <2>2, <2>3, StackFacts DEF Attached
  <2>5. l \in children[parent[t]]
    BY <1>1, <2>2, <2>3, <2>4
  <2> QED BY <1>4, <2>4, <2>5 DEF Committable
<1> QED BY <1>1, <1>2, <1>3, <1>4

-----------------------------------------------------------------------------
(***************************************************************************)
(* What a step that leaves a part of the state alone keeps                 *)
(***************************************************************************)

\* A step that leaves the nodes alone and nobody's readiness.
LEMMA NodesUnchanged ==
    ASSUME TypeOK, Registered, UNCHANGED infoVars,
           \A t \in Tx : Usable(t)' <=> Usable(t),
           \A t \in closed : call'[t] \in {"none", "commit", "threw"} /\ state'[t] # "none",
           \A t \in Tx : state'[t] = "none" => call'[t] = "none"
    PROVE  Registered'
<1>1. /\ UNCHANGED <<parent, children, closed, known, stack>>
      /\ \A s : Layers(s)' = Layers(s)
  BY DEF infoVars, Layers
<1>2. \A t \in Tx : Attached(t)' <=> Attached(t)
  BY <1>1 DEF Attached
<1>3. \A s \in Store : StackIsChain(s)'
  BY <1>1 DEF Registered, StackIsChain, Linked
<1>4. closed \subseteq Tx
  BY DEF TypeOK
<1> QED BY <1>1, <1>2, <1>3, <1>4 DEF Registered, Node

\* Who awaits a job is still in a call, if every job was there before or is awaited
\* by somebody in a call.
LEMMA JobsStep ==
    ASSUME JobsAreLegal, closed \subseteq closed',
           \A s \in Store : \A i \in DOMAIN queue'[s] :
             \/ \E j \in DOMAIN queue[s] : queue'[s][i] = queue[s][j]
             \/ /\ queue'[s][i].tx \in Tx => call'[queue'[s][i].tx] # "none"
                /\ queue'[s][i].kind = "merge" =>
                     queue'[s][i].tx \in closed' /\ StoreOf[queue'[s][i].tx] = s,
           \A s \in Store : run'[s].tx \in Tx => Awaiting(run'[s].tx),
           \A t \in Tx : Awaiting(t) => call'[t] # "none"
    PROVE  JobsAreLegal'
<1>1. ASSUME NEW t \in Tx, Awaiting(t)'
      PROVE  call'[t] # "none"
  <2>1. PICK s \in Store : run'[s].tx = t \/ \E i \in DOMAIN queue'[s] : queue'[s][i].tx = t
    BY <1>1 DEF Awaiting
  <2>2. CASE run'[s].tx = t
    BY <2>2
  <2>3. ASSUME NEW i \in DOMAIN queue'[s], queue'[s][i].tx = t
        PROVE  call'[t] # "none"
    <3>1. (\E j \in DOMAIN queue[s] : queue[s][j].tx = t) => Awaiting(t)
      BY DEF Awaiting
    <3> QED BY <2>3, <3>1
  <2> QED BY <2>1, <2>2, <2>3
<1>2. ASSUME NEW s \in Store, NEW i \in DOMAIN queue'[s], queue'[s][i].kind = "merge"
      PROVE  queue'[s][i].tx \in closed' /\ StoreOf[queue'[s][i].tx] = s
  BY <1>2 DEF JobsAreLegal
<1> QED BY <1>1, <1>2 DEF JobsAreLegal

\* A merge that a step leaves under way.
LEMMA MergesStep ==
    ASSUME TypeOK, Registered, MergesAreLegal,
           \A t \in closed : Dep(t)' = Dep(t),
           \A s \in Store :
             \/ MergeIsLegal(s)'
             \/ /\ run'[s] = run[s]
                /\ \A t \in Layers(s) : Dep(t) = Null /\ run[s].target = t => t \in Layers(s)'
    PROVE  MergesAreLegal'
<1> SUFFICES ASSUME NEW s \in Store, run'[s] = run[s],
                    \A t \in Layers(s) : Dep(t) = Null /\ run[s].target = t => t \in Layers(s)'
             PROVE  MergeIsLegal(s)'
  BY DEF MergesAreLegal
<1>1. MergeIsLegal(s) /\ Layers(s) \subseteq closed
  BY StackFacts DEF MergesAreLegal
<1> QED BY <1>1 DEF MergeIsLegal, Node

\* The target of a flush has been committed.
LEMMA TargetIsClosed ==
    ASSUME MembersAreReady, NEW s \in Store, FlushIsLegal(s),
           run[s].phase \in {"flushing", "writing", "written"}
    PROVE  /\ run[s].target \in Tx /\ run[s].target \in closed
           /\ Dep(run[s].target) \in joined /\ Dep(run[s].target) = MemberOf[run[s].target]
           /\ Dep(run[s].target) \in Comb
<1>1. /\ run[s].target \in Tx /\ Dep(run[s].target) # Null
      /\ Members(Dep(run[s].target)) \subseteq flushable[Dep(run[s].target)]
  BY DEF FlushIsLegal
<1>2. Dep(run[s].target) = MemberOf[run[s].target] /\ MemberOf[run[s].target] \in joined
      /\ Dep(run[s].target) \in Comb
  BY <1>1, CombinedAssumption DEF Dep
<1>3. run[s].target \in Members(Dep(run[s].target))
  BY <1>1, <1>2 DEF Members
<1> QED BY <1>1, <1>2, <1>3 DEF MembersAreReady

\* A flush that a step leaves under way.
LEMMA FlushesStep ==
    ASSUME TypeOK, MembersAreReady, FlushesAreLegal, closed \subseteq closed',
           \A t \in closed : Dep(t)' = Dep(t),
           \A c \in Comb : flushable[c] \subseteq flushable'[c],
           \A s \in Store : FlushIsLegal(s)' \/ run'[s] = run[s]
    PROVE  FlushesAreLegal'
<1> SUFFICES ASSUME NEW s \in Store, run'[s] = run[s]
             PROVE  FlushIsLegal(s)'
  BY DEF FlushesAreLegal
<1>1. FlushIsLegal(s)
  BY DEF FlushesAreLegal
<1>2. CASE run[s].phase \in {"flushing", "writing", "written"}
  <2>1. /\ run[s].target \in Tx /\ run[s].target \in closed /\ Dep(run[s].target) \in Comb
        /\ Dep(run[s].target)' = Dep(run[s].target)
    BY <1>1, <1>2, TargetIsClosed
  <2> DEFINE c == Dep(run[s].target)
  <2>2. c' = c /\ run'[s].target = run[s].target /\ run'[s].batch = run[s].batch
        /\ run'[s].phase = run[s].phase
    BY <2>1
  <2>3. /\ Members(c) \subseteq flushable'[c] /\ c # Null
        /\ run[s].phase = "writing" =>
             /\ Members(c) \subseteq run[s].batch /\ run[s].batch \subseteq closed'
             /\ \A m \in run[s].batch : Dep(m)' \in {Null, c}
    BY <1>1, <1>2, <2>1 DEF FlushIsLegal
  <2> QED BY <2>1, <2>2, <2>3 DEF FlushIsLegal, Members
<1>3. CASE run[s].phase \notin {"flushing", "writing", "written"}
  BY <1>3 DEF FlushIsLegal
<1> QED BY <1>2, <1>3

\* What the layers hold, if no write is copied.
LEMMA HoldsUnchanged ==
    ASSUME HoldsAreLegal, UNCHANGED dataVars, closed \subseteq closed',
           \A t \in closed : Dep(t)' = Dep(t)
    PROVE  HoldsAreLegal'
<1>1. holds' = holds /\ persisted' = persisted
  BY DEF dataVars
<1> QED BY <1>1 DEF HoldsAreLegal

\* A transaction that has reported stands on the backend, and nothing else that is
\* open does.
LEMMA ReportedFacts ==
    ASSUME TypeOK, Registered, MembersAreReady, ReportsStayTrue,
           NEW c \in joined, NEW t \in flushable[c] \cap known
    PROVE  /\ t \in Tx /\ t \in closed /\ Dep(t) = c /\ StoreOf[t] \in Store
           /\ t \in Layers(StoreOf[t]) /\ parent[t] = StoreOf[t]
           /\ children[StoreOf[t]] \subseteq closed /\ stack[StoreOf[t]] # <<>>
           /\ Top(StoreOf[t]) # StoreOf[t]
<1>1. c \in Comb /\ c # Null
  BY CombinedAssumption DEF TypeOK
<1>2. t \in Tx /\ t \in closed /\ MemberOf[t] = c /\ StoreOf[t] \in Store
  BY <1>1, CombinedAssumption DEF TypeOK, MembersAreReady
<1>3. Dep(t) = c
  BY <1>2 DEF Dep
<1>4. t \in Layers(StoreOf[t]) /\ Flushable(t)
  BY <1>2 DEF ReportsStayTrue
<1>5. parent[t] \in Store /\ parent[t] \in Layers(StoreOf[t]) \cup {StoreOf[t]}
      /\ Layers(StoreOf[t]) \subseteq Tx /\ stack[StoreOf[t]] # <<>>
      /\ Top(StoreOf[t]) \in Layers(StoreOf[t])
  BY <1>1, <1>2, <1>3, <1>4, StackFacts DEF Flushable
<1>6. parent[t] = StoreOf[t] /\ Top(StoreOf[t]) # StoreOf[t]
  BY <1>2, <1>5, CombinedAssumption
<1> QED BY <1>2, <1>3, <1>4, <1>5, <1>6 DEF Flushable, NoOpenChildren

\* The reports stay true if no layer on a backend is disturbed but those that are flushed.
LEMMA ReportsStep ==
    ASSUME TypeOK, Registered, MembersAreReady, ReportsStayTrue,
           \A c \in joined' : \A t \in flushable'[c] \cap known' :
             c \in joined /\ t \in flushable[c] \cap known,
           \A t \in known' \cap closed :
             LET s == StoreOf[t]
             IN  t \in Layers(s) /\ parent[t] = s /\ children[s] \subseteq closed
                   /\ stack[s] # <<>> /\ Top(s) # s =>
                     t \in Layers(s)' /\ parent'[t] = s /\ children'[s] \subseteq closed'
    PROVE  ReportsStayTrue'
<1> SUFFICES ASSUME NEW c \in joined', NEW t \in flushable'[c] \cap known'
             PROVE  t \in Layers(StoreOf[t])' /\ Flushable(t)'
  BY DEF ReportsStayTrue
<1>1. c \in joined /\ t \in flushable[c] \cap known
  OBVIOUS
<1>2. /\ t \in Tx /\ t \in closed /\ Dep(t) = c /\ StoreOf[t] \in Store
      /\ t \in Layers(StoreOf[t]) /\ parent[t] = StoreOf[t]
      /\ children[StoreOf[t]] \subseteq closed /\ stack[StoreOf[t]] # <<>>
      /\ Top(StoreOf[t]) # StoreOf[t]
  BY <1>1, ReportedFacts
<1>3. t \in Layers(StoreOf[t])' /\ parent'[t] = StoreOf[t] /\ children'[StoreOf[t]] \subseteq closed'
  BY <1>2
<1>4. StoreOf[t] # Null
  BY <1>2, CombinedAssumption
<1> QED BY <1>2, <1>3, <1>4 DEF Flushable, NoOpenChildren

-----------------------------------------------------------------------------
(***************************************************************************)
(* The calls of the clients                                                *)
(***************************************************************************)

\* The queues after a job has been pushed.
LEMMA PushFacts ==
    ASSUME TypeOK, NEW s \in Store, NEW kind \in {"merge", "all"}, NEW t \in Tx \cup {Null},
           Push(s, kind, t)
    PROVE  /\ queue' \in [Store -> Seq(Job)]
           /\ \A x \in Store : \A i \in DOMAIN queue'[x] :
                \/ \E j \in DOMAIN queue[x] : queue'[x][i] = queue[x][j]
                \/ x = s /\ queue'[x][i].kind = kind /\ queue'[x][i].tx = t
<1> DEFINE job == [kind |-> kind, tx |-> t]
<1>1. queue[s] \in Seq(Job) /\ job \in Job /\ job.kind = kind /\ job.tx = t
  BY DEF TypeOK, Job
<1>2. queue' = [queue EXCEPT ![s] = Append(@, job)]
  BY DEF Push
<1> HIDE DEF job
<1>3. /\ Append(queue[s], job) \in Seq(Job)
      /\ Len(Append(queue[s], job)) = Len(queue[s]) + 1
      /\ Append(queue[s], job)[Len(queue[s]) + 1] = job
      /\ \A i \in 1..Len(queue[s]) : Append(queue[s], job)[i] = queue[s][i]
  BY <1>1, AppendProperties
<1>4. \A i \in DOMAIN Append(queue[s], job) :
        \/ \E j \in DOMAIN queue[s] : Append(queue[s], job)[i] = queue[s][j]
        \/ Append(queue[s], job)[i] = job
  <2>1. /\ DOMAIN queue[s] = 1..Len(queue[s]) /\ Len(queue[s]) \in Nat
        /\ DOMAIN Append(queue[s], job) = 1..(Len(queue[s]) + 1)
    BY <1>1, <1>3
  <2>2. \A i \in 1..(Len(queue[s]) + 1) : i = Len(queue[s]) + 1 \/ i \in 1..Len(queue[s])
    BY <2>1
  <2> QED BY <2>1, <2>2, <1>3
<1>5. /\ queue'[s] = Append(queue[s], job)
      /\ \A x \in Store : x # s => queue'[x] = queue[x]
  BY <1>2 DEF TypeOK
<1>6. queue' \in [Store -> Seq(Job)]
  BY <1>2, <1>3 DEF TypeOK
<1> QED BY <1>1, <1>4, <1>5, <1>6

\* The parts of the invariant that a step which runs no job and copies no write keeps.
LEMMA CallStep ==
    ASSUME IInv, UNCHANGED <<joined, flushable, run, dataVars>>, closed \subseteq closed',
           \A s \in Store : Layers(s) \subseteq Layers(s)'
    PROVE  MergesAreLegal' /\ FlushesAreLegal' /\ HoldsAreLegal' /\ AllOrNothing'
<1>1. \A t \in closed : Dep(t)' = Dep(t)
  BY DEF Dep
<1>2. MergesAreLegal'
  BY <1>1, MergesStep DEF IInv
<1>3. FlushesAreLegal'
  BY <1>1, FlushesStep DEF IInv
<1>4. HoldsAreLegal'
  BY <1>1, HoldsUnchanged DEF IInv
<1>5. AllOrNothing'
  BY DEF IInv, AllOrNothing, Members, dataVars
<1> QED BY <1>2, <1>3, <1>4, <1>5

\* A step that leaves the jobs alone and ends no call that awaits one.
LEMMA JobsUnchanged ==
    ASSUME JobsAreLegal, UNCHANGED <<queue, run>>, closed \subseteq closed',
           \A t \in Tx : Awaiting(t) => call'[t] # "none"
    PROVE  JobsAreLegal'
<1>1. \A s \in Store : run'[s].tx \in Tx => Awaiting(run'[s].tx)
  BY DEF Awaiting
<1> QED BY <1>1, JobsStep

LEMMA InitStep == Init => IInv
<1> SUFFICES ASSUME Init PROVE IInv
  OBVIOUS
<1> USE CombinedAssumption
<1>1. \A s \in Store : /\ stack[s] = <<>> /\ queue[s] = <<>> /\ run[s] = Idle
                       /\ DOMAIN stack[s] = {} /\ DOMAIN queue[s] = {} /\ Layers(s) = {}
  BY DEF Init, Layers
<1>2. Idle \in Running /\ Idle.phase = "idle" /\ Idle.tx = Null
  BY DEF Idle, Running, Phase, Node
<1>3. TypeOK
  <2>1. queue \in [Store -> Seq(Job)] /\ stack \in [Store -> Seq(Tx)]
        /\ run \in [Store -> Running]
    BY <1>2 DEF Init
  <2> QED BY <2>1 DEF Init, TypeOK, Node
<1>4. \A t \in Tx : ~Usable(t) /\ ~Attached(t)
  BY <1>1 DEF Init, Usable, Attached
<1>5. Registered
  <2>1. \A s \in Store : StackIsChain(s)
    BY <1>1 DEF StackIsChain, Linked, Distinct
  <2> QED BY <1>1, <1>4, <2>1 DEF Init, Registered
<1>6. JobsAreLegal
  BY <1>1, <1>2 DEF JobsAreLegal, Awaiting
<1>7. MergesAreLegal /\ FlushesAreLegal
  BY <1>1, <1>2 DEF MergesAreLegal, MergeIsLegal, FlushesAreLegal, FlushIsLegal
<1>8. MembersAreReady /\ HoldsAreLegal /\ ReportsStayTrue /\ AllOrNothing
  BY DEF Init, MembersAreReady, HoldsAreLegal, ReportsStayTrue, AllOrNothing
<1> QED BY <1>3, <1>5, <1>6, <1>7, <1>8 DEF IInv

LEMMA OpenStep ==
    ASSUME IInv, NEW t \in Tx, Open(t)
    PROVE  IInv'
<1> USE CombinedAssumption
<1> DEFINE s0 == StoreOf[t]
           top == Top(s0)
<1>1. /\ UNCHANGED <<call, joined, ctx, flushable, closed, stack, queue, run, turn, dataVars>>
      /\ state[t] = "none" /\ state' = [state EXCEPT ![t] = "open"]
      /\ known' = known \cup {t} /\ parent' = [parent EXCEPT ![t] = top]
      /\ children' = [children EXCEPT ![top] = @ \cup {t}]
      /\ \A s : Layers(s)' = Layers(s)
  BY DEF Open, Layers
<1>2. call[t] = "none" /\ t \notin closed /\ ~Usable(t)
  BY <1>1 DEF IInv, Registered, Usable
<1>3. s0 \in Store /\ top \in Node /\ top \in Layers(s0) \cup {s0} /\ t \notin Layers(s0)
  BY <1>2, StackFacts DEF IInv
<1> HIDE DEF top
<1>4. \A x \in Tx : Usable(x)' <=> Usable(x) \/ x = t
  BY <1>1, <1>2 DEF Usable, IInv, TypeOK
<1>5. \A x \in Tx : Attached(x)' <=> Attached(x) \/ x = t
  BY <1>1, <1>4 DEF Attached
<1>6. ~Attached(t)
  BY <1>2, <1>3 DEF Attached
<1>7. /\ parent'[t] = top /\ \A x \in Tx : x # t => parent'[x] = parent[x]
      /\ \A n \in Node : children'[n] = IF n = top THEN children[n] \cup {t} ELSE children[n]
  BY <1>1, <1>3 DEF IInv, TypeOK
<1>8. Registered'
  <2>1. ASSUME NEW s \in Store
        PROVE  StackIsChain(s)'
    <3>1. \A i \in DOMAIN stack[s] : stack[s][i] # t /\ stack[s][i] \in Tx
      <4>1. Layers(s) \subseteq closed /\ Layers(s) \subseteq Tx
        BY StackFacts DEF IInv
      <4> QED BY <4>1, <1>2 DEF Layers
    <3> QED BY <3>1, <1>1, <1>7 DEF IInv, Registered, StackIsChain, Linked
  <2>2. \A x \in Tx : x \in Layers(StoreOf[x])' <=> x \in closed' /\ parent'[x] # Null
    BY <1>1, <1>2, <1>3, <1>7 DEF IInv, Registered
  <2>3. \A n \in Node : children'[n] = {x \in Tx : Attached(x)' /\ parent'[x] = n}
    <3> TAKE n \in Node
    <3>1. \A x : x \in children[n] <=> x \in Tx /\ Attached(x) /\ parent[x] = n
      BY ChildFacts DEF IInv
    <3>2. \A x : x \in children'[n] <=> x \in children[n] \/ (x = t /\ n = top)
      <4>1. CASE n = top
        <5>1. children'[n] = children[n] \cup {t}
          BY <1>7, <4>1
        <5> QED BY <4>1, <5>1
      <4>2. CASE n # top
        <5>1. children'[n] = children[n]
          BY <1>7, <4>2
        <5> QED BY <4>2, <5>1
      <4> QED BY <4>1, <4>2
    <3>3. \A x \in Tx : x # t => (x \in children'[n] <=> Attached(x)' /\ parent'[x] = n)
      BY <3>1, <3>2, <1>5, <1>7
    <3>4. t \in children'[n] <=> Attached(t)' /\ parent'[t] = n
      BY <3>1, <3>2, <1>5, <1>6, <1>7
    <3>5. \A x \in children'[n] : x \in Tx
      BY <3>1, <3>2
    <3> QED BY <3>3, <3>4, <3>5
  <2>4. \A x \in Tx : Attached(x)' =>
          x \in known' /\ parent'[x] \in Layers(StoreOf[x])' \cup {StoreOf[x]}
    BY <1>1, <1>3, <1>5, <1>7 DEF IInv, Registered
  <2>5. \A x \in closed' :
          call'[x] \in {"none", "commit", "threw"} /\ state'[x] # "none" /\ ~Usable(x)'
            /\ (x \in known' => parent'[x] # Null)
    <3>1. closed \subseteq Tx
      BY DEF IInv, TypeOK
    <3> QED BY <3>1, <1>1, <1>2, <1>4, <1>7 DEF IInv, Registered, TypeOK
  <2>6. \A x \in Tx : state'[x] = "none" => call'[x] = "none"
    BY <1>1 DEF IInv, Registered, TypeOK
  <2> QED BY <2>1, <2>2, <2>3, <2>4, <2>5, <2>6 DEF Registered, Node
<1>9. JobsAreLegal'
  BY <1>1, JobsUnchanged DEF IInv, JobsAreLegal
<1>10. MembersAreReady'
  BY <1>1, <1>2, <1>4 DEF IInv, MembersAreReady, TypeOK, Members
<1>11. ReportsStayTrue'
  <2>1. \A c \in joined' : \A x \in flushable'[c] \cap known' :
          c \in joined /\ x \in flushable[c] \cap known
    BY <1>1, <1>2 DEF IInv, MembersAreReady, TypeOK
  <2>2. ASSUME NEW x \in known' \cap closed, parent[x] = StoreOf[x], x \in Layers(StoreOf[x]),
               Top(StoreOf[x]) # StoreOf[x], children[StoreOf[x]] \subseteq closed
        PROVE  x \in Layers(StoreOf[x])' /\ parent'[x] = StoreOf[x]
               /\ children'[StoreOf[x]] \subseteq closed'
    <3>1. x \in Tx /\ x # t /\ StoreOf[x] \in Store /\ Layers(s0) \subseteq Tx
      BY <1>2, <1>3, <2>2, StackFacts DEF IInv, TypeOK
    <3>2. StoreOf[x] # top
      <4>1. CASE StoreOf[x] = s0
        BY <4>1, <2>2 DEF top
      <4>2. CASE StoreOf[x] # s0
        BY <4>2, <1>3, <3>1
      <4> QED BY <4>1, <4>2
    <3> QED BY <3>1, <3>2, <1>1, <1>7, <2>2 DEF Node
  <2> QED BY <2>1, <2>2, ReportsStep DEF IInv
<1>12. MergesAreLegal' /\ FlushesAreLegal' /\ HoldsAreLegal' /\ AllOrNothing'
  BY <1>1, CallStep
<1>13. TypeOK'
  BY <1>1, <1>3 DEF IInv, TypeOK, dataVars
<1> QED BY <1>8, <1>9, <1>10, <1>11, <1>12, <1>13 DEF IInv

LEMMA CombineStep ==
    ASSUME IInv, NEW c \in Comb, Combine(c)
    PROVE  IInv'
<1>1. /\ UNCHANGED <<state, call, ctx, flushable, infoVars, queue, run, turn, dataVars>>
      /\ c \notin joined /\ joined' = joined \cup {c} /\ \A t \in Members(c) : Usable(t)
      /\ \A s : Layers(s)' = Layers(s)
      /\ \A t : Usable(t)' <=> Usable(t)
      /\ \A n : Members(n)' = Members(n)
  BY DEF Combine, Layers, Usable, infoVars, Members
<1>2. \A t \in closed : t \in Tx /\ ~Usable(t) /\ MemberOf[t] # c
  BY <1>1 DEF IInv, Registered, TypeOK, Members
<1>3. \A t \in closed : Dep(t)' = Dep(t)
  BY <1>1, <1>2 DEF Dep
<1>4. Registered'
  BY <1>1, NodesUnchanged DEF IInv, Registered
<1>5. JobsAreLegal'
  BY <1>1, JobsUnchanged DEF IInv, JobsAreLegal, infoVars
<1>6. MergesAreLegal'
  BY <1>1, <1>3, MergesStep DEF IInv
<1>7. FlushesAreLegal'
  BY <1>1, <1>3, FlushesStep DEF IInv, infoVars
<1>8. HoldsAreLegal'
  BY <1>1, <1>3, HoldsUnchanged DEF IInv, infoVars
<1>9. MembersAreReady'
  BY <1>1 DEF IInv, MembersAreReady, infoVars, TypeOK
<1>10. ReportsStayTrue'
  BY <1>1, <1>9, ReportsStep DEF IInv, MembersAreReady, infoVars, TypeOK
<1>11. AllOrNothing'
  BY <1>1, <1>2 DEF IInv, AllOrNothing, HoldsAreLegal, dataVars, Members
<1>12. TypeOK'
  BY <1>1 DEF IInv, TypeOK, infoVars, dataVars
<1> QED BY <1>4, <1>5, <1>6, <1>7, <1>8, <1>9, <1>10, <1>11, <1>12 DEF IInv

\* A usable transaction is committed: the layer is put on the stack of its store.
LEMMA PutOnStackStep ==
    ASSUME IInv, NEW t \in Tx, Usable(t), PutOnStack(t),
           UNCHANGED <<state, joined, flushable, run, dataVars>>
    PROVE  /\ Registered' /\ JobsAreLegal' /\ MergesAreLegal' /\ FlushesAreLegal'
           /\ HoldsAreLegal' /\ AllOrNothing' /\ ReportsStayTrue'
           /\ stack' \in [Store -> Seq(Tx)] /\ queue' \in [Store -> Seq(Job)]
           /\ closed' = closed \cup {t} /\ UNCHANGED <<parent, children, known>>
           /\ call' = [call EXCEPT ![t] = "commit"]
<1> USE CombinedAssumption
<1> DEFINE s0 == StoreOf[t]
<1>1. /\ Committable(t) /\ stack' = [stack EXCEPT ![s0] = Append(@, t)]
      /\ closed' = closed \cup {t} /\ call' = [call EXCEPT ![t] = "commit"]
      /\ UNCHANGED <<parent, children, known>>
      /\ (Push(s0, "merge", t) /\ Flushable(t)') \/ queue' = queue
  BY DEF PutOnStack
<1>2. /\ s0 \in Store /\ t \in known /\ Attached(t) /\ parent[t] \in Node /\ parent[t] # Null
      /\ parent[t] \in Layers(s0) \cup {s0} /\ parent[t] = Top(s0)
      /\ t \notin closed /\ state[t] = "open" /\ call[t] = "none"
  <2>1. Attached(t)
    BY DEF Attached
  <2> QED BY <1>1, <2>1, AttachedFacts, ChildFacts DEF IInv, Registered, Usable
<1>3. t \notin Layers(s0) /\ Layers(s0) \subseteq closed
  BY <1>2, StackFacts DEF IInv
<1>4. /\ stack'[s0] = Append(stack[s0], t) /\ stack' \in [Store -> Seq(Tx)]
      /\ \A s \in Store : s # s0 => stack'[s] = stack[s]
      /\ Linked(stack'[s0], parent, s0) /\ Distinct(stack'[s0])
      /\ Layers(s0)' = Layers(s0) \cup {t}
  <2>1. stack[s0] \in Seq(Tx) /\ Linked(stack[s0], parent, s0) /\ Distinct(stack[s0])
    BY <1>2 DEF IInv, TypeOK, Registered, StackIsChain
  <2>2. Layers(s0) = Elements(stack[s0]) /\ Top(s0) = TopOf(stack[s0], s0)
        /\ Layers(s0)' = Elements(stack'[s0])
    BY DEF Layers, Elements, Top, TopOf
  <2>3. /\ Append(stack[s0], t) \in Seq(Tx)
        /\ Linked(Append(stack[s0], t), parent, s0) /\ Distinct(Append(stack[s0], t))
        /\ Elements(Append(stack[s0], t)) = Elements(stack[s0]) \cup {t}
    BY <1>2, <1>3, <2>1, <2>2, LinkedAppend
  <2>4. stack'[s0] = Append(stack[s0], t) /\ \A s \in Store : s # s0 => stack'[s] = stack[s]
    BY <1>1, <1>2 DEF IInv, TypeOK
  <2>5. stack' \in [Store -> Seq(Tx)]
    BY <1>1, <2>3 DEF IInv, TypeOK
  <2> QED BY <2>2, <2>3, <2>4, <2>5
<1>5. \A s \in Store : s # s0 => Layers(s)' = Layers(s)
  BY <1>4 DEF Layers
<1>6. \A x \in Tx : Usable(x)' <=> Usable(x) /\ x # t
  BY <1>1 DEF Usable, IInv, TypeOK
<1>7. \A x \in Tx : (x \in Layers(StoreOf[x])' <=> x \in Layers(StoreOf[x]) \/ x = t)
                    /\ (Attached(x)' <=> Attached(x))
  <2>1. \A x \in Tx : x \in Layers(StoreOf[x])' <=> x \in Layers(StoreOf[x]) \/ x = t
    BY <1>4, <1>5
  <2> QED BY <2>1, <1>2, <1>6 DEF Attached
<1>8. Registered'
  <2>1. ASSUME NEW s \in Store
        PROVE  StackIsChain(s)'
    <3>1. CASE s = s0
      BY <3>1, <1>1, <1>4 DEF IInv, Registered, StackIsChain, Linked
    <3>2. CASE s # s0
      <4>1. Layers(s)' = Layers(s) /\ stack'[s] = stack[s] /\ parent' = parent
        BY <3>2, <1>1, <1>4, <1>5
      <4>2. StackIsChain(s)
        BY DEF IInv, Registered
      <4> QED BY <4>1, <4>2 DEF StackIsChain, Linked
    <3> QED BY <3>1, <3>2
  <2>2. \A x \in Tx : x \in Layers(StoreOf[x])' <=> x \in closed' /\ parent'[x] # Null
    BY <1>1, <1>2, <1>7 DEF IInv, Registered
  <2>3. \A n \in Node : children'[n] = {x \in Tx : Attached(x)' /\ parent'[x] = n}
    BY <1>1, <1>7 DEF IInv, Registered
  <2>4. \A x \in Tx : Attached(x)' =>
          x \in known' /\ parent'[x] \in Layers(StoreOf[x])' \cup {StoreOf[x]}
    <3>1. \A x \in Tx : Layers(StoreOf[x]) \subseteq Layers(StoreOf[x])'
      BY <1>4, <1>5
    <3> QED BY <3>1, <1>1, <1>7 DEF IInv, Registered
  <2>5. \A x \in closed' :
          call'[x] \in {"none", "commit", "threw"} /\ state'[x] # "none" /\ ~Usable(x)'
            /\ (x \in known' => parent'[x] # Null)
    <3>1. closed \subseteq Tx
      BY DEF IInv, TypeOK
    <3> QED BY <3>1, <1>1, <1>2, <1>6 DEF IInv, Registered, TypeOK
  <2>6. \A x \in Tx : state'[x] = "none" => call'[x] = "none"
    BY <1>1, <1>2 DEF IInv, Registered, TypeOK
  <2> QED BY <2>1, <2>2, <2>3, <2>4, <2>5, <2>6 DEF Registered, Node
<1>9. queue' \in [Store -> Seq(Job)]
      /\ \A x \in Store : \A i \in DOMAIN queue'[x] :
           \/ \E j \in DOMAIN queue[x] : queue'[x][i] = queue[x][j]
           \/ x = s0 /\ queue'[x][i].tx = t
  <2>1. CASE Push(s0, "merge", t)
    BY <2>1, <1>2, PushFacts DEF IInv
  <2>2. CASE queue' = queue
    BY <2>2 DEF IInv, TypeOK
  <2> QED BY <1>1, <2>1, <2>2
<1>10. \A x \in Tx : Awaiting(x) => call'[x] # "none"
  BY <1>1 DEF IInv, JobsAreLegal, TypeOK
<1>11. JobsAreLegal'
  <2>1. \A s \in Store : run'[s].tx \in Tx => Awaiting(run'[s].tx)
    BY DEF Awaiting
  <2>2. call'[t] # "none" /\ t \in closed'
    BY <1>1 DEF IInv, TypeOK
  <2> QED BY <1>1, <1>9, <1>10, <2>1, <2>2, JobsStep DEF IInv
<1>12. ReportsStayTrue'
  <2>1. \A x \in known' \cap closed : x \in Tx /\ x \in known
    BY <1>1 DEF IInv, TypeOK
  <2> QED BY <2>1, <1>1, <1>7, ReportsStep DEF IInv
<1>13. MergesAreLegal' /\ FlushesAreLegal' /\ HoldsAreLegal' /\ AllOrNothing'
  <2>1. \A s \in Store : Layers(s) \subseteq Layers(s)'
    BY <1>4, <1>5
  <2> QED BY <2>1, <1>1, CallStep
<1> QED BY <1>1, <1>4, <1>8, <1>9, <1>11, <1>12, <1>13

\* A usable transaction is aborted or refused: it leaves its parent.
LEMMA TakeOffStep ==
    ASSUME IInv, NEW t \in Tx, NEW why \in {"abort", "conflict"}, Usable(t), TakeOff(t, why),
           UNCHANGED <<state, joined, flushable, run, dataVars>>
    PROVE  /\ Registered' /\ JobsAreLegal' /\ MergesAreLegal' /\ FlushesAreLegal'
           /\ HoldsAreLegal' /\ AllOrNothing' /\ ReportsStayTrue'
           /\ children' \in [Node -> SUBSET Tx] /\ queue' \in [Store -> Seq(Job)]
           /\ UNCHANGED <<parent, closed, known, stack>>
           /\ call' = [call EXCEPT ![t] = why]
<1> USE CombinedAssumption
<1>1. /\ children' = [children EXCEPT ![parent[t]] = @ \ {t}]
      /\ call' = [call EXCEPT ![t] = why]
      /\ UNCHANGED <<parent, closed, known, stack>>
      /\ Push(StoreOf[t], "all", t) \/ queue' = queue
      /\ \A s : Layers(s)' = Layers(s)
  BY DEF TakeOff, Layers
<1>2. /\ StoreOf[t] \in Store /\ t \in known /\ Attached(t) /\ parent[t] \in Node
      /\ t \notin closed /\ t \notin Layers(StoreOf[t]) /\ state[t] = "open" /\ call[t] = "none"
  <2>1. Attached(t)
    BY DEF Attached
  <2>2. t \notin closed /\ StoreOf[t] \in Store
    BY DEF IInv, Registered
  <2> QED BY <2>1, <2>2, AttachedFacts, StackFacts DEF IInv, Usable
<1>3. \A x \in Tx : Usable(x)' <=> Usable(x) /\ x # t
  BY <1>1 DEF Usable, IInv, TypeOK
<1>4. \A x \in Tx : Attached(x)' <=> Attached(x) /\ x # t
  BY <1>1, <1>2, <1>3 DEF Attached
<1>5. \A n \in Node : children'[n] = children[n] \ {t}
  <2>1. \A n \in Node : n # parent[t] => t \notin children[n]
    BY DEF IInv, Registered
  <2> QED BY <2>1, <1>1, <1>2 DEF IInv, TypeOK
<1>6. Registered'
  <2>1. \A s \in Store : StackIsChain(s)'
    BY <1>1 DEF IInv, Registered, StackIsChain, Linked
  <2>2. \A x \in Tx : x \in Layers(StoreOf[x])' <=> x \in closed' /\ parent'[x] # Null
    BY <1>1 DEF IInv, Registered
  <2>3. \A n \in Node : children'[n] = {x \in Tx : Attached(x)' /\ parent'[x] = n}
    BY <1>1, <1>4, <1>5 DEF IInv, Registered
  <2>4. \A x \in Tx : Attached(x)' =>
          x \in known' /\ parent'[x] \in Layers(StoreOf[x])' \cup {StoreOf[x]}
    BY <1>1, <1>4 DEF IInv, Registered
  <2>5. \A x \in closed' :
          call'[x] \in {"none", "commit", "threw"} /\ state'[x] # "none" /\ ~Usable(x)'
            /\ (x \in known' => parent'[x] # Null)
    <3>1. closed \subseteq Tx
      BY DEF IInv, TypeOK
    <3> QED BY <3>1, <1>1, <1>2, <1>3 DEF IInv, Registered, TypeOK
  <2>6. \A x \in Tx : state'[x] = "none" => call'[x] = "none"
    BY <1>1, <1>2 DEF IInv, Registered, TypeOK
  <2> QED BY <2>1, <2>2, <2>3, <2>4, <2>5, <2>6 DEF Registered, Node
<1>7. queue' \in [Store -> Seq(Job)]
      /\ \A x \in Store : \A i \in DOMAIN queue'[x] :
           \/ \E j \in DOMAIN queue[x] : queue'[x][i] = queue[x][j]
           \/ queue'[x][i].kind = "all" /\ queue'[x][i].tx = t
  <2>1. CASE Push(StoreOf[t], "all", t)
    BY <2>1, <1>2, PushFacts DEF IInv
  <2>2. CASE queue' = queue
    BY <2>2 DEF IInv, TypeOK
  <2> QED BY <1>1, <2>1, <2>2
<1>8. JobsAreLegal'
  <2>1. \A s \in Store : run'[s].tx \in Tx => Awaiting(run'[s].tx)
    BY DEF Awaiting
  <2>2. \A x \in Tx : Awaiting(x) => call'[x] # "none"
    BY <1>1 DEF IInv, JobsAreLegal, TypeOK
  <2>3. call'[t] # "none"
    BY <1>1 DEF IInv, TypeOK
  <2> QED BY <1>1, <1>7, <2>1, <2>2, <2>3, JobsStep DEF IInv
<1>9. ReportsStayTrue'
  <2>1. \A x \in known' \cap closed : x \in Tx /\ x \in known /\ StoreOf[x] \in Node
    BY <1>1 DEF IInv, TypeOK, Node
  <2> QED BY <2>1, <1>1, <1>5, ReportsStep DEF IInv
<1>10. MergesAreLegal' /\ FlushesAreLegal' /\ HoldsAreLegal' /\ AllOrNothing'
  BY <1>1, CallStep
<1>11. children' \in [Node -> SUBSET Tx]
  BY <1>1, <1>2 DEF IInv, TypeOK
<1> QED BY <1>1, <1>6, <1>7, <1>8, <1>9, <1>10, <1>11

LEMMA CommitStep ==
    ASSUME IInv, NEW t \in Tx, Commit(t) \/ Abort(t)
    PROVE  IInv'
<1>1. /\ Quiet /\ Usable(t) /\ Dep(t) = Null
      /\ UNCHANGED <<state, joined, ctx, flushable, run, turn, dataVars>>
      /\ \/ PutOnStack(t)
         \/ \E why \in {"abort", "conflict"} : TakeOff(t, why)
  BY DEF Commit, Abort, StoreCommit
<1>2. ASSUME \E why \in {"commit", "abort", "conflict"} : call' = [call EXCEPT ![t] = why],
             closed \subseteq closed'
      PROVE  MembersAreReady'
  <2>1. \A x \in Tx : x # t /\ Usable(x) => Usable(x)'
    BY <1>1, <1>2 DEF IInv, TypeOK, Usable
  <2>2. turn = {} /\ MemberOf[t] \notin joined
    BY <1>1, CombinedAssumption DEF Quiet, Dep, IInv, TypeOK
  <2> QED BY <1>1, <1>2, <2>1, <2>2 DEF IInv, MembersAreReady, Members, TypeOK
<1>3. CASE PutOnStack(t)
  <2>1. /\ Registered' /\ JobsAreLegal' /\ MergesAreLegal' /\ FlushesAreLegal'
        /\ HoldsAreLegal' /\ AllOrNothing' /\ ReportsStayTrue'
        /\ stack' \in [Store -> Seq(Tx)] /\ queue' \in [Store -> Seq(Job)]
        /\ closed' = closed \cup {t} /\ UNCHANGED <<parent, children, known>>
        /\ call' = [call EXCEPT ![t] = "commit"]
    BY <1>1, <1>3, PutOnStackStep
  <2>2. TypeOK'
    BY <1>1, <2>1 DEF IInv, TypeOK, dataVars
  <2> QED BY <1>2, <2>1, <2>2 DEF IInv
<1>4. ASSUME NEW why \in {"abort", "conflict"}, TakeOff(t, why)
      PROVE  IInv'
  <2>1. /\ Registered' /\ JobsAreLegal' /\ MergesAreLegal' /\ FlushesAreLegal'
        /\ HoldsAreLegal' /\ AllOrNothing' /\ ReportsStayTrue'
        /\ children' \in [Node -> SUBSET Tx] /\ queue' \in [Store -> Seq(Job)]
        /\ UNCHANGED <<parent, closed, known, stack>>
        /\ call' = [call EXCEPT ![t] = why]
    BY <1>1, <1>4, TakeOffStep
  <2>2. TypeOK'
    BY <1>1, <2>1 DEF IInv, TypeOK, dataVars
  <2> QED BY <1>2, <2>1, <2>2 DEF IInv
<1> QED BY <1>1, <1>3, <1>4

LEMMA MembersStep ==
    ASSUME IInv, MemberStep
    PROVE  IInv'
<1>1. PICK t \in turn :
        /\ turn' = turn \ {t}
        /\ IF ctx[MemberOf[t]] = "committing" THEN StoreCommit(t) ELSE TakeOff(t, "abort")
  BY DEF MemberStep
<1>2. /\ t \in Tx /\ Usable(t) /\ MemberOf[t] \in joined /\ MemberOf[t] \in Comb
      /\ ctx[MemberOf[t]] \in {"committing", "rejecting", "aborting"}
      /\ UNCHANGED <<state, joined, ctx, flushable, run, dataVars>>
      /\ \/ PutOnStack(t)
         \/ \E why \in {"abort", "conflict"} : TakeOff(t, why)
  <2>1. t \in Tx /\ Usable(t) /\ MemberOf[t] \in joined /\ MemberOf[t] \in Comb
        /\ ctx[MemberOf[t]] \in {"committing", "rejecting", "aborting"}
    BY <1>1 DEF IInv, TypeOK, MembersAreReady
  <2> QED BY <1>1, <2>1 DEF MemberStep, StoreCommit
<1>3. ASSUME \E why \in {"commit", "abort", "conflict"} : call' = [call EXCEPT ![t] = why],
             closed \subseteq closed'
      PROVE  MembersAreReady'
  <2>1. \A x \in Tx : x # t /\ Usable(x) => Usable(x)'
    BY <1>2, <1>3 DEF IInv, TypeOK, Usable
  <2>2. \A x \in turn' : x \in turn /\ x # t /\ x \in Tx
    BY <1>1 DEF IInv, TypeOK
  <2>3. \A c \in joined : ctx[c] \in {"none", "checking"} => t \notin Members(c)
    BY <1>2 DEF Members
  <2> QED BY <1>2, <1>3, <2>1, <2>2, <2>3 DEF IInv, MembersAreReady, Members, TypeOK
<1>4. CASE PutOnStack(t)
  <2>1. /\ Registered' /\ JobsAreLegal' /\ MergesAreLegal' /\ FlushesAreLegal'
        /\ HoldsAreLegal' /\ AllOrNothing' /\ ReportsStayTrue'
        /\ stack' \in [Store -> Seq(Tx)] /\ queue' \in [Store -> Seq(Job)]
        /\ closed' = closed \cup {t} /\ UNCHANGED <<parent, children, known>>
        /\ call' = [call EXCEPT ![t] = "commit"]
    BY <1>2, <1>4, PutOnStackStep
  <2>2. TypeOK'
    BY <1>1, <1>2, <2>1 DEF IInv, TypeOK, dataVars
  <2> QED BY <1>3, <2>1, <2>2 DEF IInv
<1>5. ASSUME NEW why \in {"abort", "conflict"}, TakeOff(t, why)
      PROVE  IInv'
  <2>1. /\ Registered' /\ JobsAreLegal' /\ MergesAreLegal' /\ FlushesAreLegal'
        /\ HoldsAreLegal' /\ AllOrNothing' /\ ReportsStayTrue'
        /\ children' \in [Node -> SUBSET Tx] /\ queue' \in [Store -> Seq(Job)]
        /\ UNCHANGED <<parent, closed, known, stack>>
        /\ call' = [call EXCEPT ![t] = why]
    BY <1>2, <1>5, TakeOffStep
  <2>2. TypeOK'
    BY <1>1, <1>2, <2>1 DEF IInv, TypeOK, dataVars
  <2> QED BY <1>3, <2>1, <2>2 DEF IInv
<1> QED BY <1>2, <1>4, <1>5

LEMMA FinishStep ==
    ASSUME IInv, NEW t \in Tx, Finish(t)
    PROVE  IInv'
<1>1. /\ call[t] \in {"commit", "conflict", "abort"} /\ ~Awaiting(t)
      /\ call' = [call EXCEPT ![t] = "none"]
      /\ state' = [state EXCEPT ![t] = Outcome(t)]
      /\ known' = IF call[t] = "commit" THEN known ELSE known \ {t}
      /\ UNCHANGED <<joined, ctx, flushable, parent, children, closed, stack, queue, run, turn,
                     dataVars>>
      /\ \A s : Layers(s)' = Layers(s)
  BY DEF Finish, Layers
<1>2. Outcome(t) \in {"committed", "conflicted", "aborted"}
  BY <1>1 DEF Outcome
<1>3. \A x \in Tx : Usable(x)' <=> Usable(x)
  BY <1>1, <1>2 DEF IInv, TypeOK, Usable
<1>4. \A x \in Tx : Attached(x)' <=> Attached(x)
  BY <1>1, <1>3 DEF Attached
<1>5. known' = known \/ (known' = known \ {t} /\ t \notin closed /\ ~Attached(t))
  <2>1. CASE call[t] = "commit"
    BY <1>1, <2>1
  <2>2. CASE call[t] # "commit"
    <3>1. t \notin closed /\ ~Usable(t)
      BY <1>1, <2>2 DEF IInv, Registered, Usable
    <3>2. t \notin Layers(StoreOf[t])
      BY <3>1 DEF IInv, Registered
    <3> QED BY <1>1, <2>2, <3>1, <3>2 DEF Attached
  <2> QED BY <2>1, <2>2
<1>6. Registered'
  <2>1. \A s \in Store : StackIsChain(s)'
    BY <1>1 DEF IInv, Registered, StackIsChain, Linked
  <2>2. \A x \in Tx : x \in Layers(StoreOf[x])' <=> x \in closed' /\ parent'[x] # Null
    BY <1>1 DEF IInv, Registered
  <2>3. \A n \in Node : children'[n] = {x \in Tx : Attached(x)' /\ parent'[x] = n}
    BY <1>1, <1>4 DEF IInv, Registered
  <2>4. \A x \in Tx : Attached(x)' =>
          x \in known' /\ parent'[x] \in Layers(StoreOf[x])' \cup {StoreOf[x]}
    BY <1>1, <1>4, <1>5 DEF IInv, Registered
  <2>5. \A x \in closed' :
          call'[x] \in {"none", "commit", "threw"} /\ state'[x] # "none" /\ ~Usable(x)'
            /\ (x \in known' => parent'[x] # Null)
    <3>1. closed \subseteq Tx
      BY DEF IInv, TypeOK
    <3> QED BY <3>1, <1>1, <1>2, <1>3, <1>5 DEF IInv, Registered, TypeOK
  <2>6. \A x \in Tx : state'[x] = "none" => call'[x] = "none"
    BY <1>1, <1>2 DEF IInv, Registered, TypeOK
  <2> QED BY <2>1, <2>2, <2>3, <2>4, <2>5, <2>6 DEF Registered, Node
<1>7. JobsAreLegal'
  <2>1. \A x \in Tx : Awaiting(x) => call'[x] # "none"
    BY <1>1 DEF IInv, JobsAreLegal, TypeOK
  <2> QED BY <1>1, <2>1, JobsUnchanged DEF IInv
<1>8. MembersAreReady'
  BY <1>1, <1>3 DEF IInv, MembersAreReady, Members, TypeOK
<1>9. ReportsStayTrue'
  <2>1. known' \subseteq known
    BY <1>5
  <2> QED BY <2>1, <1>1, ReportsStep DEF IInv
<1>10. MergesAreLegal' /\ FlushesAreLegal' /\ HoldsAreLegal' /\ AllOrNothing'
  BY <1>1, CallStep
<1>11. TypeOK'
  BY <1>1, <1>2, <1>5 DEF IInv, TypeOK, dataVars
<1> QED BY <1>6, <1>7, <1>8, <1>9, <1>10, <1>11 DEF IInv

\* The calls on a combined transaction itself touch nothing but how far it is.
LEMMA CombinedCallStep ==
    ASSUME IInv, NEW c \in Comb,
           CombinedCommit(c) \/ CombinedAbort(c) \/ Checked(c) \/ CombinedDone(c)
    PROVE  IInv'
<1>1. /\ UNCHANGED <<state, call, joined, flushable, infoVars, queue, run, dataVars>>
      /\ \A s : Layers(s)' = Layers(s)
      /\ \A t : Usable(t)' <=> Usable(t)
  BY DEF CombinedCommit, CombinedAbort, Checked, CombinedDone, Layers, Usable, infoVars
<1>2. Registered'
  BY <1>1, NodesUnchanged DEF IInv, Registered
<1>3. JobsAreLegal'
  BY <1>1, JobsUnchanged DEF IInv, JobsAreLegal, infoVars
<1>4. MergesAreLegal' /\ FlushesAreLegal' /\ HoldsAreLegal' /\ AllOrNothing'
  BY <1>1, CallStep DEF infoVars
<1>5. ReportsStayTrue'
  BY <1>1, ReportsStep DEF IInv, infoVars
<1>6. \E next \in {"checking", "committing", "rejecting", "aborting", "true", "false", "threw"} :
         /\ ctx' = [ctx EXCEPT ![c] = next]
         /\ c \in joined /\ turn = {}
         /\ \/ turn' = {} /\ (next = "checking" => ctx[c] \in {"none", "checking"})
            \/ /\ turn' = Members(c) /\ ctx[c] \in {"none", "checking"}
               /\ next \in {"committing", "rejecting", "aborting"}
  <2>1. turn = {}
    BY DEF CombinedCommit, CombinedAbort, Checked, CombinedDone, Quiet
  <2>2. ctx[c] # "none" => c \in joined
    BY DEF IInv, MembersAreReady
  <2>3. CASE CombinedCommit(c)
    BY <2>1, <2>3 DEF CombinedCommit, Idling
  <2>4. CASE CombinedAbort(c)
    BY <2>1, <2>4 DEF CombinedAbort, Idling
  <2>5. CASE Checked(c)
    BY <2>1, <2>2, <2>5 DEF Checked
  <2>6. CASE CombinedDone(c)
    BY <2>1, <2>2, <2>6 DEF CombinedDone
  <2> QED BY <2>3, <2>4, <2>5, <2>6
<1>7. Members(c) \subseteq Tx
  BY DEF Members
<1>8. MembersAreReady'
  BY <1>1, <1>6, <1>7 DEF IInv, MembersAreReady, Members, TypeOK, infoVars
<1>9. TypeOK'
  BY <1>1, <1>6, <1>7 DEF IInv, TypeOK, infoVars, dataVars
<1> QED BY <1>2, <1>3, <1>4, <1>5, <1>8, <1>9 DEF IInv

-----------------------------------------------------------------------------
(***************************************************************************)
(* The clean-ups, of one layer or of the members of a combined transaction *)
(***************************************************************************)

\* The stack of one store when the layers in D are cleaned up, at most one of which
\* is on it.
LEMMA WithoutFacts ==
    ASSUME TypeOK, Registered, NEW s \in Store, NEW D,
           \A d, e \in D : d \in Layers(s) /\ e \in Layers(s) => d = e,
           NEW g,
           \A l \in Layers(s) : l \notin D =>
             g[l] = IF parent[l] \in D \cap Layers(s) THEN parent[parent[l]] ELSE parent[l]
    PROVE  /\ Without(stack[s], D) \in Seq(Tx)
           /\ Linked(Without(stack[s], D), g, s) /\ Distinct(Without(stack[s], D))
           /\ Elements(Without(stack[s], D)) = Layers(s) \ D
<1> DEFINE q == stack[s]
           at == {i \in DOMAIN q : q[i] \in D}
<1>1. q \in Seq(Tx) /\ s \notin Tx /\ DOMAIN q = 1..Len(q) /\ Len(q) \in Nat
  BY CombinedAssumption DEF TypeOK
<1>2. Linked(q, parent, s) /\ Distinct(q)
  BY DEF Registered, StackIsChain
<1>3. Layers(s) = Elements(q) /\ \A x : x \in Elements(q) <=> \E i \in DOMAIN q : q[i] = x
  BY DEF Layers, Elements
<1>4. CASE at = {}
  <2>1. Without(q, D) = q
    BY <1>4 DEF Without
  <2>2. \A l \in Layers(s) : l \notin D
    BY <1>3, <1>4
  <2>3. \A i \in DOMAIN q : q[i] \in Layers(s)
    BY <1>3
  <2>4. \A l \in Layers(s) : g[l] = parent[l]
    BY <2>2
  <2>5. Linked(q, g, s)
    BY <1>2, <2>3, <2>4 DEF Linked
  <2>6. Elements(q) = Layers(s) \ D
    BY <1>3, <2>2
  <2> QED BY <1>1, <1>2, <2>1, <2>5, <2>6
<1>5. CASE at # {}
  <2> DEFINE k == CHOOSE i \in at : TRUE
  <2>1. k \in at /\ Without(q, D) = RemoveAt(q, k)
    BY <1>5 DEF Without
  <2> HIDE DEF k
  <2>2. k \in 1..Len(q) /\ q[k] \in D /\ q[k] \in Layers(s)
    BY <1>1, <1>3, <2>1
  <2>3. \A l \in Layers(s) : l \in D <=> l = q[k]
    BY <2>2
  <2>4. \A l \in Elements(q) : l # q[k] =>
          g[l] = IF parent[l] = q[k] THEN parent[q[k]] ELSE parent[l]
    BY <1>3, <2>2, <2>3
  <2> HIDE DEF q, at
  <2>5. /\ RemoveAt(q, k) \in Seq(Tx)
        /\ Linked(RemoveAt(q, k), g, s) /\ Distinct(RemoveAt(q, k))
        /\ Elements(RemoveAt(q, k)) = Elements(q) \ {q[k]}
    BY <1>1, <1>2, <2>2, <2>4, LinkedRemove
  <2> QED BY <1>3, <2>1, <2>3, <2>5 DEF q
<1> QED BY <1>4, <1>5

\* After the clean-ups of the layers D, which are on different stores, the nodes and
\* the layers that are left are registered as they should be, in every store.
LEMMA CleanupKeepsRegistered ==
    ASSUME TypeOK, Registered, NEW D, D \subseteq closed,
           \A d, e \in D : StoreOf[d] = StoreOf[e] => d = e,
           CleanupOf(D), call' = call, closed' = closed,
           \A t \in Tx : state'[t] = state[t] \/ (t \in closed /\ state'[t] = "aborted")
    PROVE  /\ Registered'
           /\ parent' \in [Tx -> Node \cup {Null}] /\ children' \in [Node -> SUBSET Tx]
           /\ stack' \in [Store -> Seq(Tx)] /\ known' = known \ D
           /\ \A s \in Store : Layers(s)' = Layers(s) \ D
           /\ \A t \in Tx : Usable(t)' <=> Usable(t)
           /\ \A t \in Tx : t \notin D /\ t \in Layers(StoreOf[t]) /\ parent[t] = StoreOf[t] =>
                parent'[t] = parent[t] /\ children'[StoreOf[t]] = children[StoreOf[t]]
<1> USE CombinedAssumption
<1> DEFINE here == {d \in D : parent[d] # Null}
<1>1. /\ children' = [n \in Node |->
             IF n \in here THEN {}
             ELSE (children[n] \ here) \cup UNION {children[d] : d \in {x \in here : parent[x] = n}}]
      /\ parent' = [x \in Tx |->
             IF x \in here THEN Null
             ELSE IF \E d \in here : x \in children[d] THEN parent[parent[x]] ELSE parent[x]]
      /\ known' = known \ D
      /\ stack' = [s \in Store |-> Without(stack[s], D)]
  BY DEF CleanupOf
<1>2. D \subseteq Tx /\ closed \subseteq Tx /\ \A t \in closed : ~Usable(t)
  BY DEF TypeOK, Registered
<1>3. \A d \in Tx : d \in here <=> d \in D /\ d \in Layers(StoreOf[d])
  BY <1>2 DEF Registered
<1> HIDE DEF here
<1>4. \A n \in Node : \A x : x \in children[n] <=> x \in Tx /\ Attached(x) /\ parent[x] = n
  BY ChildFacts
<1>5. here \subseteq Tx /\ here \subseteq Node /\ here \subseteq D
      /\ \A d \in here : Attached(d) /\ d \in Layers(StoreOf[d])
  BY <1>2, <1>3 DEF here, Attached, Node
<1>6. \A d, e \in here : StoreOf[d] = StoreOf[e] => d = e
  BY <1>5
<1>7. \A t \in Tx : Attached(t) =>
        /\ StoreOf[t] \in Store /\ t \in known /\ parent[t] \in Node /\ parent[t] # Null
        /\ parent[t] \in Layers(StoreOf[t]) \cup {StoreOf[t]} /\ parent[t] # t
        /\ parent[t] \in here => StoreOf[parent[t]] = StoreOf[t]
  <2> SUFFICES ASSUME NEW t \in Tx, Attached(t)
      PROVE  /\ StoreOf[t] \in Store /\ t \in known /\ parent[t] \in Node /\ parent[t] # Null
             /\ parent[t] \in Layers(StoreOf[t]) \cup {StoreOf[t]} /\ parent[t] # t
             /\ parent[t] \in here => StoreOf[parent[t]] = StoreOf[t]
    OBVIOUS
  <2>1. /\ StoreOf[t] \in Store /\ t \in known /\ parent[t] \in Node /\ parent[t] # Null
        /\ parent[t] \in Layers(StoreOf[t]) \cup {StoreOf[t]} /\ parent[t] # t
    BY AttachedFacts
  <2>2. \A l \in Layers(StoreOf[t]) : StoreOf[l] = StoreOf[t]
    BY <2>1, StackFacts
  <2> QED BY <1>5, <2>1, <2>2
\* What stood on a layer that goes stands on the one below it, which stays.
<1>8. ASSUME NEW t \in Tx, Attached(t)
      PROVE  /\ parent[t] \in here =>
                  /\ Attached(parent[t]) /\ parent[parent[t]] \notin here
                  /\ parent[parent[t]] \in Layers(StoreOf[t]) \cup {StoreOf[t]}
                  /\ t \notin here
             /\ t \in D <=> t \in here
  <2>1. ASSUME parent[t] \in here
        PROVE  /\ Attached(parent[t]) /\ parent[parent[t]] \notin here
               /\ parent[parent[t]] \in Layers(StoreOf[t]) \cup {StoreOf[t]}
               /\ t \notin here
    <3>1. parent[t] \in Tx /\ Attached(parent[t]) /\ StoreOf[parent[t]] = StoreOf[t]
      BY <1>5, <1>7, <1>8, <2>1
    <3>2. /\ parent[parent[t]] \in Layers(StoreOf[t]) \cup {StoreOf[t]}
          /\ parent[parent[t]] # parent[t]
          /\ parent[parent[t]] \in here => StoreOf[parent[parent[t]]] = StoreOf[t]
      BY <1>7, <3>1
    <3>3. t # parent[t]
      BY <1>7, <1>8
    <3> QED BY <1>6, <2>1, <3>1, <3>2, <3>3
  <2>2. t \in D <=> t \in here
    BY <1>2, <1>3, <1>5, <1>8 DEF Attached
  <2> QED BY <2>1, <2>2
<1>9. \A t \in Tx : (\E d \in here : t \in children[d]) <=> Attached(t) /\ parent[t] \in here
  BY <1>4, <1>5
<1>10. \A t \in Tx : parent'[t] = IF t \in here THEN Null
                                  ELSE IF Attached(t) /\ parent[t] \in here
                                    THEN parent[parent[t]] ELSE parent[t]
  BY <1>1, <1>9
<1>11. \A n \in Node : \A x : x \in children'[n] <=>
          /\ n \notin here
          /\ \/ x \in children[n] /\ x \notin here
             \/ \E d \in here : parent[d] = n /\ x \in children[d]
  <2> SUFFICES ASSUME NEW n \in Node, NEW x
      PROVE  x \in children'[n] <=>
               /\ n \notin here
               /\ \/ x \in children[n] /\ x \notin here
                  \/ \E d \in here : parent[d] = n /\ x \in children[d]
    OBVIOUS
  <2>1. CASE n \in here
    BY <1>1, <2>1
  <2>2. CASE n \notin here
    <3>1. children'[n] = (children[n] \ here)
                           \cup UNION {children[d] : d \in {y \in here : parent[y] = n}}
      BY <1>1, <2>2
    <3> QED BY <3>1, <2>2
  <2> QED BY <2>1, <2>2
<1>12. ASSUME NEW s \in Store
       PROVE  /\ stack'[s] \in Seq(Tx) /\ Linked(stack'[s], parent', s) /\ Distinct(stack'[s])
              /\ Layers(s)' = Layers(s) \ D
  <2>1. Layers(s) \subseteq Tx /\ \A l \in Layers(s) : StoreOf[l] = s
    BY StackFacts
  <2>2. \A d, e \in D : d \in Layers(s) /\ e \in Layers(s) => d = e
    BY <2>1
  <2>3. \A l \in Layers(s) : Attached(l)
    BY <2>1 DEF Attached
  <2>4. \A l \in Layers(s) : l \notin D =>
          parent'[l] = IF parent[l] \in D \cap Layers(s) THEN parent[parent[l]] ELSE parent[l]
    <3> SUFFICES ASSUME NEW l \in Layers(s), l \notin D
        PROVE  parent'[l] = IF parent[l] \in D \cap Layers(s) THEN parent[parent[l]] ELSE parent[l]
      OBVIOUS
    <3>1. l \in Tx /\ Attached(l) /\ l \notin here /\ StoreOf[l] = s
      BY <1>5, <2>1, <2>3
    <3>2. parent[l] \in here <=> parent[l] \in D \cap Layers(s)
      <4>1. parent[l] \in here => parent[l] \in D /\ StoreOf[parent[l]] = s
                                  /\ parent[l] \in Layers(StoreOf[parent[l]])
        BY <1>5, <1>7, <3>1
      <4>2. parent[l] \in D \cap Layers(s) => parent[l] \in here
        BY <1>3, <2>1
      <4> QED BY <4>1, <4>2
    <3> QED BY <1>10, <3>1, <3>2
  <2>5. /\ Without(stack[s], D) \in Seq(Tx)
        /\ Linked(Without(stack[s], D), parent', s) /\ Distinct(Without(stack[s], D))
        /\ Elements(Without(stack[s], D)) = Layers(s) \ D
    BY <2>2, <2>4, WithoutFacts
  <2>6. stack'[s] = Without(stack[s], D)
    BY <1>1
  <2>7. Layers(s)' = Elements(stack'[s])
    BY DEF Layers, Elements
  <2> QED BY <2>5, <2>6, <2>7
<1>13. \A t \in Tx : Usable(t)' <=> Usable(t)
  BY <1>2 DEF Usable
<1>14. \A t \in Tx : (t \in Layers(StoreOf[t])' <=> t \in Layers(StoreOf[t]) /\ t \notin D)
                     /\ (Attached(t)' <=> Attached(t) /\ t \notin D)
  <2>1. \A t \in Tx : t \in Layers(StoreOf[t])' <=> t \in Layers(StoreOf[t]) /\ t \notin D
    BY <1>12
  <2> QED BY <2>1, <1>2, <1>13 DEF Attached
<1>15. \A s \in Store : StackIsChain(s)'
  <2> SUFFICES ASSUME NEW s \in Store PROVE StackIsChain(s)'
    OBVIOUS
  <2>1. \A l \in Layers(s)' : StoreOf[l] = s
    BY <1>12 DEF Registered, StackIsChain
  <2> QED BY <2>1, <1>12 DEF StackIsChain
<1>16. \A t \in Tx : t \in Layers(StoreOf[t])' <=> t \in closed' /\ parent'[t] # Null
  <2> SUFFICES ASSUME NEW t \in Tx
      PROVE  t \in Layers(StoreOf[t]) /\ t \notin D <=> t \in closed /\ parent'[t] # Null
    BY <1>14
  <2>1. t \in Layers(StoreOf[t]) <=> t \in closed /\ parent[t] # Null
    BY DEF Registered
  <2>2. CASE t \in Layers(StoreOf[t])
    <3>1. Attached(t)
      BY <2>2 DEF Attached
    <3>2. parent[t] # Null /\ (parent[t] \in here => parent[parent[t]] # Null)
      BY <1>5, <1>7, <3>1
    <3>3. t \in D <=> t \in here
      BY <1>8, <3>1
    <3> QED BY <1>10, <2>1, <2>2, <3>1, <3>2, <3>3
  <2>3. CASE t \notin Layers(StoreOf[t]) /\ t \in closed
    <3>1. ~Attached(t) /\ t \notin here /\ parent[t] = Null
      BY <1>2, <1>3, <2>1, <2>3 DEF Attached
    <3> QED BY <1>10, <2>3, <3>1
  <2>4. CASE t \notin closed
    BY <2>1, <2>4
  <2> QED BY <2>2, <2>3, <2>4
<1>17. \A n \in Node : children'[n] = {t \in Tx : Attached(t)' /\ parent'[t] = n}
  <2> TAKE n \in Node
  <2>1. \A t \in children'[n] : t \in Tx
    BY <1>4, <1>5, <1>11
  <2>2. ASSUME NEW t \in Tx, ~Attached(t)
        PROVE  t \notin children'[n] /\ ~Attached(t)'
    BY <1>4, <1>5, <1>11, <1>14, <2>2
  <2>3. ASSUME NEW t \in Tx, Attached(t), t \in D
        PROVE  t \notin children'[n] /\ ~Attached(t)'
    <3>1. t \in here /\ parent[t] \notin here
      BY <1>8, <2>3
    <3> QED BY <1>4, <1>5, <1>11, <1>14, <2>3, <3>1
  <2>4. ASSUME NEW t \in Tx, Attached(t), t \notin D, parent[t] \in here
        PROVE  t \in children'[n] <=> Attached(t)' /\ parent'[t] = n
    <3>1. /\ Attached(t)' /\ parent'[t] = parent[parent[t]] /\ parent[parent[t]] \notin here
          /\ t \notin here
      BY <1>8, <1>10, <1>14, <2>4
    <3>2. t \in children[n] <=> parent[t] = n
      BY <1>4, <2>4
    <3>3. \A d \in here : t \in children[d] <=> parent[t] = d
      BY <1>4, <1>5, <2>4
    <3> QED BY <1>11, <2>4, <3>1, <3>2, <3>3
  <2>5. ASSUME NEW t \in Tx, Attached(t), t \notin D, parent[t] \notin here
        PROVE  t \in children'[n] <=> Attached(t)' /\ parent'[t] = n
    <3>1. Attached(t)' /\ t \notin here /\ parent'[t] = parent[t]
      BY <1>5, <1>10, <1>14, <2>5
    <3>2. t \in children[n] <=> parent[t] = n
      BY <1>4, <2>5
    <3>3. \A d \in here : t \notin children[d]
      BY <1>4, <1>5, <2>5
    <3> QED BY <1>11, <2>5, <3>1, <3>2, <3>3
  <2> QED BY <2>1, <2>2, <2>3, <2>4, <2>5
<1>18. \A t \in Tx : Attached(t)' =>
         t \in known' /\ parent'[t] \in Layers(StoreOf[t])' \cup {StoreOf[t]}
  <2> SUFFICES ASSUME NEW t \in Tx, Attached(t)'
      PROVE  t \in known' /\ parent'[t] \in Layers(StoreOf[t])' \cup {StoreOf[t]}
    OBVIOUS
  <2>1. Attached(t) /\ t \notin D /\ t \notin here /\ t \in known /\ StoreOf[t] \in Store
    BY <1>5, <1>7, <1>14
  <2>2. Layers(StoreOf[t])' = Layers(StoreOf[t]) \ D /\ Layers(StoreOf[t]) \subseteq Tx
        /\ \A l \in Layers(StoreOf[t]) : StoreOf[l] = StoreOf[t]
    BY <1>12, <2>1, StackFacts
  <2>3. \A l \in Layers(StoreOf[t]) : l \in D <=> l \in here
    BY <1>3, <2>2
  <2>4. parent'[t] \notin here /\ parent'[t] \in Layers(StoreOf[t]) \cup {StoreOf[t]}
    BY <1>7, <1>8, <1>10, <2>1
  <2> QED BY <1>1, <2>1, <2>2, <2>3, <2>4
<1>19. \A t \in closed' :
         call'[t] \in {"none", "commit", "threw"} /\ state'[t] # "none" /\ ~Usable(t)'
           /\ (t \in known' => parent'[t] # Null)
  <2> SUFFICES ASSUME NEW t \in closed
      PROVE call'[t] \in {"none", "commit", "threw"} /\ state'[t] # "none" /\ ~Usable(t)'
             /\ (t \in known' => parent'[t] # Null)
    OBVIOUS
  <2>1. t \in Tx /\ call[t] \in {"none", "commit", "threw"} /\ state[t] # "none" /\ ~Usable(t)
        /\ (t \in known => parent[t] # Null)
    BY <1>2 DEF Registered
  <2>2. t \in known' => t \in Layers(StoreOf[t])'
    BY <1>1, <1>14, <2>1 DEF Registered
  <2> QED BY <1>13, <1>16, <2>1, <2>2
<1>20. \A t \in Tx : state'[t] = "none" => call'[t] = "none"
  BY DEF Registered
<1>21. Registered'
  BY <1>15, <1>16, <1>17, <1>18, <1>19, <1>20 DEF Registered, Node
<1>22. parent' \in [Tx -> Node \cup {Null}]
  <2>1. ASSUME NEW t \in Tx
        PROVE  parent'[t] \in Node \cup {Null}
    <3>1. Attached(t) /\ parent[t] \in here => parent[parent[t]] \in Node
      BY <1>5, <1>7, <1>8
    <3>2. parent[t] \in Node \cup {Null}
      BY DEF TypeOK
    <3> QED BY <1>10, <3>1, <3>2
  <2> QED BY <1>1, <2>1
<1>23. children' \in [Node -> SUBSET Tx]
  <2>1. \A n \in Node : children'[n] \in SUBSET Tx
    BY <1>17
  <2>2. children' = [n \in Node |-> children'[n]]
    BY <1>1
  <2> QED BY <2>1, <2>2
<1>24. stack' \in [Store -> Seq(Tx)]
  BY <1>1, <1>12
<1>25. ASSUME NEW t \in Tx, t \notin D, t \in Layers(StoreOf[t]), parent[t] = StoreOf[t]
       PROVE  parent'[t] = parent[t] /\ children'[StoreOf[t]] = children[StoreOf[t]]
  <2>1. Attached(t) /\ StoreOf[t] \in Node /\ StoreOf[t] \in Store /\ t \notin here
        /\ StoreOf[t] \notin here /\ t \in closed
    BY <1>5, <1>25 DEF Attached, Node, Registered
  <2>2. parent'[t] = parent[t]
    BY <1>10, <1>25, <2>1
  <2>3. \A d \in here : parent[d] # StoreOf[t]
    <3> SUFFICES ASSUME NEW d \in here, parent[d] = StoreOf[t] PROVE FALSE
      OBVIOUS
    <3>1. d \in Tx /\ Attached(d) /\ d \in Layers(StoreOf[d])
      BY <1>5
    <3>2. StoreOf[d] = StoreOf[t]
      BY <2>1, <3>1, AttachedFacts
    <3>3. d = t
      BY <1>25, <2>1, <3>1, <3>2, StackFacts
    <3> QED BY <2>1, <3>3
  <2>4. \A x \in here : x \notin children[StoreOf[t]]
    BY <1>4, <2>1, <2>3
  <2>5. \A x : x \in children'[StoreOf[t]] <=> x \in children[StoreOf[t]]
    BY <1>11, <2>1, <2>3, <2>4
  <2>6. children'[StoreOf[t]] \subseteq Tx /\ children[StoreOf[t]] \subseteq Tx
    BY <1>23, <2>1 DEF TypeOK
  <2> QED BY <2>2, <2>5, <2>6
<1> QED BY <1>1, <1>12, <1>13, <1>21, <1>22, <1>23, <1>24, <1>25

\* The queues after clean-ups: a job that nobody awaits may have been pushed.
LEMMA CleanupQueues ==
    ASSUME TypeOK, NEW D, CleanupOf(D)
    PROVE  /\ queue' \in [Store -> Seq(Job)]
           /\ \A x \in Store : \A i \in DOMAIN queue'[x] :
                \/ \E j \in DOMAIN queue[x] : queue'[x][i] = queue[x][j]
                \/ queue'[x][i].kind = "all" /\ queue'[x][i].tx = Null
<1> DEFINE job == [kind |-> "all", tx |-> Null]
           pushed == {s \in Store : \E d \in D : StoreOf[d] = s}
<1>1. queue' = [s \in Store |-> IF s \in pushed THEN Append(queue[s], job) ELSE queue[s]]
  BY DEF CleanupOf
<1>2. queue \in [Store -> Seq(Job)] /\ job \in Job /\ job.kind = "all" /\ job.tx = Null
  BY DEF TypeOK, Job
<1> HIDE DEF job, pushed
<1>3. ASSUME NEW s \in Store
      PROVE  /\ Append(queue[s], job) \in Seq(Job)
             /\ \A i \in DOMAIN Append(queue[s], job) :
                  \/ \E j \in DOMAIN queue[s] : Append(queue[s], job)[i] = queue[s][j]
                  \/ Append(queue[s], job)[i] = job
  <2>1. /\ Append(queue[s], job) \in Seq(Job)
        /\ Len(Append(queue[s], job)) = Len(queue[s]) + 1
        /\ Append(queue[s], job)[Len(queue[s]) + 1] = job
        /\ \A i \in 1..Len(queue[s]) : Append(queue[s], job)[i] = queue[s][i]
    BY <1>2, AppendProperties
  <2>2. /\ DOMAIN queue[s] = 1..Len(queue[s]) /\ Len(queue[s]) \in Nat
        /\ DOMAIN Append(queue[s], job) = 1..(Len(queue[s]) + 1)
    BY <1>2, <2>1
  <2>3. \A i \in 1..(Len(queue[s]) + 1) : i = Len(queue[s]) + 1 \/ i \in 1..Len(queue[s])
    BY <2>2
  <2> QED BY <2>1, <2>2, <2>3
<1>4. queue' \in [Store -> Seq(Job)]
  BY <1>1, <1>2, <1>3
<1>5. ASSUME NEW x \in Store, NEW i \in DOMAIN queue'[x]
      PROVE  \/ \E j \in DOMAIN queue[x] : queue'[x][i] = queue[x][j]
             \/ queue'[x][i] = job
  <2>1. CASE x \in pushed
    <3>1. queue'[x] = Append(queue[x], job)
      BY <1>1, <2>1
    <3> QED BY <1>3, <1>5, <3>1
  <2>2. CASE x \notin pushed
    <3>1. queue'[x] = queue[x]
      BY <1>1, <2>2
    <3> QED BY <1>5, <3>1
  <2> QED BY <2>1, <2>2
<1> QED BY <1>2, <1>4, <1>5

\* The step of a synchronizer that only moves its job on.
LEMMA PhaseFacts ==
    ASSUME TypeOK, NEW s \in Store, NEW phase \in Phase, SetPhase(s, phase)
    PROVE  /\ run' \in [Store -> Running]
           /\ run'[s].phase = phase /\ run'[s].target = run[s].target
           /\ run'[s].tx = run[s].tx /\ run'[s].onto = run[s].onto
           /\ run'[s].batch = run[s].batch
           /\ \A x \in Store : x # s => run'[x] = run[x]
           /\ \A x \in Store : run'[x].tx = run[x].tx
<1>1. run \in [Store -> Running] /\ run' = [run EXCEPT ![s].phase = phase]
  BY DEF TypeOK, SetPhase
<1>2. run'[s] = [run[s] EXCEPT !.phase = phase] /\ \A x \in Store : x # s => run'[x] = run[x]
  BY <1>1
<1>3. run[s] \in Running
  BY <1>1
<1>4. run'[s] \in Running /\ run'[s].phase = phase /\ run'[s].target = run[s].target
      /\ run'[s].tx = run[s].tx /\ run'[s].onto = run[s].onto
      /\ run'[s].batch = run[s].batch
  BY <1>2, <1>3 DEF Running
<1>5. run' \in [Store -> Running]
  BY <1>1, <1>4
<1> QED BY <1>2, <1>4, <1>5

\* The clean-ups of the layers D at the end of a merge or a flush of store s.
LEMMA CleanupStep ==
    ASSUME IInv, NEW s \in Store, NEW D, D \subseteq closed,
           \A d, e \in D : StoreOf[d] = StoreOf[e] => d = e,
           \A x \in Store : x # s => \A d \in D : d \in Layers(x) => Dep(d) # Null,
           CleanupOf(D), SetPhase(s, "true"),
           UNCHANGED <<call, joined, ctx, flushable, closed, turn, dataVars>>,
           \/ state' = state
           \/ \E t \in closed : state' = [state EXCEPT ![t] = "aborted"]
    PROVE  IInv'
<1>1. \A t \in Tx : state'[t] = state[t] \/ (t \in closed /\ state'[t] = "aborted")
  BY DEF IInv, TypeOK
<1>2. /\ Registered'
      /\ parent' \in [Tx -> Node \cup {Null}] /\ children' \in [Node -> SUBSET Tx]
      /\ stack' \in [Store -> Seq(Tx)] /\ known' = known \ D
      /\ \A x \in Store : Layers(x)' = Layers(x) \ D
      /\ \A t \in Tx : Usable(t)' <=> Usable(t)
      /\ \A t \in Tx : t \notin D /\ t \in Layers(StoreOf[t]) /\ parent[t] = StoreOf[t] =>
           parent'[t] = parent[t] /\ children'[StoreOf[t]] = children[StoreOf[t]]
  BY <1>1, CleanupKeepsRegistered DEF IInv
<1>3. /\ run' \in [Store -> Running] /\ run'[s].phase = "true"
      /\ \A x \in Store : x # s => run'[x] = run[x]
      /\ \A x \in Store : run'[x].tx = run[x].tx
  BY PhaseFacts DEF IInv, Phase
<1>4. /\ queue' \in [Store -> Seq(Job)]
      /\ \A x \in Store : \A i \in DOMAIN queue'[x] :
           \/ \E j \in DOMAIN queue[x] : queue'[x][i] = queue[x][j]
           \/ queue'[x][i].kind = "all" /\ queue'[x][i].tx = Null
  BY CleanupQueues DEF IInv
<1>5. \A t \in closed : Dep(t)' = Dep(t)
  BY DEF Dep
<1>6. JobsAreLegal'
  <2>1. \A x \in Store : run'[x].tx \in Tx => Awaiting(run'[x].tx)
    BY <1>3 DEF Awaiting
  <2> QED BY <1>4, <2>1, CombinedAssumption, JobsStep DEF IInv, JobsAreLegal
<1>7. MergesAreLegal'
  <2>1. MergeIsLegal(s)'
    BY <1>3 DEF MergeIsLegal
  <2>2. ASSUME NEW x \in Store, x # s, NEW t \in Layers(x), Dep(t) = Null
        PROVE  t \in Layers(x)'
    BY <1>2, <2>2
  <2> QED BY <1>3, <1>5, <2>1, <2>2, MergesStep DEF IInv
<1>8. FlushesAreLegal'
  <2>1. FlushIsLegal(s)'
    BY <1>3 DEF FlushIsLegal
  <2> QED BY <1>3, <1>5, <2>1, FlushesStep DEF IInv
<1>9. HoldsAreLegal' /\ AllOrNothing'
  BY <1>5, HoldsUnchanged DEF IInv, AllOrNothing, Members, dataVars
<1>10. MembersAreReady'
  BY <1>2 DEF IInv, MembersAreReady, Members, TypeOK
<1>11. ReportsStayTrue'
  <2>1. \A x \in known' \cap closed : x \in Tx /\ x \in known /\ x \notin D /\ StoreOf[x] \in Store
    BY <1>2, CombinedAssumption DEF IInv, TypeOK
  <2> QED BY <1>2, <2>1, ReportsStep DEF IInv
<1>12. TypeOK'
  <2>1. state' \in [Tx -> {"none", "open", "committed", "aborted", "conflicted"}]
    BY DEF IInv, TypeOK
  <2> QED BY <1>2, <1>3, <1>4, <2>1 DEF IInv, TypeOK, dataVars
<1> QED BY <1>2, <1>6, <1>7, <1>8, <1>9, <1>10, <1>11, <1>12 DEF IInv

LEMMA LayerCleanupStep ==
    ASSUME IInv, NEW s \in Store, Cleanup(s)
    PROVE  IInv'
<1> DEFINE t == run[s].target
<1>1. /\ CleanupOf({t}) /\ SetPhase(s, "true")
      /\ UNCHANGED <<call, joined, ctx, flushable, closed, turn, dataVars>>
      /\ state' = state \/ state' = [state EXCEPT ![t] = "aborted"]
      /\ t \in Layers(s)
  BY DEF Cleanup, IInv, MergesAreLegal, MergeIsLegal
<1> HIDE DEF t
<1>2. t \in closed /\ \A x \in Store : x # s => t \notin Layers(x)
  <2>1. Layers(s) \subseteq closed /\ StoreOf[t] = s
    BY <1>1, StackFacts DEF IInv
  <2>2. \A x \in Store : t \in Layers(x) => StoreOf[t] = x
    BY StackFacts DEF IInv
  <2> QED BY <1>1, <2>1, <2>2
<1> QED BY <1>1, <1>2, CleanupStep

LEMMA CallbacksStep ==
    ASSUME IInv, NEW s \in Store, Callbacks(s)
    PROVE  IInv'
<1> DEFINE c == Dep(run[s].target)
<1>1. /\ CleanupOf(flushable[c]) /\ SetPhase(s, "true") /\ run[s].phase = "written"
      /\ UNCHANGED <<state, call, joined, ctx, flushable, closed, turn, dataVars>>
  BY DEF Callbacks
<1>2. c \in joined /\ c \in Comb
  BY <1>1, TargetIsClosed DEF IInv, FlushesAreLegal
<1> HIDE DEF c
<1>3. \A d \in flushable[c] : /\ d \in Tx /\ d \in closed /\ MemberOf[d] = c /\ MemberOf[d] # Null
                              /\ Dep(d) # Null
  BY <1>2, CombinedAssumption DEF IInv, MembersAreReady, TypeOK, Dep
<1>4. \A d, e \in flushable[c] : StoreOf[d] = StoreOf[e] => d = e
  BY <1>3, CombinedAssumption
<1>5. flushable[c] \subseteq closed
  BY <1>3
<1> QED BY <1>1, <1>3, <1>4, <1>5, CleanupStep

-----------------------------------------------------------------------------
(***************************************************************************)
(* The jobs of the synchronizers                                           *)
(***************************************************************************)

\* What a step of a synchronizer that touches no node keeps.
LEMMA SynchronizerStep ==
    ASSUME IInv, UNCHANGED <<state, call, joined, ctx, flushable, infoVars, queue, turn>>,
           \A x \in Store : run'[x].tx = run[x].tx
    PROVE  /\ Registered' /\ JobsAreLegal' /\ MembersAreReady' /\ ReportsStayTrue'
           /\ \A s : Layers(s)' = Layers(s)
           /\ \A t \in closed : Dep(t)' = Dep(t)
           /\ UNCHANGED <<parent, children, closed, known, stack>>
<1>1. /\ \A s : Layers(s)' = Layers(s)
      /\ \A t \in Tx : Usable(t)' <=> Usable(t)
      /\ UNCHANGED <<parent, children, closed, known, stack>>
  BY DEF Layers, Usable, infoVars
<1>2. Registered'
  BY <1>1, NodesUnchanged DEF IInv, Registered
<1>3. JobsAreLegal'
  <2>1. \A x \in Store : run'[x].tx \in Tx => Awaiting(run'[x].tx)
    BY DEF Awaiting
  <2> QED BY <1>1, <2>1, JobsStep DEF IInv, JobsAreLegal
<1>4. MembersAreReady'
  BY <1>1 DEF IInv, MembersAreReady, Members, TypeOK
<1>5. ReportsStayTrue'
  BY <1>1, ReportsStep DEF IInv
<1>6. \A t \in closed : Dep(t)' = Dep(t)
  BY DEF Dep
<1> QED BY <1>1, <1>2, <1>3, <1>4, <1>5, <1>6

\* A merge copies the writes of a plain transaction, never those of a member.
LEMMA ApplyStep ==
    ASSUME IInv, NEW s \in Store, Apply(s)
    PROVE  IInv'
<1> USE CombinedAssumption
<1> DEFINE t == run[s].target
           n == run[s].onto
<1>1. /\ run[s].phase = "applying" /\ SetPhase(s, "applied")
      /\ UNCHANGED <<state, call, joined, ctx, flushable, infoVars, queue, turn>>
      /\ IF n \in Store
           THEN persisted' = persisted \cup holds[t] /\ UNCHANGED holds
           ELSE holds' = [holds EXCEPT ![n] = @ \cup holds[t]] /\ UNCHANGED persisted
  BY DEF Apply
<1>2. t \in Layers(s) /\ Dep(t) = Null /\ n \in Node
  BY <1>1 DEF IInv, MergesAreLegal, MergeIsLegal
<1>3. /\ run' \in [Store -> Running] /\ run'[s].phase = "applied"
      /\ run'[s].target = t /\ run'[s].onto = n
      /\ \A x \in Store : x # s => run'[x] = run[x]
      /\ \A x \in Store : run'[x].tx = run[x].tx
  BY <1>1, PhaseFacts DEF IInv, Phase
<1> HIDE DEF t, n
<1>4. /\ Registered' /\ JobsAreLegal' /\ MembersAreReady' /\ ReportsStayTrue'
      /\ \A x : Layers(x)' = Layers(x)
      /\ \A m \in closed : Dep(m)' = Dep(m)
      /\ UNCHANGED <<parent, children, closed, known, stack>>
  BY <1>1, <1>3, SynchronizerStep
<1>5. t \in Tx /\ t \in closed /\ closed \subseteq Tx
  BY <1>2, StackFacts DEF IInv, TypeOK
<1>6. MergesAreLegal'
  <2>1. MergeIsLegal(s)'
    BY <1>2, <1>3, <1>4, <1>5 DEF MergeIsLegal
  <2> QED BY <1>3, <1>4, <2>1, MergesStep DEF IInv
<1>7. FlushesAreLegal'
  <2>1. FlushIsLegal(s)'
    BY <1>3 DEF FlushIsLegal
  <2> QED BY <1>1, <1>3, <1>4, <2>1, FlushesStep DEF IInv
<1>8. \A m \in holds[t] : m \in Tx /\ m \in closed /\ Dep(m) = Null
  BY <1>2, <1>5 DEF IInv, HoldsAreLegal, TypeOK
<1>9. HoldsAreLegal' /\ holds' \in [Tx -> SUBSET Tx] /\ persisted' \subseteq Tx
  <2>1. CASE n \in Store
    BY <1>1, <1>4, <1>5, <1>8, <2>1 DEF IInv, HoldsAreLegal, TypeOK
  <2>2. CASE n \notin Store
    <3>1. n \in Tx
      BY <1>2, <2>2 DEF Node
    <3>2. /\ persisted' = persisted /\ holds'[n] = holds[n] \cup holds[t]
          /\ \A x \in Tx : x # n => holds'[x] = holds[x]
          /\ holds' \in [Tx -> SUBSET Tx]
      <4>1. holds \in [Tx -> SUBSET Tx] /\ holds[t] \subseteq Tx /\ holds[n] \subseteq Tx
        BY <1>5, <3>1 DEF IInv, TypeOK
      <4>2. holds' = [holds EXCEPT ![n] = @ \cup holds[t]] /\ persisted' = persisted
        BY <1>1, <2>2
      <4> QED BY <3>1, <4>1, <4>2
    <3>3. \A x \in Tx : \A m \in holds'[x] : m \in holds[x] \/ m \in holds[t]
      BY <3>2
    <3>4. \A x \in Tx : x \in holds'[x]
      BY <3>2 DEF IInv, HoldsAreLegal
    <3>5. \A x \in Tx : \A m \in holds[x] : m # x => Dep(m) = Null /\ m \in closed
      BY DEF IInv, HoldsAreLegal
    <3>6. \A x \in Tx : \A m \in holds'[x] : m # x => Dep(m)' = Null /\ m \in closed'
      BY <1>4, <1>8, <3>3, <3>5
    <3> QED BY <1>4, <3>2, <3>4, <3>6 DEF IInv, HoldsAreLegal, TypeOK
  <2> QED BY <2>1, <2>2
<1>10. AllOrNothing'
  <2>1. ASSUME NEW c \in joined, NEW m \in Members(c), m \in persisted'
        PROVE  m \in persisted
    <3>1. m \in Tx /\ Dep(m) = c /\ c # Null
      BY <2>1 DEF Members, Dep, IInv, TypeOK
    <3> QED BY <1>1, <1>8, <2>1, <3>1
  <2>2. persisted \subseteq persisted' /\ joined' = joined
    BY <1>1
  <2>3. \A c \in joined : Members(c) \cap persisted = {} \/ Members(c) \subseteq persisted
    BY DEF IInv, AllOrNothing
  <2> QED BY <2>1, <2>2, <2>3 DEF AllOrNothing, Members
<1>11. TypeOK'
  BY <1>1, <1>3, <1>4, <1>9 DEF IInv, TypeOK
<1> QED BY <1>4, <1>6, <1>7, <1>9, <1>10, <1>11 DEF IInv

\* A step that only moves the job of s on, to a phase that is legal.
LEMMA MoveOnStep ==
    ASSUME IInv, NEW s \in Store, NEW phase \in Phase, SetPhase(s, phase),
           UNCHANGED <<state, call, joined, ctx, flushable, infoVars, queue, turn, dataVars>>,
           MergeIsLegal(s)', FlushIsLegal(s)'
    PROVE  IInv'
<1>1. /\ run' \in [Store -> Running]
      /\ \A x \in Store : x # s => run'[x] = run[x]
      /\ \A x \in Store : run'[x].tx = run[x].tx
  BY PhaseFacts DEF IInv
<1>2. /\ Registered' /\ JobsAreLegal' /\ MembersAreReady' /\ ReportsStayTrue'
      /\ \A x : Layers(x)' = Layers(x)
      /\ \A m \in closed : Dep(m)' = Dep(m)
      /\ UNCHANGED <<parent, children, closed, known, stack>>
  BY <1>1, SynchronizerStep
<1>3. MergesAreLegal'
  BY <1>1, <1>2, MergesStep DEF IInv
<1>4. FlushesAreLegal'
  BY <1>1, <1>2, FlushesStep DEF IInv
<1>5. HoldsAreLegal' /\ AllOrNothing'
  BY <1>2, HoldsUnchanged DEF IInv, AllOrNothing, Members, dataVars
<1>6. TypeOK'
  BY <1>1, <1>2 DEF IInv, TypeOK, dataVars
<1> QED BY <1>2, <1>3, <1>4, <1>5, <1>6 DEF IInv

LEMMA FailStep ==
    ASSUME IInv, NEW s \in Store, ApplyFails(s) \/ WriteFails(s)
    PROVE  IInv'
<1>1. /\ UNCHANGED <<state, call, joined, ctx, flushable, infoVars, queue, turn, dataVars>>
      /\ Layers(s)' = Layers(s) /\ \A t : Dep(t)' = Dep(t)
  BY DEF ApplyFails, WriteFails, Layers, infoVars, Dep
<1>2. CASE ApplyFails(s)
  <2>1. SetPhase(s, "failed") /\ run[s].phase = "applying"
    BY <1>2 DEF ApplyFails
  <2>2. run'[s].phase = "failed" /\ run'[s].target = run[s].target
        /\ run'[s].onto = run[s].onto
    BY <2>1, PhaseFacts DEF IInv, Phase
  <2>3. MergeIsLegal(s)'
    BY <1>1, <2>1, <2>2 DEF IInv, MergesAreLegal, MergeIsLegal, Node
  <2>4. FlushIsLegal(s)'
    BY <2>2 DEF FlushIsLegal
  <2> QED BY <1>1, <2>1, <2>3, <2>4, MoveOnStep DEF Phase
<1>3. CASE WriteFails(s)
  <2>1. SetPhase(s, "thrown")
    BY <1>3 DEF WriteFails
  <2>2. run'[s].phase = "thrown"
    BY <2>1, PhaseFacts DEF IInv, Phase
  <2>3. MergeIsLegal(s)' /\ FlushIsLegal(s)'
    BY <2>2 DEF MergeIsLegal, FlushIsLegal
  <2> QED BY <1>1, <2>1, <2>3, MoveOnStep DEF Phase
<1> QED BY <1>2, <1>3

\* The batch of a flush has the writes of all members, all of them committed.
LEMMA EncodeStep ==
    ASSUME IInv, NEW s \in Store, Encode(s)
    PROVE  IInv'
<1> DEFINE t == run[s].target
           c == Dep(t)
<1>1. /\ run[s].phase = "flushing"
      /\ run' = [run EXCEPT ![s].phase = "writing", ![s].batch = Batch(s)]
      /\ UNCHANGED <<state, call, joined, ctx, flushable, infoVars, queue, turn, dataVars>>
      /\ \A m : Dep(m)' = Dep(m)
  BY DEF Encode, Dep
<1>2. t \in Tx /\ c # Null /\ Members(c) \subseteq flushable[c] /\ c \in Comb /\ c \in joined
  <2>1. FlushIsLegal(s)
    BY DEF IInv, FlushesAreLegal
  <2> QED BY <1>1, <2>1, TargetIsClosed DEF FlushIsLegal, IInv
<1>3. Batch(s) = UNION {holds[m] : m \in Members(c)}
  BY DEF Batch
<1> HIDE DEF c, t
<1>4. \A m \in Members(c) : m \in Tx /\ m \in closed /\ Dep(m) = c /\ m \in holds[m]
                             /\ \A x \in holds[m] : x # m => Dep(x) = Null /\ x \in closed
  BY <1>2 DEF IInv, MembersAreReady, HoldsAreLegal, Members, Dep
<1>5. /\ Batch(s) \subseteq Tx /\ Members(c) \subseteq Batch(s) /\ Batch(s) \subseteq closed
      /\ \A m \in Batch(s) : Dep(m) \in {Null, c}
  <2>1. \A x \in Batch(s) : \E m \in Members(c) : x \in holds[m]
    BY <1>3
  <2>2. closed \subseteq Tx
    BY DEF IInv, TypeOK
  <2>3. \A x \in Batch(s) : x \in closed /\ Dep(x) \in {Null, c}
    BY <1>4, <2>1
  <2>4. \A m \in Members(c) : m \in Batch(s)
    BY <1>3, <1>4
  <2> QED BY <2>2, <2>3, <2>4
<1>6. /\ run' \in [Store -> Running]
      /\ run'[s].phase = "writing" /\ run'[s].batch = Batch(s) /\ run'[s].target = t
      /\ \A x \in Store : x # s => run'[x] = run[x]
      /\ \A x \in Store : run'[x].tx = run[x].tx
  <2>1. run \in [Store -> Running] /\ run[s] \in Running
    BY DEF IInv, TypeOK
  <2>2. run'[s] = [run[s] EXCEPT !.phase = "writing", !.batch = Batch(s)]
        /\ \A x \in Store : x # s => run'[x] = run[x]
    BY <1>1, <2>1
  <2>3. run'[s] \in Running /\ run'[s].phase = "writing" /\ run'[s].batch = Batch(s)
        /\ run'[s].target = t /\ run'[s].tx = run[s].tx
    BY <1>5, <2>1, <2>2 DEF Running, Phase, t
  <2>4. run' \in [Store -> Running]
    <3>1. run' = [x \in Store |-> run'[x]]
      BY <1>1, <2>1
    <3> QED BY <2>1, <2>2, <2>3, <3>1
  <2> QED BY <2>2, <2>3, <2>4
<1>7. /\ Registered' /\ JobsAreLegal' /\ MembersAreReady' /\ ReportsStayTrue'
      /\ \A x : Layers(x)' = Layers(x)
      /\ \A m \in closed : Dep(m)' = Dep(m)
      /\ UNCHANGED <<parent, children, closed, known, stack>>
  BY <1>1, <1>6, SynchronizerStep
<1>8. MergesAreLegal'
  <2>1. MergeIsLegal(s)'
    BY <1>6 DEF MergeIsLegal
  <2> QED BY <1>6, <1>7, <2>1, MergesStep DEF IInv
<1>9. FlushesAreLegal'
  <2>1. Dep(run[s].target)' = c
    <3>1. Dep(t) = c
      BY DEF c
    <3>2. run'[s].target = t
      BY <1>6
    <3> QED BY <1>1, <3>1, <3>2 DEF Dep
  <2>2. FlushIsLegal(s)'
    BY <1>1, <1>2, <1>5, <1>6, <1>7, <2>1 DEF FlushIsLegal, Members
  <2> QED BY <1>1, <1>6, <1>7, <2>2, FlushesStep DEF IInv
<1>10. HoldsAreLegal' /\ AllOrNothing'
  BY <1>1, <1>7, HoldsUnchanged DEF IInv, AllOrNothing, Members, dataVars
<1>11. TypeOK'
  BY <1>1, <1>6, <1>7 DEF IInv, TypeOK, dataVars
<1> QED BY <1>7, <1>8, <1>9, <1>10, <1>11 DEF IInv

\* The batch is written: all members of one combined transaction and none of another.
LEMMA WriteBatchStep ==
    ASSUME IInv, NEW s \in Store, WriteBatch(s)
    PROVE  IInv'
<1> DEFINE t == run[s].target
           c == Dep(t)
<1>1. /\ run[s].phase = "writing" /\ SetPhase(s, "written")
      /\ persisted' = persisted \cup run[s].batch
      /\ UNCHANGED <<state, call, joined, ctx, flushable, infoVars, queue, turn, holds>>
      /\ \A m : Dep(m)' = Dep(m)
  BY DEF WriteBatch, Dep
<1>2. /\ t \in Tx /\ c # Null /\ Members(c) \subseteq flushable[c]
      /\ Members(c) \subseteq run[s].batch /\ run[s].batch \subseteq closed
      /\ \A m \in run[s].batch : Dep(m) \in {Null, c}
  BY <1>1 DEF IInv, FlushesAreLegal, FlushIsLegal
<1>3. /\ run' \in [Store -> Running]
      /\ run'[s].phase = "written" /\ run'[s].target = t
      /\ \A x \in Store : x # s => run'[x] = run[x]
      /\ \A x \in Store : run'[x].tx = run[x].tx
  BY <1>1, PhaseFacts DEF IInv, Phase
<1>4. /\ Registered' /\ JobsAreLegal' /\ MembersAreReady' /\ ReportsStayTrue'
      /\ \A x : Layers(x)' = Layers(x)
      /\ \A m \in closed : Dep(m)' = Dep(m)
      /\ UNCHANGED <<parent, children, closed, known, stack>>
  BY <1>1, <1>3, SynchronizerStep
<1>5. MergesAreLegal'
  <2>1. MergeIsLegal(s)'
    BY <1>3 DEF MergeIsLegal
  <2> QED BY <1>3, <1>4, <2>1, MergesStep DEF IInv
<1> HIDE DEF t
<1>6. FlushesAreLegal'
  <2>1. Dep(run[s].target)' = c
    <3>1. run'[s].target = t
      BY <1>3
    <3> QED BY <1>1, <3>1 DEF Dep
  <2>2. FlushIsLegal(s)'
    BY <1>1, <1>2, <1>3, <2>1 DEF FlushIsLegal, Members
  <2> QED BY <1>1, <1>3, <1>4, <2>2, FlushesStep DEF IInv
<1> HIDE DEF c
<1>7. HoldsAreLegal'
  BY <1>1, <1>2, <1>4 DEF IInv, HoldsAreLegal
<1>8. AllOrNothing'
  <2> SUFFICES ASSUME NEW d \in joined
      PROVE  Members(d) \cap persisted' = {} \/ Members(d) \subseteq persisted'
    BY <1>1 DEF AllOrNothing, Members
  <2>1. Members(d) \cap persisted = {} \/ Members(d) \subseteq persisted
    BY DEF IInv, AllOrNothing
  <2>2. CASE d = c
    BY <1>1, <1>2, <2>2
  <2>3. CASE d # c
    <3>1. \A m \in Members(d) : Dep(m) = d /\ d # Null
      BY CombinedAssumption DEF Members, Dep, IInv, TypeOK
    <3>2. Members(d) \cap run[s].batch = {}
      BY <1>2, <2>3, <3>1
    <3> QED BY <1>1, <2>1, <3>2
  <2> QED BY <2>2, <2>3
<1>9. TypeOK'
  <2>1. persisted' \subseteq Tx
    BY <1>1, <1>2 DEF IInv, TypeOK
  <2> QED BY <1>1, <1>3, <1>4, <2>1 DEF IInv, TypeOK
<1> QED BY <1>4, <1>5, <1>6, <1>7, <1>8, <1>9 DEF IInv

\* A synchronizer asks whether t can be merged: t is a layer, or has been one and is
\* a backend by now.
LEMMA AttemptStep ==
    ASSUME IInv, NEW s \in Store, NEW kind \in {"merge", "all"}, NEW tx \in Tx \cup {Null},
           NEW end \in {"top", "bottom"}, NEW t \in Tx, t \in closed, StoreOf[t] = s,
           tx \in Tx => Awaiting(tx),
           Attempt(s, kind, tx, end, t),
           UNCHANGED <<state, call, joined, ctx, infoVars, turn, dataVars>>,
           queue' \in [Store -> Seq(Job)],
           \A x \in Store : \A i \in DOMAIN queue'[x] :
             \E j \in DOMAIN queue[x] : queue'[x][i] = queue[x][j]
    PROVE  IInv'
<1> USE CombinedAssumption
<1> DEFINE all == \A c \in {Dep(t)} : Members(c) \subseteq flushable[c] \cup {t}
           phase == IF t \notin known THEN "thrown"
                    ELSE IF ~Flushable(t) THEN "false"
                    ELSE IF Dep(t) = Null THEN "applying"
                    ELSE IF all THEN "flushing" ELSE "false"
           job == [kind |-> kind, tx |-> tx, end |-> end, target |-> t,
                   onto |-> IF phase = "applying" THEN parent[t] ELSE Null,
                   batch |-> {}, phase |-> phase]
<1>1. /\ run' = [run EXCEPT ![s] = job]
      /\ flushable' = IF Reports(t) THEN [flushable EXCEPT ![Dep(t)] = @ \cup {t}] ELSE flushable
  BY DEF Attempt
<1>2. /\ UNCHANGED <<parent, children, closed, known, stack>>
      /\ \A x : Layers(x)' = Layers(x)
      /\ \A x \in Tx : Usable(x)' <=> Usable(x)
      /\ \A x : Dep(x)' = Dep(x)
  BY DEF infoVars, Layers, Usable, Dep
<1>3. /\ t \in known /\ Flushable(t) => /\ t \in Layers(s) /\ parent[t] \in Node
                                        /\ children[parent[t]] \subseteq closed
      /\ Reports(t) => /\ Dep(t) \in joined /\ Dep(t) \in Comb /\ Dep(t) = MemberOf[t]
                       /\ t \in known /\ Flushable(t) /\ Dep(t) # Null
  <2>1. Flushable(t) => t \in Layers(s)
    BY DEF IInv, Registered, Flushable
  <2>2. t \in Layers(s) => parent[t] \in Node
    <3>1. t \in Layers(s) => parent[t] \in Layers(s) \cup {s} /\ Layers(s) \subseteq Tx
      BY StackFacts DEF IInv
    <3> QED BY <3>1 DEF Node
  <2> QED BY <2>1, <2>2 DEF Flushable, NoOpenChildren, Reports, Dep
<1>4. job \in Running /\ job.phase = phase /\ job.target = t /\ job.tx = tx
      /\ phase \in {"thrown", "false", "applying", "flushing"}
      /\ job.onto = IF phase = "applying" THEN parent[t] ELSE Null
  <2>1. phase = "applying" => parent[t] \in Node
    BY <1>3
  <2>2. phase \in {"thrown", "false", "applying", "flushing"}
    OBVIOUS
  <2>3. (IF phase = "applying" THEN parent[t] ELSE Null) \in Node \cup {Null}
    BY <2>1
  <2> HIDE DEF phase
  <2> QED BY <2>2, <2>3 DEF Running, Phase
<1>5. /\ phase = "applying" => t \in known /\ Flushable(t) /\ Dep(t) = Null
      /\ phase = "flushing" => /\ t \in known /\ Flushable(t) /\ Dep(t) # Null
                               /\ Members(Dep(t)) \subseteq flushable[Dep(t)] \cup {t}
  OBVIOUS
<1> HIDE DEF job, phase, all
<1>6. /\ run' \in [Store -> Running] /\ run'[s] = job
      /\ \A x \in Store : x # s => run'[x] = run[x]
  BY <1>1, <1>4 DEF IInv, TypeOK
<1>7. /\ \A c \in Comb : flushable'[c] =
           IF Reports(t) /\ c = Dep(t) THEN flushable[c] \cup {t} ELSE flushable[c]
      /\ flushable' \in [Comb -> SUBSET Tx]
  <2>1. flushable \in [Comb -> SUBSET Tx]
    BY DEF IInv, TypeOK
  <2>2. CASE Reports(t)
    <3>1. flushable' = [flushable EXCEPT ![Dep(t)] = @ \cup {t}] /\ Dep(t) \in Comb
      BY <1>1, <1>3, <2>2
    <3> QED BY <2>1, <2>2, <3>1
  <2>3. CASE ~Reports(t)
    BY <1>1, <2>1, <2>3
  <2> QED BY <2>2, <2>3
<1>8. Registered'
  BY <1>2, NodesUnchanged DEF IInv, Registered
<1>9. JobsAreLegal'
  <2>1. run'[s].tx = tx
    BY <1>4, <1>6
  <2>2. \A x \in Store : x # s => run'[x].tx = run[x].tx
    BY <1>6
  <2>3. \A x \in Store : run[x].tx \in Tx => Awaiting(run[x].tx)
    BY DEF Awaiting
  <2>4. \A x \in Store : run'[x].tx \in Tx => Awaiting(run'[x].tx)
    BY <2>1, <2>2, <2>3
  <2> QED BY <1>2, <2>4, JobsStep DEF IInv, JobsAreLegal
<1>10. MergesAreLegal'
  <2>1. MergeIsLegal(s)'
    <3>1. run'[s].phase = phase /\ run'[s].target = t /\ run'[s].onto = job.onto
      BY <1>4, <1>6
    <3>2. phase = "applying" => t \in Layers(s) /\ Dep(t) = Null /\ job.onto \in Node
      BY <1>3, <1>4, <1>5
    <3> QED BY <1>2, <1>4, <3>1, <3>2 DEF MergeIsLegal, Node
  <2> QED BY <1>2, <1>6, <2>1, MergesStep DEF IInv
<1>11. FlushesAreLegal'
  <2>1. FlushIsLegal(s)'
    <3>1. run'[s].phase = phase /\ run'[s].target = t
      BY <1>4, <1>6
    <3>2. ASSUME phase = "flushing"
          PROVE  Members(Dep(t)) \subseteq flushable'[Dep(t)] /\ Dep(t) # Null
      <4>1. Reports(t)
        BY <1>5, <3>2 DEF Reports
      <4> QED BY <1>3, <1>5, <1>7, <3>2, <4>1
    <3>3. Dep(run[s].target)' = Dep(t)
      BY <1>2, <3>1 DEF Dep
    <3> QED BY <1>4, <3>1, <3>2, <3>3 DEF FlushIsLegal, Members
  <2>2. \A c \in Comb : flushable[c] \subseteq flushable'[c]
    BY <1>7
  <2> QED BY <1>2, <1>6, <2>1, <2>2, FlushesStep DEF IInv
<1>12. MembersAreReady'
  <2>1. \A c \in Comb : \A x \in flushable'[c] : MemberOf[x] = c /\ c \in joined /\ x \in closed
    BY <1>3, <1>7 DEF IInv, MembersAreReady
  <2> QED BY <1>2, <2>1 DEF IInv, MembersAreReady, Members, TypeOK
<1>13. ReportsStayTrue'
  <2>1. ASSUME NEW c \in joined, NEW x \in flushable'[c] \cap known
        PROVE  x \in Layers(StoreOf[x]) /\ Flushable(x)
    <3>1. c \in Comb
      BY DEF IInv, TypeOK
    <3>2. CASE x \in flushable[c]
      BY <2>1, <3>2 DEF IInv, ReportsStayTrue
    <3>3. CASE x \notin flushable[c]
      <4>1. x = t /\ Reports(t)
        BY <1>7, <2>1, <3>1, <3>3
      <4> QED BY <1>3, <4>1
    <3> QED BY <3>2, <3>3
  <2> QED BY <1>2, <2>1 DEF ReportsStayTrue, Flushable, NoOpenChildren
<1>14. HoldsAreLegal' /\ AllOrNothing'
  BY <1>2, HoldsUnchanged DEF IInv, AllOrNothing, Members, dataVars
<1>15. TypeOK'
  BY <1>2, <1>6, <1>7 DEF IInv, TypeOK, dataVars
<1> QED BY <1>8, <1>9, <1>10, <1>11, <1>12, <1>13, <1>14, <1>15 DEF IInv

\* A step that neither starts nor moves a merge or a flush: the job of s is replaced
\* by one that has nothing under way, and a call may have thrown.
LEMMA ReplaceJobStep ==
    ASSUME IInv, NEW s \in Store, NEW job \in Running, job.phase \in {"idle", "false"},
           run' = [run EXCEPT ![s] = job],
           job.tx \in Tx => Awaiting(job.tx),
           UNCHANGED <<state, joined, ctx, flushable, infoVars, turn, dataVars>>,
           queue' \in [Store -> Seq(Job)],
           \A x \in Store : \A i \in DOMAIN queue'[x] :
             \E j \in DOMAIN queue[x] : queue'[x][i] = queue[x][j],
           \/ call' = call
           \/ \E t \in Tx : Awaiting(t) /\ call' = [call EXCEPT ![t] = "threw"]
    PROVE  IInv'
<1>1. /\ UNCHANGED <<parent, children, closed, known, stack>>
      /\ \A x : Layers(x)' = Layers(x)
      /\ \A x : Dep(x)' = Dep(x)
  BY DEF infoVars, Layers, Dep
<1>2. \A x \in Tx : \/ call'[x] = call[x]
                    \/ call[x] # "none" /\ call'[x] = "threw"
  BY DEF IInv, TypeOK, JobsAreLegal
<1>3. \A x \in Tx : Usable(x)' <=> Usable(x)
  BY <1>2 DEF Usable
<1>4. Registered'
  <2>1. closed \subseteq Tx
    BY DEF IInv, TypeOK
  <2>2. \A x \in closed : call'[x] \in {"none", "commit", "threw"} /\ state'[x] # "none"
    BY <1>2, <2>1 DEF IInv, Registered
  <2>3. \A x \in Tx : state'[x] = "none" => call'[x] = "none"
    BY <1>2 DEF IInv, Registered
  <2> QED BY <1>3, <2>2, <2>3, NodesUnchanged DEF IInv
<1>5. /\ run' \in [Store -> Running] /\ run'[s] = job
      /\ \A x \in Store : x # s => run'[x] = run[x]
  BY DEF IInv, TypeOK
<1>6. JobsAreLegal'
  <2>1. \A x \in Store : run'[x].tx \in Tx => Awaiting(run'[x].tx)
    BY <1>5 DEF Awaiting
  <2>2. \A x \in Tx : Awaiting(x) => call'[x] # "none"
    BY <1>2 DEF IInv, JobsAreLegal
  <2> QED BY <1>1, <2>1, <2>2, JobsStep DEF IInv
<1>7. MergesAreLegal'
  <2>1. MergeIsLegal(s)'
    BY <1>5 DEF MergeIsLegal
  <2> QED BY <1>1, <1>5, <2>1, MergesStep DEF IInv
<1>8. FlushesAreLegal'
  <2>1. FlushIsLegal(s)'
    BY <1>5 DEF FlushIsLegal
  <2> QED BY <1>1, <1>5, <2>1, FlushesStep DEF IInv
<1>9. MembersAreReady'
  BY <1>1, <1>3 DEF IInv, MembersAreReady, Members, TypeOK
<1>10. ReportsStayTrue'
  BY <1>1, ReportsStep DEF IInv
<1>11. HoldsAreLegal' /\ AllOrNothing'
  BY <1>1, HoldsUnchanged DEF IInv, AllOrNothing, Members, dataVars
<1>12. TypeOK'
  <2>1. call' \in [Tx -> {"none", "commit", "abort", "conflict", "threw"}]
    BY DEF IInv, TypeOK
  <2> QED BY <1>1, <1>5, <2>1 DEF IInv, TypeOK, dataVars
<1> QED BY <1>4, <1>6, <1>7, <1>8, <1>9, <1>10, <1>11, <1>12 DEF IInv

LEMMA StartJobStep ==
    ASSUME IInv, NEW s \in Store, StartJob(s)
    PROVE  IInv'
<1> USE CombinedAssumption
<1> DEFINE job == Head(queue[s])
<1>1. /\ queue[s] # <<>> /\ queue' = [queue EXCEPT ![s] = Tail(@)]
      /\ UNCHANGED <<state, call, joined, ctx, infoVars, turn, dataVars>>
      /\ \/ job.kind = "merge" /\ Attempt(s, "merge", job.tx, "top", job.tx)
         \/ job.kind # "merge" /\ stack[s] # <<>> /\ Attempt(s, "all", job.tx, "top", Top(s))
         \/ /\ run' = [run EXCEPT ![s] = [Idle EXCEPT !.kind = "all", !.tx = job.tx,
                                              !.end = "bottom", !.phase = "false"]]
            /\ UNCHANGED flushable
  BY DEF StartJob, JobStarts
<1> HIDE DEF job
<1>2. /\ job \in Job /\ job = queue[s][1] /\ 1 \in DOMAIN queue[s]
      /\ Tail(queue[s]) \in Seq(Job)
      /\ \A i \in DOMAIN Tail(queue[s]) :
           i + 1 \in DOMAIN queue[s] /\ Tail(queue[s])[i] = queue[s][i + 1]
  <2>1. queue[s] \in Seq(Job)
    BY DEF IInv, TypeOK
  <2> QED BY <1>1, <2>1 DEF job
<1>3. /\ job.kind \in {"merge", "all"} /\ job.tx \in Tx \cup {Null}
      /\ job.kind = "merge" => job.tx \in closed /\ StoreOf[job.tx] = s
      /\ job.tx \in Tx => Awaiting(job.tx)
  BY <1>2 DEF Job, IInv, JobsAreLegal, Awaiting
<1>4. queue' \in [Store -> Seq(Job)]
  BY <1>1, <1>2 DEF IInv, TypeOK
<1>5. \A x \in Store : \A i \in DOMAIN queue'[x] :
        \E j \in DOMAIN queue[x] : queue'[x][i] = queue[x][j]
  <2> SUFFICES ASSUME NEW x \in Store, NEW i \in DOMAIN queue'[x]
      PROVE  \E j \in DOMAIN queue[x] : queue'[x][i] = queue[x][j]
    OBVIOUS
  <2>1. CASE x = s
    <3>1. queue'[s] = Tail(queue[s])
      BY <1>1 DEF IInv, TypeOK
    <3> QED BY <1>2, <2>1, <3>1
  <2>2. CASE x # s
    <3>1. queue'[x] = queue[x]
      BY <1>1, <2>2 DEF IInv, TypeOK
    <3> QED BY <3>1
  <2> QED BY <2>1, <2>2
<1>6. CASE job.kind = "merge" /\ Attempt(s, "merge", job.tx, "top", job.tx)
  <2>1. job.tx \in Tx
    BY <1>3, <1>6 DEF IInv, TypeOK
  <2> QED BY <1>1, <1>3, <1>4, <1>5, <1>6, <2>1, AttemptStep
<1>7. CASE stack[s] # <<>> /\ Attempt(s, "all", job.tx, "top", Top(s))
  <2>1. Top(s) \in Layers(s) /\ Top(s) \in closed /\ Top(s) \in Tx /\ StoreOf[Top(s)] = s
    BY <1>7, StackFacts DEF IInv
  <2> HIDE DEF Top
  <2>2. PICK t : t = Top(s)
    OBVIOUS
  <2> QED BY <1>1, <1>3, <1>4, <1>5, <1>7, <2>1, <2>2, AttemptStep
<1>8. CASE run' = [run EXCEPT ![s] = [Idle EXCEPT !.kind = "all", !.tx = job.tx,
                                         !.end = "bottom", !.phase = "false"]]
           /\ UNCHANGED flushable
  <2> DEFINE new == [Idle EXCEPT !.kind = "all", !.tx = job.tx,
                                 !.end = "bottom", !.phase = "false"]
  <2>1. new \in Running /\ new.phase = "false" /\ new.tx = job.tx
    BY <1>3 DEF Idle, Running, Phase
  <2>2. run' = [run EXCEPT ![s] = new]
    BY <1>8
  <2>3. new.tx \in Tx => Awaiting(new.tx)
    BY <1>3, <2>1
  <2>4. UNCHANGED <<state, joined, ctx, flushable, infoVars, turn, dataVars>> /\ call' = call
    BY <1>1, <1>8
  <2> HIDE DEF new
  <2>5. new.phase \in {"idle", "false"}
    BY <2>1
  <2> QED BY <1>4, <1>5, <2>1, <2>2, <2>3, <2>4, <2>5, ReplaceJobStep
<1> QED BY <1>1, <1>6, <1>7, <1>8

LEMMA ContinueStep ==
    ASSUME IInv, NEW s \in Store, Continue(s)
    PROVE  IInv'
<1>1. PICK end \in {"top", "bottom"} :
        Attempt(s, "all", run[s].tx, end, IF end = "top" THEN Top(s) ELSE stack[s][1])
  BY DEF Continue
<1>2. stack[s] # <<>> /\ UNCHANGED <<state, call, joined, ctx, infoVars, queue, turn, dataVars>>
  BY DEF Continue
<1>3. PICK t : t = IF end = "top" THEN Top(s) ELSE stack[s][1]
  OBVIOUS
<1>4. PICK tx : tx = run[s].tx
  OBVIOUS
<1>5. t \in Layers(s) /\ t \in closed /\ t \in Tx /\ StoreOf[t] = s
  BY <1>2, <1>3, StackFacts DEF IInv
<1>6. tx \in Tx \cup {Null} /\ (tx \in Tx => Awaiting(tx))
  <2>1. run[s] \in Running
    BY DEF IInv, TypeOK
  <2> QED BY <1>4, <2>1 DEF Running, Awaiting
<1>7. Attempt(s, "all", tx, end, t)
  BY <1>1, <1>3, <1>4
<1>8. queue' = queue /\ queue \in [Store -> Seq(Job)]
  BY <1>2 DEF IInv, TypeOK
<1> QED BY <1>2, <1>5, <1>6, <1>7, <1>8, AttemptStep

LEMMA EndJobStep ==
    ASSUME IInv, NEW s \in Store, EndJob(s)
    PROVE  IInv'
<1>1. /\ run' = [run EXCEPT ![s] = Idle]
      /\ UNCHANGED <<state, joined, ctx, flushable, infoVars, queue, turn, dataVars>>
      /\ \/ call' = call
         \/ run[s].tx # Null /\ call' = [call EXCEPT ![run[s].tx] = "threw"]
  BY DEF EndJob
<1>2. Idle \in Running /\ Idle.phase = "idle" /\ Idle.tx \notin Tx
  BY CombinedAssumption DEF Idle, Running, Phase
<1>3. run[s].tx \in Tx \cup {Null} /\ (run[s].tx \in Tx => Awaiting(run[s].tx))
  <2>1. run[s] \in Running
    BY DEF IInv, TypeOK
  <2> QED BY <2>1 DEF Running, Awaiting
<1>4. \/ call' = call
      \/ \E t \in Tx : Awaiting(t) /\ call' = [call EXCEPT ![t] = "threw"]
  BY <1>1, <1>3
<1>5. queue' = queue /\ queue \in [Store -> Seq(Job)]
  BY <1>1 DEF IInv, TypeOK
<1> HIDE DEF Idle
<1> QED BY <1>1, <1>2, <1>4, <1>5, ReplaceJobStep

-----------------------------------------------------------------------------
(***************************************************************************)
(* The theorems                                                            *)
(***************************************************************************)

\* Every step of a client, of a member or of a synchronizer, and every stuttering
\* step, keeps the inductive invariant.
LEMMA NextStep == IInv /\ [Next]_vars => IInv'
<1> SUFFICES ASSUME IInv, [Next]_vars PROVE IInv'
  OBVIOUS
<1>1. CASE Client
  BY <1>1, OpenStep, CommitStep, CombineStep, CombinedCallStep DEF Client
<1>2. CASE MemberStep
  BY <1>2, MembersStep
<1>3. ASSUME NEW s \in Store, Synchronizer(s) PROVE IInv'
  BY <1>3, StartJobStep, ApplyStep, FailStep, LayerCleanupStep, EncodeStep, WriteBatchStep,
     CallbacksStep, ContinueStep, EndJobStep DEF Synchronizer
<1>4. ASSUME NEW t \in Tx, Finish(t) PROVE IInv'
  BY <1>4, FinishStep
<1>5. ASSUME NEW c \in Comb, Checked(c) \/ CombinedDone(c) PROVE IInv'
  BY <1>5, CombinedCallStep
<1>6. CASE UNCHANGED vars
  <2>1. /\ UNCHANGED <<state, call, joined, ctx, flushable, infoVars, queue, run, turn, dataVars>>
        /\ \A s : Layers(s)' = Layers(s)
        /\ \A t : Usable(t)' <=> Usable(t)
    BY <1>6 DEF vars, Layers, Usable, infoVars, dataVars
  <2>2. /\ Registered' /\ JobsAreLegal' /\ MembersAreReady' /\ ReportsStayTrue'
    BY <2>1, SynchronizerStep
  <2>3. MergesAreLegal' /\ FlushesAreLegal' /\ HoldsAreLegal' /\ AllOrNothing'
    BY <2>1, CallStep DEF infoVars
  <2>4. TypeOK'
    BY <2>1 DEF IInv, TypeOK, infoVars, dataVars
  <2> QED BY <2>2, <2>3, <2>4 DEF IInv
<1> QED BY <1>1, <1>2, <1>3, <1>4, <1>5, <1>6 DEF Next

\* The inductive invariant holds in every state of every behaviour.
THEOREM InductiveInvariant == Spec => []IInv
<1> QED BY InitStep, NextStep, PTL DEF Spec

\* Type correctness of the combined transactions and of the stores they span.
THEOREM TypeCorrect == Spec => []TypeOK
<1>1. IInv => TypeOK
  BY DEF IInv
<1> QED BY <1>1, InductiveInvariant, PTL

\* Whatever transactions of whichever stores do meanwhile, however many combined
\* transactions share a store, and wherever a write fails: of the members of a combined
\* transaction all are in the database or none.
THEOREM CombinedIsAtomic == Spec => []AllOrNothing
<1>1. IInv => AllOrNothing
  BY DEF IInv
<1> QED BY <1>1, InductiveInvariant, PTL

\* A member that has reported itself flushable is still a layer right on the backend,
\* without open siblings, when another store's synchronizer acts on the report.
THEOREM ReportsStandUntilFlushed == Spec => []ReportsStayTrue
<1>1. IInv => ReportsStayTrue
  BY DEF IInv
<1> QED BY <1>1, InductiveInvariant, PTL

\* The stacks stay chains although the synchronizers of other stores take layers off them.
THEOREM StacksStayChains == Spec => []StacksAreChains
<1>1. IInv => StacksAreChains
  <2> SUFFICES ASSUME IInv, NEW s \in Store
      PROVE  /\ \A i \in DOMAIN stack[s] :
                  parent[stack[s][i]] = IF i = 1 THEN s ELSE stack[s][i - 1]
             /\ children[Top(s)] \cap closed = {}
    BY DEF StacksAreChains
  <2>1. Linked(stack[s], parent, s)
    BY DEF IInv, Registered, StackIsChain
  <2> QED BY <2>1, ChildFacts DEF IInv, Linked
<1> QED BY <1>1, InductiveInvariant, PTL

=============================================================================
