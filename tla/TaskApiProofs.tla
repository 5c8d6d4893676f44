---------------------------- MODULE TaskApiProofs ---------------------------
(***************************************************************************)
(* What a step of TaskApi may never do, for any number of tasks, clients,  *)
(* titles, keys and versions.  The condition of a write compares version   *)
(* numbers only; the invariant says why that is enough: the version of a   *)
(* task never comes back, so an equal version means the same whole item.   *)
(***************************************************************************)
EXTENDS TaskApi, TLAPS

\* A request under way is about an id that was drawn, with an argument that
\* fits its operation.
RequestInv ==
  \A k \in Clients : req[k].at # "done" =>
    /\ Task(k) \in used
    /\ req[k].op = "put" => req[k].new \in Titles
    /\ req[k].op = "attach" => req[k].new \in Keys

\* An item that was read existed.  As long as the task does, its version is at
\* least the one read, and while it is the one read the item is the one read.
ReadInv ==
  \A k \in Clients : req[k].at = "write" =>
    /\ req[k].read.version > 0
    /\ Exists(Task(k)) => req[k].read.version <= item[Task(k)].version
    /\ Unchanged(k) => item[Task(k)] = req[k].read

IInv == TypeOK /\ RequestInv /\ ReadInv

-----------------------------------------------------------------------------
\* No task, no request at first.
LEMMA InitIInv == Init => IInv
<1> SUFFICES ASSUME Init PROVE IInv
  OBVIOUS
<1>1. Missing \in Items
  BY VersionAssumption DEF Missing, Items
<1>2. TypeOK
  BY <1>1 DEF Init, TypeOK, Requests, Missing
<1>3. RequestInv /\ ReadInv
  BY DEF Init, RequestInv, ReadInv
<1> QED BY <1>2, <1>3 DEF IInv

\* What the invariant says of the types of a request.
LEMMA RequestTypes ==
  ASSUME TypeOK, NEW k \in Clients
  PROVE  /\ req[k] \in Requests /\ Task(k) \in Tasks
         /\ req[k].read \in Items /\ item[Task(k)] \in Items
         /\ (Exists(Task(k)) <=> item[Task(k)].version > 0)
BY DEF TypeOK, Requests, Task, Items, Exists, Missing

\* An answer ends the request and forgets what it has read.
LEMMA RespondTypes ==
  ASSUME TypeOK, NEW k \in Clients, NEW status \in {200, 204, 404, 500}, Respond(k, status)
  PROVE  /\ req' \in [Clients -> Requests]
         /\ answer' \in [Clients -> {0, 200, 201, 204, 404, 500}]
         /\ req'[k].at = "done"
         /\ \A j \in Clients \ {k} : req'[j] = req[j]
<1>1. Missing \in Items
  BY VersionAssumption DEF Missing, Items
<1>2. answer' \in [Clients -> {0, 200, 201, 204, 404, 500}]
  BY DEF Respond, TypeOK
<1>3. req \in [Clients -> Requests] /\ req[k] \in Requests
  BY DEF TypeOK
<1>4. req'[k] \in Requests /\ req'[k].at = "done"
  <2>1. req' = [req EXCEPT ![k].at = "done", ![k].read = Missing]
    BY DEF Respond
  <2>2. req'[k] = [req[k] EXCEPT !.at = "done", !.read = Missing]
    BY <1>3, <2>1
  <2>3. [req[k] EXCEPT !.at = "done", !.read = Missing] \in Requests
    BY <1>1, <1>3 DEF Requests
  <2> QED BY <1>1, <1>3, <2>2, <2>3 DEF Requests
<1>5. /\ req' \in [Clients -> Requests]
      /\ \A j \in Clients \ {k} : req'[j] = req[j]
  BY <1>3, <1>4 DEF Respond
<1> QED BY <1>2, <1>4, <1>5

\* A request that ends without having written.
LEMMA RespondSteps ==
  ASSUME IInv, NEW k \in Clients, NotFound(k) \/ Get(k) \/ Conflict(k) \/ Abort(k)
  PROVE  IInv' /\ item' = item /\ used' = used
<1>1. PICK status \in {200, 404, 500} : Respond(k, status)
  BY DEF NotFound, Get, Conflict, Abort
<1>2. item' = item /\ used' = used
  BY DEF NotFound, Get, Conflict, Abort
<1>3. /\ req' \in [Clients -> Requests]
      /\ answer' \in [Clients -> {0, 200, 201, 204, 404, 500}]
      /\ req'[k].at = "done"
      /\ \A j \in Clients \ {k} : req'[j] = req[j]
  BY <1>1, RespondTypes DEF IInv
<1>4. TypeOK'
  BY <1>2, <1>3 DEF IInv, TypeOK
<1>5. RequestInv' /\ ReadInv'
  BY <1>2, <1>3 DEF IInv, RequestInv, ReadInv, Exists, Unchanged, Task
<1> QED BY <1>2, <1>4, <1>5 DEF IInv

\* A new task has an id that no request is about.
LEMMA CreateStep ==
  ASSUME IInv, NEW k \in Clients, NEW t \in Tasks, NEW title \in Titles, Create(k, t, title)
  PROVE  IInv'
<1> DEFINE new == [version |-> 1, title |-> title, key |-> None]
<1>1. new \in Items /\ new # Missing /\ new.version = 1
  BY VersionAssumption DEF Items, Missing
<1>2. /\ t \notin used /\ used' = used \cup {t} /\ req' = req
      /\ item' = [item EXCEPT ![t] = new] /\ answer' = [answer EXCEPT ![k] = 201]
  BY DEF Create
<1> HIDE DEF new
<1>3. TypeOK'
  BY <1>1, <1>2 DEF IInv, TypeOK
<1>4. RequestInv'
  BY <1>2 DEF IInv, RequestInv, Task
<1>5. ReadInv'
  <2>1. \A j \in Clients : req[j].at = "write" => Task(j) \in Tasks /\ item'[Task(j)] = item[Task(j)]
    BY <1>2, RequestTypes DEF IInv, TypeOK, RequestInv
  <2> QED BY <1>2, <2>1 DEF IInv, ReadInv, Exists, Unchanged, Task
<1> QED BY <1>3, <1>4, <1>5 DEF IInv

\* A request arrives.
LEMMA RequestStep ==
  ASSUME IInv, NEW k \in Clients, NEW t \in Tasks,
         NEW op \in {"get", "put", "attach", "delete"}, NEW new \in Arguments(op),
         Request(k, op, t, new)
  PROVE  IInv'
<1> DEFINE r == [op |-> op, task |-> t, new |-> new, at |-> "find", read |-> Missing]
<1>1. Missing \in Items
  BY VersionAssumption DEF Missing, Items
<1>2. new \in Titles \cup Keys \cup {None} /\ (op = "put" => new \in Titles)
      /\ (op = "attach" => new \in Keys)
  BY DEF Arguments
<1>3. r \in Requests
  BY <1>1, <1>2 DEF Requests
<1>4. /\ t \in used /\ item' = item /\ used' = used
      /\ req' = [req EXCEPT ![k] = r] /\ answer' = [answer EXCEPT ![k] = 0]
  BY DEF Request
<1>5. TypeOK'
  BY <1>3, <1>4 DEF IInv, TypeOK
<1>6. RequestInv'
  BY <1>2, <1>4 DEF IInv, TypeOK, RequestInv, Task
<1>7. ReadInv'
  BY <1>4 DEF IInv, TypeOK, ReadInv, Exists, Unchanged, Task
<1> QED BY <1>5, <1>6, <1>7 DEF IInv

\* The item is read as it is now.
LEMMA FindStep ==
  ASSUME IInv, NEW k \in Clients, Find(k)
  PROVE  IInv'
<1> DEFINE t == Task(k)
<1>1. req[k] \in Requests /\ t \in Tasks /\ item[t] \in Items /\ item[t].version > 0
  BY RequestTypes DEF Find, IInv
<1>2. item' = item /\ used' = used /\ answer' = answer /\ req[k].at = "find"
  BY DEF Find
<1>3. req \in [Clients -> Requests]
  BY DEF IInv, TypeOK
<1>4. /\ req' \in [Clients -> Requests] /\ req'[k].task = t /\ req'[k].read = item[t]
      /\ req'[k].op = req[k].op /\ req'[k].new = req[k].new
      /\ \A j \in Clients \ {k} : req'[j] = req[j]
  BY <1>1, <1>3 DEF Find, Requests, Task
<1>5. TypeOK'
  BY <1>2, <1>4 DEF IInv, TypeOK
<1>6. RequestInv'
  BY <1>2, <1>4 DEF IInv, RequestInv, Task
<1>7. ReadInv'
  BY <1>1, <1>2, <1>4 DEF IInv, ReadInv, Exists, Unchanged, Task, Items
<1> QED BY <1>5, <1>6, <1>7 DEF IInv

\* A deletion takes away the item, so no read of it matches any more.
LEMMA DeleteStep ==
  ASSUME IInv, NEW k \in Clients, Delete(k)
  PROVE  IInv'
<1> DEFINE t == Task(k)
<1>1. t \in Tasks /\ Missing \in Items /\ Missing.version = 0
  BY RequestTypes, VersionAssumption DEF IInv, Missing, Items
<1>2. item' = [item EXCEPT ![t] = Missing] /\ used' = used
  BY DEF Delete
<1>3. /\ req' \in [Clients -> Requests]
      /\ answer' \in [Clients -> {0, 200, 201, 204, 404, 500}]
      /\ req'[k].at = "done"
      /\ \A j \in Clients \ {k} : req'[j] = req[j]
  BY RespondTypes DEF Delete, IInv
<1>4. TypeOK'
  BY <1>1, <1>2, <1>3 DEF IInv, TypeOK
<1>5. RequestInv'
  BY <1>2, <1>3 DEF IInv, RequestInv, Task
<1>6. ReadInv'
  <2>1. \A j \in Clients : item'[Task(j)] = item[Task(j)] \/ item'[Task(j)] = Missing
    BY <1>2, RequestTypes DEF IInv, TypeOK
  <2> QED BY <1>1, <1>3, <2>1 DEF IInv, ReadInv, Exists, Unchanged, Task
<1> QED BY <1>4, <1>5, <1>6 DEF IInv

\* A write that goes through finds the very item it has read, and changes one
\* field of it and the version.
LEMMA ApplyFacts ==
  ASSUME IInv, NEW k \in Clients, Apply(k)
  PROVE  /\ item[Task(k)] = req[k].read /\ item[Task(k)] # Missing
         /\ item' = [item EXCEPT ![Task(k)] = Edited(k)]
         /\ Edited(k) \in Items /\ Edited(k) # Missing
         /\ Edited(k).version = item[Task(k)].version + 1
         /\ Edited(k).title = item[Task(k)].title \/ Edited(k).key = item[Task(k)].key
<1>1. /\ Editing(k) /\ Unchanged(k) /\ req[k].read.version < MaxVersion
      /\ item' = [item EXCEPT ![Task(k)] = Edited(k)]
  BY DEF Apply
<1>2. item[Task(k)] = req[k].read /\ req[k].read.version > 0 /\ req[k].read \in Items
  BY <1>1, RequestTypes DEF Editing, IInv, ReadInv
<1>3. (req[k].op = "put" => req[k].new \in Titles) /\ (req[k].op = "attach" => req[k].new \in Keys)
  BY <1>1 DEF Editing, IInv, RequestInv
<1>4. Edited(k) \in Items /\ Edited(k).version = req[k].read.version + 1
  BY <1>1, <1>2, <1>3, VersionAssumption DEF Edited, Items
<1>5. Edited(k).title = req[k].read.title \/ Edited(k).key = req[k].read.key
  BY DEF Edited
<1>6. Edited(k) # Missing /\ item[Task(k)] # Missing
  BY <1>2, <1>4 DEF Missing, Items
<1> QED BY <1>1, <1>2, <1>4, <1>5, <1>6

\* No two items of one task share a version, so the write leaves no read of the
\* item behind that matches it.
LEMMA ApplyStep ==
  ASSUME IInv, NEW k \in Clients, Apply(k), used' = used,
         req' \in [Clients -> Requests],
         answer' \in [Clients -> {0, 200, 201, 204, 404, 500}],
         req'[k].at = "done" \/ req'[k] = req[k],
         \A j \in Clients \ {k} : req'[j] = req[j]
  PROVE  IInv'
<1> DEFINE t == Task(k)
<1>1. t \in Tasks /\ item[t] \in Items /\ t \in used
  BY RequestTypes DEF IInv, RequestInv, Apply, Editing
<1>2. /\ item' = [item EXCEPT ![t] = Edited(k)] /\ item[t] # Missing
      /\ Edited(k) \in Items /\ Edited(k) # Missing
      /\ Edited(k).version = item[t].version + 1
  BY ApplyFacts
<1>3. Edited(k).version > item[t].version /\ Edited(k).version # 0
  BY <1>1, <1>2 DEF Items
<1>4. TypeOK'
  <2>1. item' \in [Tasks -> Items]
    BY <1>2 DEF IInv, TypeOK
  <2>2. \A u \in Tasks : item'[u] = item[u] \/ (item'[u] = Edited(k) /\ u \in used)
    BY <1>1, <1>2 DEF IInv, TypeOK
  <2> QED BY <1>2, <1>3, <2>1, <2>2 DEF IInv, TypeOK, Missing
<1>5. \A j \in Clients : req'[j].at # "done" => req'[j] = req[j]
  OBVIOUS
<1>6. RequestInv'
  BY <1>5 DEF IInv, RequestInv, Task
<1>7. ReadInv'
  <2> SUFFICES ASSUME NEW j \in Clients, req'[j].at = "write"
               PROVE  /\ req'[j].read.version > 0
                      /\ Exists(Task(j))' => req'[j].read.version <= item'[Task(j)'].version
                      /\ Unchanged(j)' => item'[Task(j)'] = req'[j].read
    BY DEF ReadInv
  <2>1. req'[j] = req[j] /\ req[j].at = "write" /\ Task(j)' = Task(j)
    BY <1>5 DEF Task
  <2>2. CASE Task(j) # t
    BY <1>2, <2>1, <2>2, RequestTypes DEF IInv, TypeOK, ReadInv, Exists, Unchanged
  <2>3. CASE Task(j) = t
    <3>1. req[j].read \in Items /\ req[j].read.version <= item[t].version /\ req[j].read.version > 0
      BY <1>2, <2>1, <2>3, RequestTypes DEF IInv, ReadInv, Exists
    <3>2. item'[t] = Edited(k)
      BY <1>1, <1>2 DEF IInv, TypeOK
    <3>3. req[j].read.version < item'[t].version
      BY <1>1, <1>2, <3>1, <3>2 DEF Items
    <3> QED BY <1>1, <1>2, <2>1, <2>3, <3>1, <3>2, <3>3 DEF Unchanged, Items
  <2> QED BY <2>2, <2>3
<1> QED BY <1>4, <1>6, <1>7 DEF IInv

\* The write is answered, or its response is lost and it will be repeated.
LEMMA WriteSteps ==
  ASSUME IInv, NEW k \in Clients, Update(k) \/ UpdateLost(k)
  PROVE  IInv'
<1>1. CASE Update(k)
  BY <1>1, ApplyStep, RespondTypes DEF Update, IInv
<1>2. CASE UpdateLost(k)
  BY <1>2, ApplyStep DEF UpdateLost, IInv, TypeOK
<1> QED BY <1>1, <1>2

LEMMA StepIInv == IInv /\ [Next]_vars => IInv'
<1> SUFFICES ASSUME IInv, [Next]_vars PROVE IInv'
  OBVIOUS
<1>1. CASE UNCHANGED vars
  BY <1>1 DEF vars, IInv, TypeOK, RequestInv, ReadInv, Exists, Unchanged, Task
<1>2. CASE Next
  BY <1>2, CreateStep, RequestStep, RespondSteps, FindStep, WriteSteps, DeleteStep DEF Next
<1> QED BY <1>1, <1>2

-----------------------------------------------------------------------------
\* A step that creates nothing leaves a task alone, writes it or deletes it.
LEMMA EditedOrSame ==
  ASSUME IInv, [Next]_vars, NEW t \in Tasks,
         ~\E k \in Clients, u \in Tasks, title \in Titles : Create(k, u, title)
  PROVE  \/ item'[t] = item[t]
         \/ \E k \in Clients : Apply(k) /\ Task(k) = t /\ item'[t] = Edited(k)
         \/ item'[t] = Missing
<1>1. CASE UNCHANGED vars
  BY <1>1 DEF vars
<1>2. ASSUME NEW k \in Clients, Update(k) \/ UpdateLost(k)
      PROVE  item'[t] = item[t] \/ (Apply(k) /\ Task(k) = t /\ item'[t] = Edited(k))
  BY <1>2 DEF Update, UpdateLost, Apply, IInv, TypeOK
<1>3. ASSUME NEW k \in Clients, Delete(k)
      PROVE  item'[t] = item[t] \/ item'[t] = Missing
  BY <1>3 DEF Delete, IInv, TypeOK
<1>4. ASSUME NEW k \in Clients, NotFound(k) \/ Get(k) \/ Conflict(k) \/ Abort(k) \/ Find(k)
      PROVE  item' = item
  BY <1>4 DEF NotFound, Get, Conflict, Abort, Find
<1>5. ASSUME NEW k \in Clients, NEW u \in Tasks, NEW op \in {"get", "put", "attach", "delete"},
             NEW new \in Arguments(op), Request(k, op, u, new)
      PROVE  item' = item
  BY <1>5 DEF Request
<1> QED BY <1>1, <1>2, <1>3, <1>4, <1>5 DEF Next

\* Every step leaves a task alone, creates it, writes it or deletes it.
LEMMA ItemSteps ==
  ASSUME IInv, [Next]_vars, NEW t \in Tasks
  PROVE  \/ item'[t] = item[t]
         \/ t \notin used /\ item[t] = Missing /\ item'[t].version = 1
         \/ \E k \in Clients : Apply(k) /\ Task(k) = t /\ item'[t] = Edited(k)
         \/ item'[t] = Missing
<1>1. ASSUME NEW k \in Clients, NEW u \in Tasks, NEW title \in Titles, Create(k, u, title)
      PROVE  item'[t] = item[t] \/ (t \notin used /\ item[t] = Missing /\ item'[t].version = 1)
  BY <1>1 DEF Create, IInv, TypeOK
<1> QED BY <1>1, EditedOrSame

-----------------------------------------------------------------------------
\* The strengthened invariant holds in every reachable state.
THEOREM Invariance == Spec => []IInv
BY InitIInv, StepIInv, PTL DEF Spec

\* A step that keeps a task changes its title or its attachment key, not both.
OneFieldAtATime ==
  [][\A t \in Tasks : item[t] # Missing /\ item'[t] # Missing =>
       item'[t].title = item[t].title \/ item'[t].key = item[t].key]_vars

\* No step undoes an edit of the other field, although every edit writes the
\* whole item (TaskService.update and attachFile).
THEOREM EditsKeepEachOther == Spec => OneFieldAtATime
<1> DEFINE A == \A t \in Tasks : item[t] # Missing /\ item'[t] # Missing =>
                  item'[t].title = item[t].title \/ item'[t].key = item[t].key
<1>1. IInv /\ [Next]_vars => A
  <2> SUFFICES ASSUME IInv, [Next]_vars, NEW t \in Tasks, item[t] # Missing, item'[t] # Missing
               PROVE  item'[t].title = item[t].title \/ item'[t].key = item[t].key
    OBVIOUS
  <2> QED BY ItemSteps, ApplyFacts
<1> HIDE DEF A
<1>2. IInv /\ [Next]_vars => [A]_vars
  BY <1>1
<1>3. Spec => [][A]_vars
  BY <1>2, Invariance, PTL DEF Spec
<1> QED BY <1>3 DEF OneFieldAtATime, A

\* Nothing that was read before a deletion brings the task back after it, and no
\* id is used twice.
THEOREM DeletedForGood == Spec => NoResurrection
<1> DEFINE A == \A t \in used : item[t] = Missing => item'[t] = Missing
<1>1. IInv /\ [Next]_vars => A
  <2> SUFFICES ASSUME IInv, [Next]_vars, NEW t \in used, item[t] = Missing
               PROVE  item'[t] = Missing
    OBVIOUS
  <2>1. t \in Tasks
    BY DEF IInv, TypeOK
  <2> QED BY <2>1, ItemSteps, ApplyFacts
<1> HIDE DEF A
<1>2. IInv /\ [Next]_vars => [A]_vars
  BY <1>1
<1>3. Spec => [][A]_vars
  BY <1>2, Invariance, PTL DEF Spec
<1> QED BY <1>3 DEF NoResurrection, A

\* Every change counts one version up, so no version is told to two writers; and
\* every variable keeps its type (Task.getVersion).
THEOREM EveryChangeCounted == Spec => VersionsCount
<1> DEFINE A == \A t \in Tasks : item'[t] # item[t] /\ item'[t] # Missing =>
                  item'[t].version = item[t].version + 1
<1>1. IInv /\ [Next]_vars => A
  <2> SUFFICES ASSUME IInv, [Next]_vars, NEW t \in Tasks, item'[t] # item[t], item'[t] # Missing
               PROVE  item'[t].version = item[t].version + 1
    OBVIOUS
  <2>1. Missing.version = 0
    BY DEF Missing
  <2> QED BY <2>1, ItemSteps, ApplyFacts
<1> HIDE DEF A
<1>2. IInv /\ [Next]_vars => [A]_vars
  BY <1>1
<1>3. IInv => TypeOK
  BY DEF IInv
<1>4. Spec => []TypeOK /\ [][A]_vars
  BY <1>2, <1>3, Invariance, PTL DEF Spec
<1> QED BY <1>4 DEF VersionsCount, A

-----------------------------------------------------------------------------
\* A stored task has the title that a client gave it (create and update set it
\* from a request that the validation requires to have one).
TitleInv == \A t \in Tasks : Exists(t) => item[t].title \in Titles

\* An edit has a title to write, or keeps the one it has found.
LEMMA StepTitleInv == IInv /\ TitleInv /\ [Next]_vars => TitleInv'
<1> SUFFICES ASSUME IInv, TitleInv, [Next]_vars, NEW t \in Tasks, item'[t] # Missing
             PROVE  item'[t].title \in Titles
  BY DEF TitleInv, Exists
<1>1. CASE item'[t] = item[t]
  BY <1>1 DEF TitleInv, Exists
<1>2. ASSUME NEW k \in Clients, NEW u \in Tasks, NEW title \in Titles, Create(k, u, title),
             item'[t] # item[t]
      PROVE  item'[t].title \in Titles
  BY <1>2 DEF Create, IInv, TypeOK
<1>3. ASSUME NEW k \in Clients, Apply(k), Task(k) = t, item'[t] = Edited(k)
      PROVE  item'[t].title \in Titles
  <2>1. item[t] = req[k].read /\ item[t].title \in Titles
    BY <1>3, ApplyFacts DEF TitleInv, Exists
  <2>2. req[k].op = "put" => req[k].new \in Titles
    BY <1>3 DEF Apply, Editing, IInv, RequestInv
  <2> QED BY <1>3, <2>1, <2>2 DEF Edited
<1>4. CASE \E k \in Clients, u \in Tasks, title \in Titles : Create(k, u, title)
  BY <1>1, <1>2, <1>4
<1>5. CASE ~\E k \in Clients, u \in Tasks, title \in Titles : Create(k, u, title)
  BY <1>1, <1>3, <1>5, EditedOrSame
<1> QED BY <1>4, <1>5

\* The invariant and the titles.
LEMMA TitleInvariance == Spec => [](IInv /\ TitleInv)
<1>1. Init => TitleInv
  BY DEF Init, TitleInv, Exists
<1> QED BY <1>1, StepTitleInv, Invariance, PTL DEF Spec

-----------------------------------------------------------------------------
\* The edits of other clients stay fresh where the row stays as it is.
LEMMA FreshElsewhere ==
  ASSUME NEW k \in Clients, NEW t \in Tasks, item'[t] = item[t],
         \A j \in Clients \ {k} : req'[j] = req[j]
  PROVE  Fresh'[t] \ {k} = Fresh[t] \ {k}
BY DEF Fresh, Editing, Task, Unchanged

\* No edit stays fresh when the row is written or deleted.
LEMMA FreshNoMore ==
  ASSUME IInv, NEW k \in Clients, NEW t \in Tasks, item[t] # Missing \/ item'[t].version = 0,
         item'[t].version = 0 \/ item'[t].version > item[t].version,
         item'[t].version \in Nat,
         \A j \in Clients : req'[j].at # "done" => req'[j] = req[j]
  PROVE  Fresh'[t] = {}
<1> SUFFICES ASSUME NEW j \in Clients, Editing(j)', Task(j)' = t, Unchanged(j)'
             PROVE  FALSE
  BY DEF Fresh
<1>1. req'[j] = req[j] /\ req[j].at = "write" /\ Task(j) = t
  BY DEF Editing, Task
<1>2. req[j].read.version > 0 /\ req[j].read \in Items /\ item[t] \in Items
      /\ (Exists(t) => req[j].read.version <= item[t].version)
  BY <1>1, RequestTypes DEF IInv, ReadInv
<1>3. item'[t].version = req[j].read.version
  BY <1>1 DEF Unchanged, Task
<1> QED BY <1>2, <1>3 DEF Items, Exists

\* A request that begins, is refused or is given up leaves the table.
LEMMA LeaveStep ==
  ASSUME IInv, NEW k \in Clients, item' = item, used' = used,
         req'[k].at # "write", \A j \in Clients \ {k} : req'[j] = req[j] /\ answer'[j] = answer[j],
         k \notin Told'
  PROVE  Table!Leave(k)
<1>1. Row' = Row
  BY DEF Row
<1>2. \A t \in Tasks : Fresh'[t] = Fresh[t] \ {k}
  <2>1. \A t \in Tasks : k \notin Fresh'[t]
    BY DEF Fresh, Editing
  <2>2. \A t \in Tasks : Fresh'[t] \ {k} = Fresh[t] \ {k}
    BY FreshElsewhere
  <2> QED BY <2>1, <2>2
<1>3. Fresh' = [t \in Tasks |-> Fresh[t] \ {k}]
  BY <1>2 DEF Fresh
<1>4. Told' = Told \ {k}
  BY DEF Told
<1> QED BY <1>1, <1>3, <1>4 DEF Table!Leave

\* A created task is on no client's hands yet.
LEMMA CreateMaps ==
  ASSUME IInv, NEW k \in Clients, NEW t \in Tasks, NEW title \in Titles, Create(k, t, title)
  PROVE  Table!Create(k, t, title)
<1>1. /\ t \notin used /\ used' = used \cup {t} /\ req' = req
      /\ item' = [item EXCEPT ![t] = [version |-> 1, title |-> title, key |-> None]]
      /\ answer' = [answer EXCEPT ![k] = 201]
  BY DEF Create
<1>2. Row' = [Row EXCEPT ![t] = [title |-> title, key |-> None]]
  BY <1>1 DEF Row, IInv, TypeOK
<1>3. \A j \in Clients : req[j].at = "write" => item'[Task(j)] = item[Task(j)]
  BY <1>1 DEF IInv, TypeOK, RequestInv
<1>4. Fresh' = Fresh
  BY <1>1, <1>3 DEF Fresh, Editing, Task, Unchanged
<1>5. Told' = Told \ {k}
  BY <1>1 DEF Told, IInv, TypeOK
<1> QED BY <1>1, <1>2, <1>4, <1>5 DEF Table!Create

\* The requests that end without having written, and those that begin.
LEMMA LeaveMaps ==
  ASSUME IInv, NEW k \in Clients,
         \/ NotFound(k) \/ Get(k) \/ Conflict(k) \/ Abort(k)
         \/ \E t \in Tasks, op \in {"get", "put", "attach", "delete"} :
              \E new \in Arguments(op) : Request(k, op, t, new)
  PROVE  Table!Leave(k)
<1>1. req \in [Clients -> Requests] /\ answer \in [Clients -> {0, 200, 201, 204, 404, 500}]
  BY DEF IInv, TypeOK
<1>2. CASE NotFound(k) \/ Conflict(k) \/ Abort(k)
  <2>1. PICK status \in {404, 500} : Respond(k, status) /\ item' = item /\ used' = used
    BY <1>2 DEF NotFound, Conflict, Abort
  <2>2. answer' = [answer EXCEPT ![k] = status] /\ answer'[k] # 200
    BY <1>1, <2>1 DEF Respond
  <2>3. req'[k].at = "done" /\ \A j \in Clients \ {k} : req'[j] = req[j]
    BY <2>1, RespondTypes DEF IInv
  <2>4. k \notin Told'
    BY <2>2 DEF Told
  <2> QED BY <2>1, <2>2, <2>3, <2>4, LeaveStep
<1>3. CASE Get(k)
  <2>1. Respond(k, 200) /\ item' = item /\ used' = used /\ req[k].op = "get"
    BY <1>3 DEF Get
  <2>2. req'[k].at = "done" /\ \A j \in Clients \ {k} : req'[j] = req[j]
    BY <2>1, RespondTypes DEF IInv
  <2>3. req'[k].op = "get" /\ \A j \in Clients \ {k} : answer'[j] = answer[j]
    BY <1>1, <2>1 DEF Respond, Requests
  <2>4. k \notin Told'
    BY <2>3 DEF Told
  <2> QED BY <2>1, <2>2, <2>3, <2>4, LeaveStep
<1>4. ASSUME NEW t \in Tasks, NEW op \in {"get", "put", "attach", "delete"},
             NEW new \in Arguments(op), Request(k, op, t, new)
      PROVE  Table!Leave(k)
  <2>1. /\ item' = item /\ used' = used /\ req'[k].at = "find" /\ answer'[k] = 0
        /\ \A j \in Clients \ {k} : req'[j] = req[j] /\ answer'[j] = answer[j]
    BY <1>1, <1>4 DEF Request
  <2>2. k \notin Told'
    BY <2>1 DEF Told
  <2> QED BY <2>1, <2>2, LeaveStep
<1> QED BY <1>2, <1>3, <1>4

\* An edit that has found its item; a deletion that has is invisible.
LEMMA FindMaps ==
  ASSUME IInv, TitleInv, NEW k \in Clients, Find(k)
  PROVE  Table!Read(k, Task(k)) \/ UNCHANGED Table!vars
<1> DEFINE t == Task(k)
<1>1. req[k] \in Requests /\ t \in Tasks /\ req[k].at = "find" /\ req[k].op # "get"
  BY RequestTypes DEF Find, IInv
<1>2. item' = item /\ used' = used /\ answer' = answer
  BY DEF Find
<1>3. /\ req'[k].task = t /\ req'[k].read = item[t] /\ req'[k].at = "write"
      /\ req'[k].op = req[k].op
      /\ \A j \in Clients \ {k} : req'[j] = req[j]
  BY <1>1 DEF Find, Requests, Task, IInv, TypeOK
<1>4. Row' = Row /\ Told' = Told
  BY <1>2, <1>3 DEF Row, Told
<1>5. Row[t] # Table!Absent
  BY <1>1, VersionAssumption DEF Find, TitleInv, Row, Table!Absent
<1>6. \A u \in Tasks : Fresh'[u] \ {k} = Fresh[u] \ {k} /\ k \notin Fresh[u]
  BY <1>1, <1>2, <1>3, FreshElsewhere DEF Fresh, Editing
<1>7. CASE req[k].op = "delete"
  <2>1. \A u \in Tasks : k \notin Fresh'[u]
    BY <1>3, <1>7 DEF Fresh, Editing
  <2>2. Fresh' = Fresh
    BY <1>6, <2>1 DEF Fresh
  <2> QED BY <1>2, <1>4, <2>2 DEF Table!vars
<1>8. CASE req[k].op \in {"put", "attach"}
  <2>1. \A u \in Tasks : k \in Fresh'[u] <=> u = t
    BY <1>2, <1>3, <1>8 DEF Fresh, Editing, Task, Unchanged
  <2>2. Fresh' = [u \in Tasks |-> IF u = t THEN Fresh[u] \cup {k} ELSE Fresh[u]]
    BY <1>6, <2>1 DEF Fresh
  <2>3. Fresh' = [Fresh EXCEPT ![t] = @ \cup {k}]
    BY <2>2 DEF Fresh
  <2> QED BY <1>2, <1>4, <1>5, <2>3 DEF Table!Read
<1> QED BY <1>1, <1>7, <1>8 DEF Requests

\* A write changes one field of the row, and no edit is fresh after it.
LEMMA EditMaps ==
  ASSUME IInv, NEW k \in Clients, Update(k) \/ UpdateLost(k)
  PROVE  Table!Edit(k, Task(k))
<1> DEFINE t == Task(k)
<1>1. /\ Apply(k) /\ Editing(k) /\ Unchanged(k) /\ used' = used
      /\ item' = [item EXCEPT ![t] = Edited(k)]
  BY DEF Update, UpdateLost, Apply
<1>2. /\ t \in Tasks /\ item[t] = req[k].read /\ item[t] # Missing
      /\ Edited(k) \in Items /\ Edited(k).version = item[t].version + 1
      /\ item[t] \in Items
  BY <1>1, ApplyFacts, RequestTypes DEF IInv
<1>3. item \in [Tasks -> Items] /\ req \in [Clients -> Requests]
      /\ answer \in [Clients -> {0, 200, 201, 204, 404, 500}]
  BY DEF IInv, TypeOK
<1>4. /\ \A j \in Clients \ {k} : req'[j] = req[j] /\ answer'[j] = answer[j]
      /\ req'[k].at = "done" \/ req'[k] = req[k]
      /\ req'[k].op = req[k].op /\ (answer'[k] = answer[k] \/ answer'[k] = 200)
  BY <1>3 DEF Update, UpdateLost, Respond, Requests
<1>5. item'[t] = Edited(k) /\ \A u \in Tasks \ {t} : item'[u] = item[u]
  BY <1>1, <1>2, <1>3
<1>6. \/ \E title \in Titles : Row' = [Row EXCEPT ![t].title = title]
      \/ \E key \in Keys : Row' = [Row EXCEPT ![t].key = key]
  <2>0. \A u \in Tasks \ {t} : Row'[u] = Row[u]
    BY <1>5 DEF Row
  <2>1. (req[k].op = "put" => req[k].new \in Titles) /\ (req[k].op = "attach" => req[k].new \in Keys)
        /\ req[k].op \in {"put", "attach"}
    BY <1>1 DEF Editing, IInv, RequestInv
  <2>2. CASE req[k].op = "put"
    <3>1. Edited(k).title = req[k].new /\ Edited(k).key = item[t].key
      BY <1>2, <2>2 DEF Edited
    <3>2. Row'[t] = [Row[t] EXCEPT !.title = req[k].new]
      BY <1>2, <1>5, <3>1 DEF Row
    <3>3. Row' = [Row EXCEPT ![t].title = req[k].new]
      BY <1>2, <2>0, <3>2 DEF Row
    <3> QED BY <2>1, <2>2, <3>3
  <2>3. CASE req[k].op = "attach"
    <3>1. Edited(k).title = item[t].title /\ Edited(k).key = req[k].new
      BY <1>2, <2>3 DEF Edited
    <3>2. Row'[t] = [Row[t] EXCEPT !.key = req[k].new]
      BY <1>2, <1>5, <3>1 DEF Row
    <3>3. Row' = [Row EXCEPT ![t].key = req[k].new]
      BY <1>2, <2>0, <3>2 DEF Row
    <3> QED BY <2>1, <2>3, <3>3
  <2> QED BY <2>1, <2>2, <2>3
<1>7. Fresh' = [Fresh EXCEPT ![t] = {}]
  <2>1. item'[t].version > item[t].version /\ item'[t].version \in Nat
    BY <1>2, <1>5 DEF Items
  <2>2. Fresh'[t] = {}
    BY <1>2, <1>4, <2>1, FreshNoMore
  <2>3. \A u \in Tasks \ {t} : Fresh'[u] \ {k} = Fresh[u] \ {k}
    BY <1>4, <1>5, FreshElsewhere
  <2>4. \A u \in Tasks \ {t} : k \notin Fresh[u] /\ k \notin Fresh'[u]
    BY <1>4 DEF Fresh, Task, Editing
  <2>5. ASSUME NEW u \in Tasks \ {t} PROVE Fresh'[u] = Fresh[u]
    <3>1. Fresh'[u] \ {k} = Fresh[u] \ {k} /\ k \notin Fresh[u] /\ k \notin Fresh'[u]
      BY <2>3, <2>4
    <3> QED BY <3>1
  <2> QED BY <1>2, <2>2, <2>5 DEF Fresh
<1>8. k \in Fresh[t]
  BY <1>1, <1>2 DEF Fresh
<1>9. Told' \in {Told, Told \cup {k}}
  <2>1. \A j \in Clients \ {k} : j \in Told' <=> j \in Told
    BY <1>4 DEF Told
  <2>2. k \in Told => k \in Told'
    BY <1>4 DEF Told
  <2> QED BY <2>1, <2>2 DEF Told
<1> QED BY <1>1, <1>6, <1>7, <1>8, <1>9 DEF Table!Edit

\* A deletion leaves no row and no edit of it that could still be made.
LEMMA DeleteMaps ==
  ASSUME IInv, NEW k \in Clients, Delete(k)
  PROVE  Table!Delete(Task(k))
<1> DEFINE t == Task(k)
<1>1. /\ req[k].at = "write" /\ req[k].op = "delete" /\ Respond(k, 204) /\ used' = used
      /\ item' = [item EXCEPT ![t] = Missing]
  BY DEF Delete
<1>2. item \in [Tasks -> Items] /\ req \in [Clients -> Requests] /\ t \in Tasks /\ t \in used
      /\ answer \in [Clients -> {0, 200, 201, 204, 404, 500}]
  BY <1>1, RequestTypes DEF IInv, TypeOK, RequestInv
<1>3. /\ req'[k].at = "done" /\ req'[k].op = "delete"
      /\ \A j \in Clients \ {k} : req'[j] = req[j] /\ answer'[j] = answer[j]
  BY <1>1, <1>2 DEF Respond, Requests
<1>4. item'[t] = Missing /\ \A u \in Tasks \ {t} : item'[u] = item[u]
  BY <1>1, <1>2
<1>5. Row' = [Row EXCEPT ![t] = Table!Absent]
  <2>1. \A u \in Tasks \ {t} : Row'[u] = Row[u]
    BY <1>4 DEF Row
  <2>2. Row'[t] = Table!Absent
    BY <1>2, <1>4 DEF Row, Table!Absent, Missing
  <2> QED BY <1>2, <2>1, <2>2 DEF Row
<1>6. Fresh' = [Fresh EXCEPT ![t] = {}]
  <2>1. item'[t].version = 0
    BY <1>4 DEF Missing
  <2>2. Fresh'[t] = {}
    BY <1>2, <1>3, <2>1, FreshNoMore
  <2>3. \A u \in Tasks \ {t} : Fresh'[u] \ {k} = Fresh[u] \ {k}
    BY <1>3, <1>4, FreshElsewhere
  <2>4. \A u \in Tasks \ {t} : k \notin Fresh[u] /\ k \notin Fresh'[u]
    BY <1>1, <1>3 DEF Fresh, Editing
  <2>5. ASSUME NEW u \in Tasks \ {t} PROVE Fresh'[u] = Fresh[u]
    <3>1. Fresh'[u] \ {k} = Fresh[u] \ {k} /\ k \notin Fresh[u] /\ k \notin Fresh'[u]
      BY <2>3, <2>4
    <3> QED BY <3>1
  <2> QED BY <1>2, <2>2, <2>5 DEF Fresh
<1>7. Told' = Told
  BY <1>1, <1>3 DEF Told
<1> QED BY <1>1, <1>2, <1>5, <1>6, <1>7 DEF Table!Delete

\* Every step is a step of the table, or one it does not see.
LEMMA StepMaps == IInv /\ TitleInv /\ [Next]_vars => [Table!Next]_Table!vars
<1> SUFFICES ASSUME IInv, TitleInv, [Next]_vars PROVE [Table!Next]_Table!vars
  OBVIOUS
<1>1. CASE UNCHANGED vars
  BY <1>1 DEF vars, Table!vars, Row, Fresh, Told, Editing, Task, Unchanged
<1>2. \A k \in Clients : req[k].at # "done" => Task(k) \in Tasks
  BY RequestTypes DEF IInv
<1>3. ASSUME NEW k \in Clients, Find(k) \/ Update(k) \/ UpdateLost(k) \/ Delete(k)
      PROVE  [Table!Next]_Table!vars
  <2>1. Task(k) \in Tasks
    BY <1>2, <1>3 DEF Find, Update, UpdateLost, Apply, Editing, Delete
  <2> QED BY <1>3, <2>1, FindMaps, EditMaps, DeleteMaps DEF Table!Next
<1>4. ASSUME NEW k \in Clients,
             \/ NotFound(k) \/ Get(k) \/ Conflict(k) \/ Abort(k)
             \/ \E t \in Tasks, op \in {"get", "put", "attach", "delete"} :
                  \E new \in Arguments(op) : Request(k, op, t, new)
      PROVE  Table!Next
  BY <1>4, LeaveMaps DEF Table!Next
<1>5. ASSUME NEW k \in Clients, NEW t \in Tasks, NEW title \in Titles, Create(k, t, title)
      PROVE  Table!Next
  BY <1>5, CreateMaps DEF Table!Next
<1> QED BY <1>1, <1>3, <1>4, <1>5 DEF Next

\* The service keeps the promise of the table: every edit is one atomic change of
\* one field of the row it has read, deletions and edits in between refuse it, and
\* 200 tells of no edit that was not made (TaskService, the version of Task).
THEOREM TableImplemented == Spec => ImplementsTaskTable
<1>1. Init => Table!Init
  BY DEF Init, Table!Init, Table!Absent, Row, Fresh, Told, Editing, Missing
<1>2. IInv /\ TitleInv /\ [Next]_vars => [Table!Next]_Table!vars
  BY StepMaps
<1>3. Spec => Table!Spec
  BY <1>1, <1>2, TitleInvariance, PTL DEF Spec, Table!Spec
<1> QED BY <1>3 DEF ImplementsTaskTable
=============================================================================
