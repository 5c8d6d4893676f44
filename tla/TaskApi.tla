------------------------------ MODULE TaskApi -------------------------------
(***************************************************************************)
(* The task service of serverless-api over a DynamoDB table.  Every write  *)
(* but the deletion is a read of the whole item followed by a write of the *)
(* whole item on the condition that its version is the one read (the       *)
(* enhanced client's version attribute).  Requests run in threads or       *)
(* Lambda invocations that share only the table, and the SDK repeats a     *)
(* call whose response is lost.                                            *)
(*                                                                         *)
(* A title stands for all the fields PUT sets, a key for the attachment    *)
(* key that the confirm request sets.                                      *)
(***************************************************************************)
EXTENDS Naturals

CONSTANTS
  Tasks,            \* ids; create draws one that was never used (UUID)
  Clients,          \* clients, each with one request at a time
  Titles, Keys,     \* what clients write
  None,             \* no title, no key
  MaxVersion        \* bound on the version attribute

ASSUME VersionAssumption == MaxVersion \in Nat \ {0} /\ None \notin Titles \cup Keys

VARIABLES
  item,             \* item[t]: the row of task t, or Missing
  used,             \* ids create has drawn
  req,              \* req[k]: the request of client k
  answer            \* answer[k]: HTTP status of k's last request, 0: none yet

vars == <<item, used, req, answer>>

Items == [version : 0 .. MaxVersion, title : Titles \cup {None}, key : Keys \cup {None}]
Missing == [version |-> 0, title |-> None, key |-> None]
Exists(t) == item[t] # Missing

Requests ==
  [op : {"get", "put", "attach", "delete"}, task : Tasks,
   new : Titles \cup Keys \cup {None}, at : {"done", "find", "write"},
   read : Items]                \* the item it found

Init ==
  /\ item = [t \in Tasks |-> Missing]
  /\ used = {}
  /\ req \in [Clients -> {[op |-> "get", task |-> t, new |-> None, at |-> "done",
                           read |-> Missing] : t \in Tasks}]
  /\ answer = [k \in Clients |-> 0]

Create(k, t, title) ==
  /\ req[k].at = "done" /\ t \notin used
  /\ used' = used \cup {t}
  /\ item' = [item EXCEPT ![t] = [version |-> 1, title |-> title, key |-> None]]
  /\ answer' = [answer EXCEPT ![k] = 201]
  /\ UNCHANGED req

Arguments(op) ==
  CASE op = "put" -> Titles [] op = "attach" -> Keys [] OTHER -> {None}

Request(k, op, t, new) ==
  /\ req[k].at = "done" /\ t \in used
  /\ req' = [req EXCEPT ![k] = [op |-> op, task |-> t, new |-> new, at |-> "find",
                                read |-> Missing]]
  /\ answer' = [answer EXCEPT ![k] = 0]
  /\ UNCHANGED <<item, used>>

Task(k) == req[k].task

Respond(k, status) ==
  /\ answer' = [answer EXCEPT ![k] = status]
  /\ req' = [req EXCEPT ![k].at = "done", ![k].read = Missing]

\* TaskService.get throws TaskNotFoundException.
NotFound(k) ==
  /\ req[k].at = "find" /\ ~Exists(Task(k))
  /\ Respond(k, 404)
  /\ UNCHANGED <<item, used>>

Get(k) ==
  /\ req[k].at = "find" /\ req[k].op = "get" /\ Exists(Task(k))
  /\ Respond(k, 200)
  /\ UNCHANGED <<item, used>>

\* The get with which update, attachFile and delete begin.
Find(k) ==
  /\ req[k].at = "find" /\ req[k].op # "get" /\ Exists(Task(k))
  /\ req' = [req EXCEPT ![k].at = "write", ![k].read = item[Task(k)]]
  /\ UNCHANGED <<item, used, answer>>

\* Mutant of Edited: the client does not increment the version.
EditedUncounted(k) ==
  LET old == req[k].read IN
  [version |-> old.version,
   title   |-> IF req[k].op = "put" THEN req[k].new ELSE old.title,
   key     |-> IF req[k].op = "attach" THEN req[k].new ELSE old.key]

\* update and attachFile set their own fields of the item they have read.
Edited(k) ==
  LET old == req[k].read IN
  [version |-> old.version + 1,
   title   |-> IF req[k].op = "put" THEN req[k].new ELSE old.title,
   key     |-> IF req[k].op = "attach" THEN req[k].new ELSE old.key]

Editing(k) == req[k].at = "write" /\ req[k].op \in {"put", "attach"}

\* Mutant of Unchanged: a bean without @DynamoDbVersionAttribute.
Unversioned(k) == TRUE

\* Mutant of Unchanged: the condition holds also when the item is gone.
UnchangedOrGone(k) == item[Task(k)].version \in {0, req[k].read.version}

\* The condition on updateItem: the stored version is the one read.
Unchanged(k) == item[Task(k)].version = req[k].read.version

Apply(k) ==
  /\ Editing(k) /\ Unchanged(k)
  /\ req[k].read.version < MaxVersion
  /\ item' = [item EXCEPT ![Task(k)] = Edited(k)]

Update(k) ==
  /\ Apply(k)
  /\ Respond(k, 200)
  /\ UNCHANGED used

\* The response is lost; the SDK will repeat the call with the same condition.
UpdateLost(k) == Apply(k) /\ UNCHANGED <<used, req, answer>>

\* ConditionalCheckFailedException, which no handler maps: 500.
Conflict(k) ==
  /\ Editing(k) /\ ~Unchanged(k)
  /\ Respond(k, 500)
  /\ UNCHANGED <<item, used>>

\* deleteItem has no condition, and deleting what is gone succeeds.
Delete(k) ==
  /\ req[k].at = "write" /\ req[k].op = "delete"
  /\ item' = [item EXCEPT ![Task(k)] = Missing]
  /\ Respond(k, 204)
  /\ UNCHANGED <<used>>

\* The invocation dies or DynamoDB stays out of reach: 500 or nothing.
Abort(k) ==
  /\ req[k].at # "done"
  /\ Respond(k, 500)
  /\ UNCHANGED <<item, used>>

Next ==
  \E k \in Clients :
    \/ \E t \in Tasks, title \in Titles : Create(k, t, title)
    \/ \E t \in Tasks, op \in {"get", "put", "attach", "delete"} :
         \E new \in Arguments(op) : Request(k, op, t, new)
    \/ NotFound(k) \/ Get(k) \/ Find(k) \/ Update(k) \/ UpdateLost(k)
    \/ Conflict(k) \/ Delete(k) \/ Abort(k)

Spec == Init /\ [][Next]_vars

-----------------------------------------------------------------------------

\* Variables keep their types, and a task that was never created has no row.
TypeOK ==
  /\ item \in [Tasks -> Items] /\ used \subseteq Tasks
  /\ \A t \in Tasks : item[t].version = 0 <=> item[t] = Missing
  /\ req \in [Clients -> Requests]
  /\ answer \in [Clients -> {0, 200, 201, 204, 404, 500}]
  /\ \A t \in Tasks \ used : item[t] = Missing

\* The table as its clients see it: the rows without their versions, the edits
\* that would still find their row unchanged, and who was told of an edit.
Row   == [t \in Tasks |-> [title |-> item[t].title, key |-> item[t].key]]
Fresh == [t \in Tasks |-> {k \in Clients : Editing(k) /\ Task(k) = t /\ Unchanged(k)}]
Told  == {k \in Clients : req[k].op \in {"put", "attach"} /\ answer[k] = 200}

Table == INSTANCE TaskTable WITH row <- Row, drawn <- used, fresh <- Fresh, told <- Told

\* Although each writes the whole item it has read, an update and a confirmed
\* attachment that overlap never undo each other or a deletion (TaskService.update,
\* attachFile and delete): the versions make every edit one atomic change of one
\* field, made only if the row is the one it read, and 200 tells of no other.
ImplementsTaskTable == Table!Spec

\* A deleted task stays deleted, whatever was read before the deletion and is
\* written after it (updateItem creates an item that is not there).
NoResurrection ==
  [][\A t \in used : item[t] = Missing => item'[t] = Missing]_vars

\* The version grows by one with every change, so no two writers are told they
\* wrote the same version, repeated calls of the SDK included; variables keep
\* their types meanwhile (Task.getVersion).
VersionsCount ==
  /\ []TypeOK
  /\ [][\A t \in Tasks : item'[t] # item[t] /\ item'[t] # Missing =>
          item'[t].version = item[t].version + 1]_vars
=============================================================================
