------------------------------- MODULE ResultBoard ------------------------------
(***************************************************************************)
(* What the execution results of a project promise their readers, without  *)
(* requests, transactions, tables of rows and items, or a clean-up in two  *)
(* steps: each scope has a board with its last result, which an execution  *)
(* replaces at once; each background run has a page of its own, which only *)
(* its own progress changes; and only the retention takes ended ones away, *)
(* while the server is down.                                               *)
(*                                                                         *)
(* A page is what a reader finds of a result: the findings it counts, and  *)
(* the findings it lists.                                                  *)
(***************************************************************************)

CONSTANTS
  Scopes,
  Ids,         \* by which a client asks for a background run
  Executions,  \* whose findings they are
  NoResult     \* no findings

VARIABLES
  board,  \* the results of each scope: none or one
  jobs,   \* the background runs there are, by id
  open    \* whether the server runs

vars == <<board, jobs, open>>

Page(result) == [counted |-> result, listed |-> {result} \ {NoResult}]

Present == DOMAIN jobs
Unended == {id \in Present : jobs[id].status \in {"pending", "running"}}

With(id, job) == [j \in Present \cup {id} |-> IF j = id THEN job ELSE jobs[j]]

Found(result) == \/ \E scope \in Scopes : \E page \in board[scope] : page.counted = result
                 \/ \E id \in Present : jobs[id].page.counted = result

\* No findings, or those of an execution that no reader has found anywhere.
IsNew(result) == result = NoResult \/ (result \in Executions /\ ~Found(result))

Init == board = [scope \in Scopes |-> {}] /\ jobs = [id \in {} |-> {}] /\ open = TRUE

Execute(scope) ==
  /\ open /\ open' /\ UNCHANGED jobs
  /\ \E result \in Executions \cup {NoResult} :
       board' = [board EXCEPT ![scope] = {Page(result)}] /\ IsNew(result)

Submit(id) ==
  /\ open /\ open' /\ UNCHANGED board /\ id \notin Present
  /\ \E scope \in Scopes :
       jobs' = With(id, [scope |-> scope, status |-> "pending", page |-> Page(NoResult)])

Start(id) ==
  /\ open /\ open' /\ UNCHANGED board /\ id \in Present
  /\ jobs[id].status = "pending" /\ jobs' = With(id, [jobs[id] EXCEPT !.status = "running"])

Succeed(id) ==
  /\ open /\ open' /\ UNCHANGED board /\ id \in Present
  /\ jobs[id].status = "running"
  /\ \E result \in Executions \cup {NoResult} :
       /\ jobs' = With(id, [scope |-> jobs[id].scope, status |-> "success", page |-> Page(result)])
       /\ IsNew(result)

Fail(id) ==
  /\ open /\ open' /\ UNCHANGED board /\ id \in Present
  /\ jobs[id].status = "running" /\ jobs' = With(id, [jobs[id] EXCEPT !.status = "failed"])

Stop == open /\ ~open' /\ UNCHANGED <<board, jobs>>

\* What had not ended when the server stopped has failed.
Resume ==
  /\ ~open /\ open' /\ UNCHANGED board
  /\ jobs' = [id \in Present |-> IF id \in Unended THEN [jobs[id] EXCEPT !.status = "failed"]
                                 ELSE jobs[id]]

\* Of the results and the ended runs, the retention keeps some.
Forget ==
  /\ ~open /\ ~open'
  /\ \E scopes \in SUBSET Scopes :
       board' = [scope \in Scopes |-> IF scope \in scopes THEN {} ELSE board[scope]]
  /\ \E ids \in SUBSET (Present \ Unended) : jobs' = [id \in Present \ ids |-> jobs[id]]

Next ==
  \/ \E scope \in Scopes : Execute(scope)
  \/ \E id \in Ids : Submit(id) \/ Start(id) \/ Succeed(id) \/ Fail(id)
  \/ Stop \/ Resume \/ Forget

Spec == Init /\ [][Next]_vars

=============================================================================
