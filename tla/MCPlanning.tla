---------------------------- MODULE MCPlanning ----------------------------
(* Two API processes, two clients, one idempotency key between them; the   *)
(* suite "both" lists two tasks, one of them an admission's candidate.     *)
EXTENDS Planning

CONSTANTS k, c1, c2

Create(key, task, ref, reps) ==
    [kind |-> "create", key |-> key, task |-> task, ref |-> ref, reps |-> reps]
RegisterTask(ref, content) ==
    [kind |-> "register", suite |-> FALSE, ref |-> ref, content |-> content]
RegisterSuite(ref, content) ==
    [kind |-> "register", suite |-> TRUE, ref |-> ref, content |-> content]

MCProvided == "task" :> "content" @@ "twice" :> <<"task", "task">>
MCPosts == c1 :> 2 @@ c2 :> 1
MCOp ==
    {Create(k, TRUE, "task", 2), Create(k, FALSE, "both", 1),
     Create(NoKey, TRUE, "candidate", 1),
     RegisterTask("new", "one"), RegisterTask("new", "two"),
     RegisterSuite("both", <<"task", "candidate">>)}
\* A key that nobody else uses, for a suite that lists a task twice.
MCOpTwice == {Create(k, FALSE, "twice", 1)}
=============================================================================
