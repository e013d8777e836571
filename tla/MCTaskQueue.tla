----------------------------- MODULE MCTaskQueue -----------------------------
(* TaskQueue with the UI thread, another client, and a task that queues two *)
(* more when it runs.                                                       *)
EXTENDS TaskQueue, TLC

MCChildren == ("scene" :> {"input", "filter"}) @@ ("input" :> {})
              @@ ("filter" :> {}) @@ ("text" :> {})
=============================================================================
