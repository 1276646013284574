----------------------------- MODULE MCServicePath -----------------------------
(* ServicePath on two nodes; pods a and c run on the first, b on the second. *)
EXTENDS ServicePath, TLC

CONSTANTS n1, n2, a, b, c

MCNodeOf == a :> n1 @@ c :> n1 @@ b :> n2

\* A rolling update of one pod: both nodes always have one.
Rolling == {{a, b}, {b, c}}
\* The same, with moments at which one node has none.
Changing == Rolling \union {{b}}
\* The service shrinks to one node, to nothing, and is deleted.
Shrinking == {{a, b}, {b}, {}, Deleted}
=============================================================================
