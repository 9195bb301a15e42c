----------------------------- MODULE MCFlowTable -----------------------------
(* FlowTable with a profile whose two WANs change their weights, change      *)
(* places, get a third, lose one, or lose one that tapers off.               *)
EXTENDS FlowTable

CONSTANTS f1, f2, a, b, c

HashOf == [f \in Flows |-> IF f = f1 THEN 1 ELSE 2]

On(n, w) == [name |-> n, weight |-> w, dataplane |-> TRUE]
Off(n) == [name |-> n, weight |-> 1, dataplane |-> FALSE]
Loaded == {<<On(a, v), On(b, w)>> : v, w \in Weights}
          \cup {<<On(b, 1), On(a, 2)>>, <<On(b, 1)>>, <<On(b, 2), On(c, 1)>>}
          \cup {<<On(a, 1), On(b, 2), On(c, 1)>>, <<On(a, 2), Off(b), Off(c)>>,
                <<On(c, 1), On(a, 1), Off(b)>>}
==============================================================================
