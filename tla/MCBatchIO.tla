----------------------------- MODULE MCBatchIO -----------------------------
EXTENDS BatchIO

\* Two nodes of the server: a byte and a string.
CONSTANTS num, str

MCNodes == {num, str}

MCNodeType == [n \in MCNodes |-> IF n = num THEN "BYTE" ELSE "STRING"]

It(n, k, t, x) == [node |-> n, idKind |-> k, dataType |-> t, value |-> x]

X(t) == [alt |-> readTraits[t], v |-> "x"]

\* Every S7 type once, alone in its batch.
Singles ==
  { <<It(num, "numeric", t, X(t))>> : t \in DOMAIN readTraits }
    \cup { <<It(num, "string", "ARRAY", X("BYTE"))>>, <<It(num, "empty", "BYTE", X("BYTE"))>>,
           <<It(num, "nul", "BYTE", X("BYTE"))>>, <<It(str, "string", "STRING", default_value_for("STRING"))>>,
           <<It(str, "string", "STRING", [alt |-> "string", v |-> "nul"])>> }

\* Two items: both fine, the second refused, the same node twice.
Pairs ==
  { <<It(num, "string", "BYTE", X("BYTE")), It(str, "string", "STRING", X("STRING"))>>,
    <<It(num, "string", "BYTE", X("BYTE")), It(num, "string", "BYTE", default_value_for("BYTE"))>>,
    <<It(num, "string", "BYTE", X("BYTE")), It(str, "empty", "STRING", X("STRING"))>>,
    <<It(num, "string", "BYTE", X("BYTE")), It(str, "string", "STRING", X("BYTE"))>> }

MCBatches == {<<>>} \cup Singles \cup Pairs
=============================================================================
