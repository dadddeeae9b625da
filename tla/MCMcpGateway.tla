----------------------------- MODULE MCMcpGateway -----------------------------
EXTENDS McpGateway

CONSTANTS r1, r2

Clients == {r1, r2}
MCTokens == {"admin_token", "viewer_token"}
MCRoles == [t \in MCTokens |-> IF t = "admin_token" THEN "admin" ELSE "viewer"]
MCHeaders == MCTokens \cup {"unknown", "non_ascii"}

Call(names) ==
  [form |-> "object", id |-> "valid", version |-> TRUE, method |-> "tools/call",
   params |-> TRUE, names |-> names, encodable |-> TRUE]

\* With half a surrogate pair as its id.
Lone(b) == [b EXCEPT !.id = "lone", !.encodable = FALSE]

MCBodies == {
  [Call(<<>>) EXCEPT !.form = "junk"],
  [Call(<<>>) EXCEPT !.form = "too_much"],
  [Call(<<>>) EXCEPT !.form = "other"],
  [Call(<<"get_profile">>) EXCEPT !.id = "bad"],
  [Call(<<"get_profile">>) EXCEPT !.id = "none"],
  [Call(<<"get_profile">>) EXCEPT !.version = FALSE],
  [Call(<<>>) EXCEPT !.method = "tools/list"],
  [Call(<<"get_profile">>) EXCEPT !.params = FALSE],
  [Call(<<"get_profile">>) EXCEPT !.encodable = FALSE],
  Lone(Call(<<"get_profile">>)),
  Lone(Call(<<"admin_rotate_key">>)),
  Lone([Call(<<>>) EXCEPT !.params = FALSE]),
  Lone([Call(<<"get_profile">>) EXCEPT !.version = FALSE]),
  Call(<<"admin_rotate_key">>),
  Call(<<"get_profile", "admin_rotate_key">>),
  Call(<<"admin_rotate_key", "get_profile">>)}
=============================================================================
