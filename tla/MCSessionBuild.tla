--------------------------- MODULE MCSessionBuild ---------------------------
(* TLC instances of SessionBuild: servers 1, 2 and 4 share a slug. *)
EXTENDS SessionBuild, TLC

SharedSlugs == (1 :> "a") @@ (2 :> "a") @@ (3 :> "b") @@ (4 :> "a")

UpstreamTools == [s \in Servers |-> IF s = 2 THEN {"read"} ELSE Tools]

Grant(s, T) == [server |-> s, tools |-> T]

Grants ==
    {{Grant(1, {"read"}), Grant(2, {"read", "write"}), Grant(3, {"write"}),
      Grant(4, {"read"})},
     {Grant(1, {"read", "write"}), Grant(2, {"read", "write"}), Grant(2, {})},
     {Grant(1, {}), Grant(2, {"write"}), Grant(4, {"read", "write"})}}
=============================================================================
