--------------------------- MODULE MCJobAdmission ---------------------------
(***************************************************************************)
(* Four rows for: a deployment and a rotation that share a slot, the same  *)
(* key used by two principals and for two payloads, three destroy requests *)
(* of one plan (one with another content, two with the same approval), and *)
(* two webhook deliveries that do not fit together.                        *)
(***************************************************************************)
EXTENDS JobAdmission, TLC

CONSTANTS j1, j2, j3, j4, alice, bob, grafana, p1, all, node, t1

MCRows == {j1, j2, j3, j4}
MCPrincipals == {alice, bob}
MCPlans == {p1}
MCSpecs == {all, node}
MCTokens == {t1}

Plain(u, k, kind, body) == [by |-> u, key |-> k, kind |-> kind, body |-> body]
Destroy(u, k, s) ==
    [by |-> u, key |-> k, kind |-> "DESTROY_INFRA", plan |-> p1, spec |-> s, token |-> t1]
Heal(k) == Plain(grafana, k, "WEBHOOK_HEAL", k)

MCBatches == {{Heal("h1"), Heal("h2")}, {Heal("h3")}}
MCRequests ==
    {Plain(alice, "k1", "DEPLOY", "all"), Plain(alice, "k1", "DEPLOY", "one"),
     Plain(bob, "k1", "SECRET_ROTATION", "all"),
     Destroy(alice, "k2", all), Destroy(alice, "k3", all), Destroy(alice, "k3", node)}
    \cup UNION MCBatches
MCSharedKinds == {{"DEPLOY", "SECRET_ROTATION"}}

RowSymmetry == Permutations(MCRows)
=============================================================================
