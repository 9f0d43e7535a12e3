---------------------------- MODULE MCDecisions ----------------------------
(* Instance of Decisions for TLC: two agents, manifests that extend, restrict and repeat. *)
EXTENDS Decisions

CONSTANTS a1, a2, pay, read, n1, n2, send, audit

TwoAgents == {a1, a2}
TwoScopes == {pay, read}
TwoOperations == {send, audit}
TwoNonces == {n1, n2}
TwoAmounts == {1, 2}
Lists == {<<>>, <<pay>>, <<pay, read>>}

Entry(name, max, operations) ==
  [name |-> name, max_amount_cents |-> max, operations |-> operations]
AManifest(scopes, restricted) == [scopes |-> scopes, restricted |-> restricted]

\* Without limits; with a limit and operations; the same with another entry of the
\* name behind it, and in front; operations of which one is restricted; the scope itself.
Manifests ==
  { AManifest(<<Entry(pay, Absent, {})>>, {}),
    AManifest(<<Entry(pay, 1, {send})>>, {audit}),
    AManifest(<<Entry(pay, 1, {send}), Entry(pay, 0, {audit})>>, {}),
    AManifest(<<Entry(pay, 0, {audit}), Entry(pay, 1, {send})>>, {}),
    AManifest(<<Entry(pay, 2, {send, audit})>>, {send}),
    AManifest(<<Entry(read, Absent, {}), Entry(pay, 2, {})>>, {pay}) }

\* A newer client, one that cannot say its version, one that claims another agent,
\* and one token that is request and handshake.
Claims == RequestClaims(a1, pay, n1, 1)
ForeignTokens ==
  { [Claims EXCEPT !.sdk = "none", !.protocol_version = "2"],
    [Claims EXCEPT !.sdk = "none", !.protocol_version = "NaN"],
    [Claims EXCEPT !.sdk = "none", !.protocol_version = "not a string"],
    [Claims EXCEPT !.sdk = "none", !.agent_id = a2],
    [Claims EXCEPT !.sdk = "none", !.scope = Empty, !.exp = Absent],
    [Claims EXCEPT !.sdk = "none", !.requested_scopes = <<pay>>] }
=============================================================================
