----------------------------- MODULE Authority -----------------------------
(***************************************************************************)
(* What a registry of agents promises its relying parties about            *)
(* revocation, whatever tables and caches it is made of: a request about   *)
(* an agent is accepted only if the agent was in good standing at one      *)
(* instant between the arrival of the request and the answer to it.        *)
(*                                                                         *)
(* Registry.tla implements this twice: POST /verify does with the status   *)
(* column as the standing, POST /handshake/verify does with the rows of    *)
(* the revocations table as the standing.                                  *)
(***************************************************************************)

CONSTANTS Agent,    \* the identities requests can be about
          Request,  \* the requests
          Nobody    \* not an agent: what an unused request is about

VARIABLES standing,  \* what the registry holds of each agent
          about,     \* the agent each request is about
          verdict    \* how far each request has come

vars == <<standing, about, verdict>>

Standing == {"unknown", "active", "revoked"}
Verdict  == {"none", "open", "permitted", "accepted", "closed"}

TypeOK ==
  /\ standing \in [Agent -> Standing]
  /\ about \in [Request -> Agent \cup {Nobody}]
  /\ verdict \in [Request -> Verdict]

Init ==
  /\ standing \in [Agent -> {"unknown", "active"}]
  /\ about = [r \in Request |-> Nobody]
  /\ verdict = [r \in Request |-> "none"]

Enroll(a) ==
  /\ standing[a] = "unknown"
  /\ standing' = [standing EXCEPT ![a] = "active"]
  /\ UNCHANGED <<about, verdict>>

\* A revocation is for good: no action leads out of "revoked".
Revoke(a) ==
  /\ standing[a] = "active"
  /\ standing' = [standing EXCEPT ![a] = "revoked"]
  /\ UNCHANGED <<about, verdict>>

Ask(r, a) ==
  /\ verdict[r] = "none"
  /\ about' = [about EXCEPT ![r] = a]
  /\ verdict' = [verdict EXCEPT ![r] = "open"]
  /\ UNCHANGED standing

\* The instant at which the agent has to be in good standing.
Permit(r) ==
  /\ verdict[r] = "open"
  /\ standing[about[r]] = "active"
  /\ verdict' = [verdict EXCEPT ![r] = "permitted"]
  /\ UNCHANGED <<standing, about>>

Accept(r) ==
  /\ verdict[r] = "permitted"
  /\ verdict' = [verdict EXCEPT ![r] = "accepted"]
  /\ UNCHANGED <<standing, about>>

\* Any request can be refused, for reasons that are not the registry's.
Close(r) ==
  /\ verdict[r] \in {"open", "permitted"}
  /\ verdict' = [verdict EXCEPT ![r] = "closed"]
  /\ UNCHANGED <<standing, about>>

Next ==
  \/ \E a \in Agent : Enroll(a) \/ Revoke(a)
  \/ \E r \in Request : (\E a \in Agent : Ask(r, a)) \/ Permit(r) \/ Accept(r) \/ Close(r)

Spec == Init /\ [][Next]_vars
=============================================================================
