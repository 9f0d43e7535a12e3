-------------------------- MODULE AdminAuthProofs --------------------------
(***************************************************************************)
(* Proofs about AdminAuth for any servers, keys, drift and life of tokens. *)
(*                                                                         *)
(* A token's expiry is tied to the time of its issue from both sides, and  *)
(* its key was shown at that time or later (Issued).  The upper side gives *)
(* AccessNeedsKey, the lower side ExpiresInIsKept.                         *)
(***************************************************************************)
EXTENDS AdminAuth, TLAPS

\* What is known of a token.
Issued(t) ==
  /\ t.issued <= shown[t.key]
  /\ t.exp <= t.issued + Drift + TTL
  /\ t.exp >= t.issued - Drift + TTL

ShownBefore == \A k \in Key : shown[k] <= now

IInv == TypeOK /\ ShownBefore /\ (\A t \in tokens : Issued(t)) /\ AccessNeedsKey

-----------------------------------------------------------------------------
LEMMA InitTypeOK == Init => TypeOK
BY DEF Init, TypeOK

LEMMA ClockIsInt == TypeOK => \A clock \in Clock : clock \in Int /\ clock >= now - Drift /\ clock <= now + Drift
BY AdminAssumption DEF TypeOK, Clock

LEMMA ShowTypeOK ==
  ASSUME TypeOK, NEW s \in Server, NEW k,
         IF k = adminApiKey[s] THEN Show(k) ELSE UNCHANGED shown
  PROVE  shown' \in [Key -> Nat \cup {-1}]
BY DEF TypeOK, Show

LEMMA NextTypeOK == TypeOK /\ [Next]_vars => TypeOK'
<1>. SUFFICES ASSUME TypeOK, [Next]_vars PROVE TypeOK'
  OBVIOUS
<1>1. ASSUME NEW s \in Server, NEW k \in Key, IssueAdminToken(s, k) PROVE TypeOK'
  <2>1. PICK clock \in Clock :
          tokens' = tokens \cup {[key |-> adminApiKey[s], exp |-> Expiry(clock), issued |-> now]}
    BY <1>1 DEF IssueAdminToken
  <2>2. Expiry(clock) \in Int
    BY <2>1, ClockIsInt, AdminAssumption DEF Expiry
  <2>3. tokens' \subseteq Token
    BY <2>1, <2>2 DEF TypeOK, Token
  <2>. QED
    BY <1>1, <2>3, ShowTypeOK DEF TypeOK, IssueAdminToken
<1>2. ASSUME NEW s \in Server, NEW k \in Key \cup {None}, NEW t \in tokens \cup {None},
             AdminOperation(s, k, t)
      PROVE  TypeOK'
  <2>1. admitted' \in [key : Key, at : Nat]
    BY <1>2 DEF TypeOK, AdminOperation
  <2>. QED
    BY <1>2, <2>1, ShowTypeOK DEF TypeOK, AdminOperation
<1>3. ASSUME NEW k \in Key, Rotate(k) PROVE TypeOK'
  BY <1>3 DEF TypeOK, Rotate
<1>4. ASSUME NEW s \in Server, Restart(s) PROVE TypeOK'
  BY <1>4 DEF TypeOK, Restart
<1>5. CASE Tick
  BY <1>5 DEF TypeOK, Tick
<1>6. CASE UNCHANGED vars
  BY <1>6 DEF TypeOK, vars
<1>. QED
  BY <1>1, <1>2, <1>3, <1>4, <1>5, <1>6 DEF Next

\* Every variable keeps to its type: an admission is under the key of a server.
THEOREM TypeCorrect == Spec => []TypeOK
BY InitTypeOK, NextTypeOK, PTL DEF Spec

-----------------------------------------------------------------------------
LEMMA InitIInv == Init => IInv
BY InitTypeOK DEF Init, IInv, ShownBefore, AccessNeedsKey

\* The times at which keys were shown only move on.
LEMMA ShownGrows ==
  ASSUME TypeOK, ShownBefore, NEW s \in Server, NEW k, UNCHANGED now,
         IF k = adminApiKey[s] THEN Show(k) ELSE UNCHANGED shown
  PROVE  ShownBefore' /\ \A j \in Key : shown[j] <= shown'[j]
BY DEF TypeOK, ShownBefore, Show

\* So what is known of tokens stays true of them, and an admission justified.
LEMMA StaysIssued ==
  ASSUME TypeOK, TypeOK', NEW t \in tokens, Issued(t), \A j \in Key : shown[j] <= shown'[j]
  PROVE  Issued(t)'
BY AdminAssumption DEF TypeOK, Token, Issued

LEMMA StaysJustified ==
  ASSUME TypeOK, TypeOK', AccessNeedsKey, UNCHANGED admitted, \A j \in Key : shown[j] <= shown'[j]
  PROVE  AccessNeedsKey'
<1>. SUFFICES ASSUME admitted # Nobody
              PROVE  /\ shown'[admitted.key] # -1
                     /\ admitted.at < shown'[admitted.key] + TTL + 2 * Drift
  BY DEF AccessNeedsKey
<1>1. admitted.key \in Key /\ admitted.at \in Nat
  BY DEF TypeOK
<1>. QED
  BY <1>1, AdminAssumption DEF AccessNeedsKey, TypeOK

\* An unexpired token under the key of a server was issued not long ago.
LEMMA TokenNeedsKey ==
  ASSUME IInv, NEW s \in Server, NEW t \in tokens, NEW clock \in Clock, verifyAdminToken(s, t, clock)
  PROVE  /\ shown[adminApiKey[s]] # -1
         /\ now < shown[adminApiKey[s]] + TTL + 2 * Drift
<1>1. /\ t.key = adminApiKey[s] /\ t.exp > clock /\ t.exp \in Int /\ t.issued \in Nat
      /\ t.key \in Key /\ shown[t.key] \in Nat \cup {-1} /\ now \in Nat
  BY DEF IInv, TypeOK, Token, verifyAdminToken, Under, Unexpired
<1>2. t.issued <= shown[t.key] /\ t.exp <= t.issued + Drift + TTL
  BY DEF IInv, Issued
<1>3. clock \in Int /\ clock >= now - Drift
  BY ClockIsInt DEF IInv
<1>. QED
  BY <1>1, <1>2, <1>3, AdminAssumption

LEMMA NextIInv == IInv /\ [Next]_vars => IInv'
<1>. SUFFICES ASSUME IInv, [Next]_vars PROVE IInv'
  OBVIOUS
<1>0. TypeOK /\ TypeOK' /\ ShownBefore /\ AccessNeedsKey /\ \A t \in tokens : Issued(t)
  BY NextTypeOK DEF IInv
<1>1. ASSUME NEW s \in Server, NEW k \in Key, IssueAdminToken(s, k) PROVE IInv'
  <2>1. ShownBefore' /\ \A j \in Key : shown[j] <= shown'[j]
    BY <1>0, <1>1, ShownGrows DEF IssueAdminToken
  <2>2. PICK clock \in Clock :
          /\ Exchange(s, k, clock)
          /\ tokens' = tokens \cup {[key |-> adminApiKey[s], exp |-> Expiry(clock), issued |-> now]}
    BY <1>1 DEF IssueAdminToken
  <2>3. shown'[adminApiKey[s]] = now
    BY <1>0, <1>1, <2>2 DEF IssueAdminToken, Exchange, Show, TypeOK
  <2>4. Issued([key |-> adminApiKey[s], exp |-> Expiry(clock), issued |-> now])'
    BY <1>0, <1>1, <2>3, ClockIsInt, AdminAssumption
    DEF Issued, Expiry, IssueAdminToken, TypeOK
  <2>5. \A t \in tokens : Issued(t)'
    BY <1>0, <2>1, StaysIssued
  <2>6. AccessNeedsKey'
    BY <1>0, <1>1, <2>1, StaysJustified DEF IssueAdminToken
  <2>7. \A t \in tokens' : Issued(t)'
    <3>1. UNCHANGED <<now, adminApiKey>>
      BY <1>1 DEF IssueAdminToken
    <3>. QED
      BY <2>2, <2>4, <2>5, <3>1 DEF Issued, Expiry
  <2>. QED
    BY <1>0, <2>1, <2>6, <2>7 DEF IInv
<1>2. ASSUME NEW s \in Server, NEW k \in Key \cup {None}, NEW t \in tokens \cup {None},
             AdminOperation(s, k, t)
      PROVE  IInv'
  <2>1. ShownBefore' /\ \A j \in Key : shown[j] <= shown'[j]
    BY <1>0, <1>2, ShownGrows DEF AdminOperation
  <2>2. \A u \in tokens' : Issued(u)'
    BY <1>0, <1>2, <2>1, StaysIssued DEF AdminOperation
  <2>3. adminApiKey[s] \in Key /\ now \in Nat
    BY <1>0 DEF TypeOK
  <2>4. /\ shown'[adminApiKey[s]] # -1
        /\ now < shown'[adminApiKey[s]] + TTL + 2 * Drift
    <3>1. CASE k = adminApiKey[s]
      <4>1. shown'[adminApiKey[s]] = now
        BY <1>0, <1>2, <2>3, <3>1 DEF AdminOperation, Show, TypeOK
      <4>. QED
        BY <2>3, <4>1, AdminAssumption
    <3>2. CASE k # adminApiKey[s]
      <4>1. PICK clock \in Clock : t \in tokens /\ verifyAdminToken(s, t, clock)
        BY <1>2, <3>2 DEF AdminOperation, verifyAdminAuth
      <4>2. UNCHANGED shown
        BY <1>2, <3>2 DEF AdminOperation
      <4>. QED
        BY <4>1, <4>2, TokenNeedsKey
    <3>. QED
      BY <3>1, <3>2
  <2>5. AccessNeedsKey'
    BY <1>2, <2>4 DEF AccessNeedsKey, AdminOperation
  <2>. QED
    BY <1>0, <2>1, <2>2, <2>5 DEF IInv
<1>3. ASSUME UNCHANGED <<tokens, shown, admitted>>, now' \in {now, now + 1} PROVE IInv'
  <2>1. \A j \in Key : shown[j] <= shown'[j]
    BY <1>0, <1>3 DEF TypeOK
  <2>2. ShownBefore'
    BY <1>0, <1>3 DEF ShownBefore, TypeOK
  <2>. QED
    BY <1>0, <1>3, <2>1, <2>2, StaysIssued, StaysJustified DEF IInv
<1>. QED
  BY <1>1, <1>2, <1>3 DEF Next, Rotate, Restart, Tick, vars

\* Whoever is admitted has shown the server's key less than TTL + 2 * Drift ago,
\* for any TTL, drift and rotation.
THEOREM AccessIsEarned == Spec => []AccessNeedsKey
BY InitIInv, NextIInv, PTL DEF Spec, IInv

\* A token is admitted for the time its issuer named, up to the drift.
THEOREM TokensServe == Spec => []ExpiresInIsKept
<1>1. ASSUME IInv PROVE ExpiresInIsKept
  <2>1. SUFFICES ASSUME NEW t \in tokens, NEW s \in Server, adminApiKey[s] = t.key,
                        now + 2 * Drift < t.issued + TTL, NEW clock \in Clock
                 PROVE  t.exp > clock
    BY DEF ExpiresInIsKept, verifyAdminAuth, verifyAdminToken, Under, Unexpired
  <2>2. t.exp \in Int /\ t.issued \in Nat /\ now \in Nat /\ t.exp >= t.issued - Drift + TTL
    BY <1>1 DEF IInv, TypeOK, Token, Issued
  <2>3. clock \in Int /\ clock <= now + Drift
    BY <1>1, ClockIsInt DEF IInv
  <2>. QED
    BY <2>1, <2>2, <2>3, AdminAssumption
<1>. QED
  BY <1>1, InitIInv, NextIInv, PTL DEF Spec
=============================================================================
