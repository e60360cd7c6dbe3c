-------------------------- MODULE PeaExchangeProofs --------------------------
(***************************************************************************)
(* The verifiers of the PEA envelope, for every set of signers, every      *)
(* bound and every mixture of envelope parts: what they accept was issued. *)
(***************************************************************************)
EXTENDS PeaExchange, TLAPS

\* The servers start with no signature made and no envelope held.
LEMMA PeaInvInit == Init => PeaInv
BY DEF Init, PeaInv

\* The attestations of SignVerdict and SignTimeout have the fields of a verdict,
\* whatever slot the fork is pinned to.
LEMMA NewIsVerdict ==
  ASSUME NEW h, NEW v \in {"APPROVE", "WARN", "BLOCK", "TIMEOUT"}, NEW score, NEW out,
         NEW n \in Nat, NEW k \in Signers, NEW ms
  PROVE  /\ IsVerdict(NewAttestation(h, v, score, out, n, k, ms))
         /\ NewAttestation(h, v, score, out, n, k, ms).signer = k
<1>1. VerdictCode[v] \in 0..3
  BY DEF VerdictCode
<1> QED
  BY <1>1 DEF IsVerdict, NewAttestation, EXPIRY_SLOTS

\* The record that a signature over an attestation is.
LEMMA SignedBytes ==
  ASSUME NEW k, NEW att
  PROVE  /\ sign_attestation(k, att).bytes.content = att
         /\ sign_attestation(k, att).bytes.len = ATTESTATION_BYTES
BY DEF sign_attestation, Sign, Serialize

\* A verdict joins the issued ones together with its signature.
LEMMA IssueKeepsInv ==
  ASSUME PeaInv, NEW k \in Signers, NEW att, IsVerdict(att), att.signer = k, Issue(k, att)
  PROVE  PeaInv'
<1> USE DEF Issue, heldVars
<1>1. slot' \in Nat /\ pinned' \in [Signers -> Nat]
  BY DEF PeaInv
<1>2. \A a \in issued' : IsVerdict(a) /\ sign_attestation(a.signer, a) \in signatures'
  BY DEF PeaInv
<1>3. \A s \in signatures' : s.bytes.len = ATTESTATION_BYTES => s.bytes.content \in issued'
  BY SignedBytes DEF PeaInv
<1>4. envelope' = envelope /\ signatures \subseteq signatures'
  OBVIOUS
<1> QED
  BY <1>1, <1>2, <1>3, <1>4 DEF PeaInv

\* A policy or an override is signed under the same key, but over fewer bytes.
LEMMA OtherKeepsInv ==
  ASSUME PeaInv, NEW s, s.bytes.len = OTHER_BYTES,
         signatures' = signatures \cup {s},
         UNCHANGED <<slot, pinned, issued, heldVars>>
  PROVE  PeaInv'
<1>1. OTHER_BYTES # ATTESTATION_BYTES
  BY DEF OTHER_BYTES, ATTESTATION_BYTES
<1>2. \A t \in signatures' : t.bytes.len = ATTESTATION_BYTES => t.bytes.content \in issued'
  BY <1>1 DEF PeaInv
<1>3. UNCHANGED envelope /\ signatures \subseteq signatures'
  BY DEF heldVars
<1> QED
  BY <1>2, <1>3 DEF PeaInv

\* The invariant holds on, whatever is signed, restarted, received or replaced.
LEMMA PeaInvNext == PeaInv /\ [Next]_vars => PeaInv'
<1> SUFFICES ASSUME PeaInv, [Next]_vars PROVE PeaInv'
  OBVIOUS
<1>1. CASE NewSlot
  BY <1>1 DEF NewSlot, heldVars, PeaInv
<1>2. ASSUME NEW k \in Signers, Restart(k) PROVE PeaInv'
  <2>1. PICK n \in {0, slot} : pinned' = [pinned EXCEPT ![k] = n]
    BY <1>2 DEF Restart
  <2>2. n \in Nat /\ pinned' \in [Signers -> Nat]
    BY <2>1 DEF PeaInv
  <2> QED
    BY <1>2, <2>2 DEF Restart, heldVars, PeaInv
<1>3. ASSUME NEW k \in Signers, NEW h \in TxHashes, NEW j \in Judged, SignVerdict(k, h, j)
      PROVE  PeaInv'
  <2>1. j.verdict \in {"APPROVE", "WARN", "BLOCK", "TIMEOUT"} /\ pinned[k] \in Nat
    BY ExchangeAssumption DEF PeaInv
  <2> QED
    BY <1>3, <2>1, NewIsVerdict, IssueKeepsInv DEF SignVerdict
<1>4. ASSUME NEW k \in Signers, NEW h \in TxHashes, SignTimeout(k, h) PROVE PeaInv'
  <2>1. pinned[k] \in Nat
    BY DEF PeaInv
  <2> QED
    BY <1>4, <2>1, NewIsVerdict, IssueKeepsInv DEF SignTimeout, new_timeout
<1>5. ASSUME NEW k \in Signers, NEW h \in TxHashes, SignPolicy(k, h) PROVE PeaInv'
  BY <1>5, OtherKeepsInv DEF SignPolicy, sign_policy_attestation, Sign, SerializeOther
<1>6. ASSUME NEW k \in Signers, NEW h \in TxHashes, SignOverride(k, h) PROVE PeaInv'
  BY <1>6, OtherKeepsInv DEF SignOverride, sign_override_attestation, Sign, SerializeOther
<1>7. ASSUME NEW att \in issued, Receive(att) PROVE PeaInv'
  BY <1>7 DEF Receive, to_pea_json, Text, PeaInv
<1>8. CASE Replaced
  <2>1. /\ envelope # NoEnvelope
        /\ envelope.signature.bytes \in signatures
        /\ envelope.signature.form \in {"strict", "loose", "short"}
        /\ DOMAIN envelope = {"spec_version", "attestation", "signature", "borsh_b64",
                              "fixture_version"}
    BY <1>8 DEF Replaced, PeaInv
  <2>2. /\ DOMAIN envelope' = DOMAIN envelope
        /\ \/ envelope'.signature = envelope.signature
           \/ \E s \in signatures : envelope'.signature = Text("strict", s)
           \/ \E form \in {"loose", "short"} :
                 envelope'.signature = Text(form, envelope.signature.bytes)
    BY <1>8, <2>1 DEF Replaced
  <2>3. /\ envelope'.signature.bytes \in signatures
        /\ envelope'.signature.form \in {"strict", "loose", "short"}
    BY <2>1, <2>2 DEF Text
  <2> QED
    BY <1>8, <2>1, <2>2, <2>3 DEF Replaced, PeaInv
<1>9. CASE UNCHANGED vars
  BY <1>9 DEF vars, PeaInv
<1> QED
  BY <1>1, <1>2, <1>3, <1>4, <1>5, <1>6, <1>7, <1>8, <1>9 DEF Next, SignSomething

\* A signature that verifies over the bytes of a verdict covers an issued one.
LEMMA VerifiedIsIssued ==
  ASSUME PeaInv, envelope # NoEnvelope, NEW k, NEW att,
         verify_attestation(k, Serialize(att), envelope.signature.bytes)
  PROVE  att \in issued /\ IsVerdict(att)
<1>1. envelope.signature.bytes.bytes = Serialize(att)
  BY DEF verify_attestation, Sign
<1>2. Serialize(att).len = ATTESTATION_BYTES /\ Serialize(att).content = att
  BY DEF Serialize
<1> QED
  BY <1>1, <1>2 DEF PeaInv

\* What verifyPea checks, all at once.
LEMMA VerifiedChecks ==
  ASSUME Verified
  PROVE  /\ envelope # NoEnvelope
         /\ isPeaEnvelope(envelope)
         /\ Serialize(envelope.attestation) = envelope.borsh_b64.bytes
         /\ verify_attestation(envelope.attestation.signer, envelope.borsh_b64.bytes,
                               envelope.signature.bytes)
         /\ ~(envelope.attestation.expiry_slot < slot)
         /\ envelope.attestation.signer \in TrustedSigners
BY DEF Verified, verifyPea, wireBytesFromEnvelope, DecodeLenient

\* What from_pea_json checks, all at once.
LEMMA ReaderChecks ==
  ASSUME NEW env, NEW att
  PROVE  att \in ReadBy(env) <=>
            /\ env.spec_version = PEA_SPEC_VERSION
            /\ env.fixture_version = PEA_FIXTURE_VERSION
            /\ WrittenStrictly(env)
            /\ env.borsh_b64.bytes = Serialize(att)
            /\ att.signer \in TrustedSigners
            /\ verify_attestation(att.signer, Serialize(att), env.signature.bytes)
<1> DEFINE Accepts ==
      /\ env.spec_version = PEA_SPEC_VERSION
      /\ env.fixture_version = PEA_FIXTURE_VERSION
      /\ WrittenStrictly(env)
      /\ env.borsh_b64.bytes = Serialize(att)
      /\ att.signer \in TrustedSigners
      /\ verify_attestation(att.signer, Serialize(att), env.signature.bytes)
<1>1. Serialize(att).len = ATTESTATION_BYTES /\ Serialize(att).content = att
  BY DEF Serialize
<1>2. ASSUME att \in ReadBy(env) PROVE Accepts
  <2>1. PICK r \in from_pea_json(env) :
           /\ r.att = att /\ att.signer \in TrustedSigners
           /\ verify_attestation(att.signer, Serialize(att), r.signature)
    BY <1>2 DEF ReadBy
  <2>2. env.spec_version = PEA_SPEC_VERSION /\ env.fixture_version = PEA_FIXTURE_VERSION
    BY <2>1 DEF from_pea_json
  <2>3. PICK w \in DecodeStrict(env.borsh_b64), s \in DecodeStrict(env.signature) :
           RoundTrips(w) /\ r = [att |-> w.content, signature |-> s]
    BY <2>1, <2>2 DEF from_pea_json
  <2>4. /\ env.borsh_b64.form = "strict" /\ w = env.borsh_b64.bytes
        /\ env.signature.form = "strict" /\ s = env.signature.bytes
    BY <2>3 DEF DecodeStrict
  <2>5. r.att = w.content /\ r.signature = s
    BY <2>3
  <2> QED
    BY <2>1, <2>2, <2>3, <2>4, <2>5 DEF RoundTrips, WrittenStrictly
<1>3. ASSUME Accepts PROVE att \in ReadBy(env)
  <2> DEFINE w == env.borsh_b64.bytes
             s == env.signature.bytes
             r == [att |-> w.content, signature |-> s]
  <2>1. w \in DecodeStrict(env.borsh_b64) /\ s \in DecodeStrict(env.signature)
    BY <1>3 DEF DecodeStrict, WrittenStrictly
  <2>2. w.len = ATTESTATION_BYTES /\ w.content = att /\ RoundTrips(w)
    BY <1>1, <1>3 DEF RoundTrips
  <2>3. r \in from_pea_json(env)
    BY <1>3, <2>1, <2>2 DEF from_pea_json
  <2>4. r.att = att /\ r.signature = s
    BY <2>2
  <2> QED
    BY <1>3, <2>3, <2>4 DEF ReadBy
<1> QED
  BY <1>2, <1>3

\* verifyPea accepts issued and unexpired verdicts of trusted servers only.
THEOREM PeaAcceptance == Spec => []AcceptedIsIssuedAndFresh
<1>1. PeaInv => AcceptedIsIssuedAndFresh
  <2> SUFFICES ASSUME PeaInv, Verified PROVE AcceptedIsIssuedAndFresh
    BY DEF AcceptedIsIssuedAndFresh
  <2>1. envelope.attestation \in issued /\ IsVerdict(envelope.attestation)
    BY VerifiedChecks, VerifiedIsIssued
  <2>2. slot <= envelope.attestation.slot + EXPIRY_SLOTS
    BY VerifiedChecks, <2>1 DEF PeaInv, IsVerdict, EXPIRY_SLOTS
  <2> QED
    BY VerifiedChecks, <2>1, <2>2 DEF AcceptedIsIssuedAndFresh
<1> QED
  BY <1>1, PeaInvInit, PeaInvNext, PTL DEF Spec

\* A reader of from_pea_json that verifies the signature gets issued verdicts only,
\* although the magic is never looked at.
THEOREM PeaReader == Spec => []ReaderGetsIssuedVerdict
<1>1. PeaInv => ReaderGetsIssuedVerdict
  <2> SUFFICES ASSUME PeaInv, envelope # NoEnvelope, NEW att \in ReadBy(envelope)
               PROVE  att \in issued /\ verdict_label(att.verdict) # "UNKNOWN"
    BY DEF ReaderGetsIssuedVerdict
  <2>1. verify_attestation(att.signer, Serialize(att), envelope.signature.bytes)
    BY ReaderChecks
  <2>2. att \in issued /\ IsVerdict(att)
    BY <2>1, VerifiedIsIssued
  <2>3. verdict_label(att.verdict) # "UNKNOWN"
    BY <2>2 DEF IsVerdict, verdict_label, VerdictLabels
  <2> QED
    BY <2>2, <2>3
<1> QED
  BY <1>1, PeaInvInit, PeaInvNext, PTL DEF Spec

\* The Rust reader accepts exactly the envelopes that the TypeScript verifier accepts
\* and that are written strictly, up to the object and the slot.
THEOREM PeaAgreement == Spec => []VerifiersAgree
<1>1. PeaInv => VerifiersAgree
  <2> SUFFICES ASSUME PeaInv, envelope # NoEnvelope
               PROVE  Verified /\ WrittenStrictly(envelope)
                        <=> /\ envelope.attestation \in ReadBy(envelope)
                            /\ slot <= envelope.attestation.expiry_slot
    BY DEF VerifiersAgree
  <2> DEFINE att == envelope.attestation
  <2>1. ASSUME Verified, WrittenStrictly(envelope)
        PROVE  att \in ReadBy(envelope) /\ slot <= att.expiry_slot
    <3>1. IsVerdict(att)
      BY <2>1, VerifiedChecks, VerifiedIsIssued
    <3>2. slot <= att.expiry_slot
      BY <2>1, VerifiedChecks, <3>1 DEF PeaInv, IsVerdict, EXPIRY_SLOTS
    <3>3. /\ envelope.spec_version = PEA_SPEC_VERSION
          /\ envelope.fixture_version = PEA_FIXTURE_VERSION
      BY <2>1, VerifiedChecks DEF isPeaEnvelope
    <3>4. att \in ReadBy(envelope)
      BY <2>1, <3>3, VerifiedChecks, ReaderChecks
    <3> QED
      BY <3>2, <3>4
  <2>2. ASSUME att \in ReadBy(envelope), slot <= att.expiry_slot
        PROVE  Verified /\ WrittenStrictly(envelope)
    <3>1. /\ envelope.spec_version = PEA_SPEC_VERSION
          /\ envelope.fixture_version = PEA_FIXTURE_VERSION
          /\ WrittenStrictly(envelope)
          /\ envelope.borsh_b64.bytes = Serialize(att)
          /\ att.signer \in TrustedSigners
          /\ verify_attestation(att.signer, Serialize(att), envelope.signature.bytes)
      BY <2>2, ReaderChecks
    <3>2. att \in issued /\ IsVerdict(att)
      BY <3>1, VerifiedIsIssued
    <3>3. isPeaEnvelope(envelope)
      BY <3>1, <3>2 DEF isPeaEnvelope, IsVerdict, WrittenStrictly
    <3>4. wireBytesFromEnvelope(envelope) = Serialize(att) /\ ~WireBytesThrow(envelope)
      BY <3>1 DEF wireBytesFromEnvelope, DecodeLenient, WireBytesThrow, Serialize
    <3>5. ~(att.expiry_slot < slot)
      BY <2>2, <3>2 DEF PeaInv, IsVerdict, EXPIRY_SLOTS
    <3> QED
      BY <3>1, <3>3, <3>4, <3>5 DEF Verified, verifyPea, DecodeLenient
  <2> QED
    BY <2>1, <2>2
<1> QED
  BY <1>1, PeaInvInit, PeaInvNext, PTL DEF Spec
=============================================================================
