----------------------------- MODULE Attestation -----------------------------
(***************************************************************************)
(* Attestations, their signatures and the PEA envelope they travel in:     *)
(* crates/ciel-signer, and the verifier of the TypeScript SDK              *)
(* (sdk/typescript/src/pea.ts).                                            *)
(*                                                                         *)
(* Bytes are [len, content].  Borsh writes every field of an attestation   *)
(* at a fixed width, so serialising is injective and every string of the   *)
(* right length decodes: nothing but the length is checked.  A signature   *)
(* is the key that made it and the bytes it covers.  timestamp and the     *)
(* optimality score of a verdict, which is always 0, are left out.         *)
(***************************************************************************)
EXTENDS Integers

CIEL_ATTESTATION_MAGIC == "CIEL"
POLICY_ATTESTATION_MAGIC == "CILP"
OVERRIDE_ATTESTATION_MAGIC == "CLOV"

ATTESTATION_VERSION == 1

TIMEOUT_SENTINEL == 65535

EXPIRY_SLOTS == 2

\* verdict as u8.
VerdictCode == [APPROVE |-> 0, WARN |-> 1, BLOCK |-> 2, TIMEOUT |-> 3]

\* CielAttestation::new.
NewAttestation(tx_hash, verdict, safety_score, outputs_hash, slot, signer, timeout_ms) ==
    [magic |-> CIEL_ATTESTATION_MAGIC, version |-> ATTESTATION_VERSION,
     tx_hash |-> tx_hash, verdict |-> VerdictCode[verdict], safety_score |-> safety_score,
     checker_outputs_hash |-> outputs_hash,
     slot |-> slot, expiry_slot |-> slot + EXPIRY_SLOTS,
     signer |-> signer, timeout_at_ms |-> timeout_ms]

\* CielAttestation::new_timeout.
new_timeout(tx_hash, checker_outputs_hash, slot, signer, timeout_at_ms) ==
    NewAttestation(tx_hash, "TIMEOUT", TIMEOUT_SENTINEL, checker_outputs_hash, slot, signer,
                   timeout_at_ms)

\* PolicyAttestation::new.
NewPolicy(policy_hash, signer, issued_slot, expires_at) ==
    [magic |-> POLICY_ATTESTATION_MAGIC, version |-> ATTESTATION_VERSION,
     policy_hash |-> policy_hash, signer |-> signer, issued_slot |-> issued_slot,
     expires_at |-> expires_at, revoked |-> FALSE]

\* OverrideAttestation::new.
NewOverride(original_attestation_hash, override_type, overrider, slot) ==
    [magic |-> OVERRIDE_ATTESTATION_MAGIC, version |-> ATTESTATION_VERSION,
     original_attestation_hash |-> original_attestation_hash,
     override_type |-> override_type, overrider |-> overrider, slot |-> slot]

\* borsh::to_vec: 132 bytes for a CielAttestation, 86 for each of the other two.
ATTESTATION_BYTES == 132
OTHER_BYTES == 86

Serialize(att) == [len |-> ATTESTATION_BYTES, content |-> att]

\* Mutant: policies are padded to the size of a verdict.
SerializePadded(att) ==
    [len     |-> IF att.magic = POLICY_ATTESTATION_MAGIC THEN ATTESTATION_BYTES ELSE OTHER_BYTES,
     content |-> att]

SerializeOther(att) == [len |-> OTHER_BYTES, content |-> att]
----------------------------------------------------------------------------
(* CielSigner; a key stands for its secret and its public half.            *)

Sign(key, bytes) == [key |-> key, bytes |-> bytes]

sign_attestation(key, att) == Sign(key, Serialize(att))

sign_policy_attestation(key, att) == Sign(key, SerializeOther(att))

sign_override_attestation(key, att) == Sign(key, SerializeOther(att))

\* verify_strict under the public key: what was signed is what is presented.
verify_attestation(pubkey, message_bytes, signature) ==
    signature = Sign(pubkey, message_bytes)
----------------------------------------------------------------------------
(* The PEA envelope, a JSON document.  Flags, intent and issuer are not    *)
(* signed and not read by either verifier.                                 *)
(*                                                                         *)
(* Bytes travel as text.  A text is the bytes a lenient decoder makes of   *)
(* it and the way they are written: "strict" is base64 of RFC 4648 with    *)
(* the standard alphabet, or pairs of hex digits; "loose" has white space, *)
(* the url-safe alphabet or characters that are no digits among them;      *)
(* "short" is a hex text that does not have 128 characters.                *)

Text(form, bytes) == [form |-> form, bytes |-> bytes]

\* base64 STANDARD.decode and hex::decode into [u8; 64]: the bytes, or nothing on an
\* error.
DecodeStrict(text) == IF text.form = "strict" THEN {text.bytes} ELSE {}

\* Buffer.from(text, 'base64') skips what it does not know and reads the url-safe
\* alphabet; the parseInt of hexToBytes reads what it can of two characters and
\* stores NaN as 0.
DecodeLenient(text) == text.bytes

PEA_SPEC_VERSION == "ciel-pea/1.0"

PEA_FIXTURE_VERSION == "ciel_attestation_v1"

to_pea_json(att, signature) ==
    [spec_version |-> PEA_SPEC_VERSION, attestation |-> att,
     signature |-> Text("strict", signature),
     borsh_b64 |-> Text("strict", Serialize(att)), fixture_version |-> PEA_FIXTURE_VERSION]

\* The bytes that are the serialisation of what they decode to.
RoundTrips(wire_bytes) == Serialize(wire_bytes.content) = wire_bytes

\* Mutant: the wire bytes are decoded as the SDK decodes them.
from_pea_json_lenient(envelope) ==
    IF /\ envelope.spec_version = PEA_SPEC_VERSION
       /\ envelope.fixture_version = PEA_FIXTURE_VERSION
    THEN {[att |-> w.content, signature |-> s] :
             w \in {b \in {DecodeLenient(envelope.borsh_b64)} :
                      b.len = ATTESTATION_BYTES /\ RoundTrips(b)},
             s \in DecodeStrict(envelope.signature)}
    ELSE {}

\* The result, or nothing on an error.  The attestation is decoded from the wire
\* bytes, and serialised again to be compared with the same bytes;
\* envelope.attestation is never looked at.
from_pea_json(envelope) ==
    IF /\ envelope.spec_version = PEA_SPEC_VERSION
       /\ envelope.fixture_version = PEA_FIXTURE_VERSION
    THEN {[att |-> w.content, signature |-> s] :
             w \in {b \in DecodeStrict(envelope.borsh_b64) :
                      b.len = ATTESTATION_BYTES /\ RoundTrips(b)},
             s \in DecodeStrict(envelope.signature)}
    ELSE {}

VerdictLabels == <<"APPROVE", "WARN", "BLOCK", "TIMEOUT">>

verdict_label(verdict) ==
    IF verdict \in 0..3 THEN VerdictLabels[verdict + 1] ELSE "UNKNOWN"

isPeaEnvelope(envelope) ==
    /\ envelope.spec_version = PEA_SPEC_VERSION
    /\ envelope.attestation.magic = CIEL_ATTESTATION_MAGIC
    /\ envelope.attestation.version = ATTESTATION_VERSION
    /\ envelope.signature.form # "short"
    /\ envelope.fixture_version = PEA_FIXTURE_VERSION

wireBytesFromEnvelope(envelope) == DecodeLenient(envelope.borsh_b64)

\* wireBytesFromEnvelope throws on any other length.
WireBytesThrow(envelope) == wireBytesFromEnvelope(envelope).len # ATTESTATION_BYTES

\* Mutant: the object is not compared with the wire bytes.
verifyPeaUncompared(envelope, currentSlot, trustedSigners) ==
    IF ~isPeaEnvelope(envelope) THEN "shape"
    ELSE IF WireBytesThrow(envelope) THEN "throws"
    ELSE IF ~verify_attestation(envelope.attestation.signer, wireBytesFromEnvelope(envelope),
                                DecodeLenient(envelope.signature)) THEN "signature"
    ELSE IF envelope.attestation.expiry_slot < currentSlot THEN "stale"
    ELSE IF envelope.attestation.signer \notin trustedSigners THEN "untrusted_signer"
    ELSE "valid"

\* The answer is a reason, or "valid"; the wire bytes are compared with the
\* serialised object, which ties what is displayed to what was signed.
verifyPea(envelope, currentSlot, trustedSigners) ==
    IF ~isPeaEnvelope(envelope) THEN "shape"
    ELSE IF WireBytesThrow(envelope) THEN "throws"
    ELSE IF Serialize(envelope.attestation) # wireBytesFromEnvelope(envelope)
         THEN "wire_mismatch"
    ELSE IF ~verify_attestation(envelope.attestation.signer, wireBytesFromEnvelope(envelope),
                                DecodeLenient(envelope.signature)) THEN "signature"
    ELSE IF envelope.attestation.expiry_slot < currentSlot THEN "stale"
    ELSE IF envelope.attestation.signer \notin trustedSigners THEN "untrusted_signer"
    ELSE "valid"
=============================================================================
