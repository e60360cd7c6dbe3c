---------------------------- MODULE PeaExchange ----------------------------
(***************************************************************************)
(* Attestations between the servers that sign them and the consumers that  *)
(* verify them.  A server signs with the slot its fork was pinned to when  *)
(* it started; the chain moves on.  On its way an envelope may be cached,  *)
(* truncated, mixed with another one, written in another dialect of base64 *)
(* or hex, or rewritten by a codec that drifted: any of its parts may      *)
(* become a part of something else.                                        *)
(***************************************************************************)
EXTENDS Attestation, FiniteSets

CONSTANTS Signers,          \* keys of the servers, the well-known dev key among them
          TrustedSigners,   \* the ones a consumer trusts
          TxHashes,         \* hashes of evaluated transactions, policies and BLOCKs
          Judged,           \* the judgements of the evaluations: [verdict, score]
          NoEnvelope,       \* the consumer holds nothing yet
          MaxSlot,          \* bound on the slots of the chain
          MaxSigned,        \* bound on the signatures made
          MaxReplaced       \* bound on the parts of an envelope that are replaced

ASSUME ExchangeAssumption ==
    /\ TrustedSigners \subseteq Signers
    /\ Judged \subseteq [verdict : {"APPROVE", "WARN", "BLOCK"}, score : 0..10000]
    /\ MaxSlot \in Nat /\ MaxSigned \in Nat /\ MaxReplaced \in Nat

VARIABLES slot,         \* the current slot of the chain
          pinned,       \* pinned_slot of each server's fork
          issued,       \* the attestations their pipelines returned
          signatures,   \* every signature made
          envelope,     \* what the consumer holds
          replaced      \* how often a part of it was replaced

heldVars == <<envelope, replaced>>
vars == <<slot, pinned, issued, signatures, envelope, replaced>>

\* Slots count from the start of the servers.
Init ==
    /\ slot = 0
    /\ pinned = [k \in Signers |-> slot]
    /\ issued = {} /\ signatures = {}
    /\ envelope = NoEnvelope /\ replaced = 0

NewSlot ==
    /\ slot < MaxSlot
    /\ slot' = slot + 1
    /\ UNCHANGED <<pinned, issued, signatures, heldVars>>

\* A server starts again.  Online it pins the current slot, offline it keeps 0.
Restart(k) ==
    /\ pinned' \in {[pinned EXCEPT ![k] = s] : s \in {0, slot}}
    /\ UNCHANGED <<slot, issued, signatures, heldVars>>

CanSign == Cardinality(signatures) < MaxSigned

Issue(k, att) ==
    /\ CanSign
    /\ issued' = issued \cup {att}
    /\ signatures' = signatures \cup {sign_attestation(k, att)}
    /\ UNCHANGED <<slot, pinned, heldVars>>

\* Step 7 of evaluate_raw_tx.
SignVerdict(k, tx_hash, j) ==
    Issue(k, NewAttestation(tx_hash, j.verdict, j.score, tx_hash, pinned[k], k, 0))

\* build_timeout_response; the elapsed time saturates at 16 bits.
SignTimeout(k, tx_hash) ==
    Issue(k, new_timeout(tx_hash, "zero", pinned[k], k, 200))

\* The other two kinds that the same key may sign.
SignPolicy(k, policy_hash) ==
    /\ CanSign
    /\ signatures' = signatures \cup
          {sign_policy_attestation(k, NewPolicy(policy_hash, k, pinned[k], 0))}
    /\ UNCHANGED <<slot, pinned, issued, heldVars>>

SignOverride(k, attestation_hash) ==
    /\ CanSign
    /\ signatures' = signatures \cup
          {sign_override_attestation(k, NewOverride(attestation_hash, 0, k, pinned[k]))}
    /\ UNCHANGED <<slot, pinned, issued, heldVars>>

\* The consumer gets the envelope of an issued attestation.
Receive(att) ==
    /\ envelope' = to_pea_json(att, sign_attestation(att.signer, att))
    /\ replaced' = 0
    /\ UNCHANGED <<slot, pinned, issued, signatures>>

\* What drift makes of an attestation: another or an unknown verdict, a later
\* expiry, another signer.
Drifted(att) ==
    {att, [att EXCEPT !.expiry_slot = @ + 1]}
    \cup {[att EXCEPT !.verdict = v] : v \in {0, 4}}
    \cup {[att EXCEPT !.signer = k] : k \in Signers}

Objects == UNION {Drifted(att) : att \in issued}

Wires ==
    {Serialize(att) : att \in Objects} \cup {s.bytes : s \in signatures}
    \cup {[len |-> ATTESTATION_BYTES - 1, content |-> att] : att \in issued}

\* One part of the held envelope is replaced.
Replaced ==
    /\ envelope # NoEnvelope
    /\ replaced < MaxReplaced
    /\ replaced' = replaced + 1
    /\ \/ \E att \in Objects : envelope' = [envelope EXCEPT !.attestation = att]
       \/ \E w \in Wires : envelope' = [envelope EXCEPT !.borsh_b64 = Text("strict", w)]
       \/ \E s \in signatures : envelope' = [envelope EXCEPT !.signature = Text("strict", s)]
       \/ envelope' = [envelope EXCEPT !.borsh_b64 = Text("loose", envelope.borsh_b64.bytes)]
       \/ \E form \in {"loose", "short"} :
             envelope' = [envelope EXCEPT !.signature = Text(form, envelope.signature.bytes)]
       \/ envelope' = [envelope EXCEPT !.spec_version = "ciel-pea/2.0"]
       \/ envelope' = [envelope EXCEPT !.fixture_version = "ciel_attestation_v2"]
    /\ UNCHANGED <<slot, pinned, issued, signatures>>

SignSomething(k) ==
    \E h \in TxHashes :
        \/ \E j \in Judged : SignVerdict(k, h, j)
        \/ SignTimeout(k, h) \/ SignPolicy(k, h) \/ SignOverride(k, h)

Next ==
    \/ NewSlot
    \/ \E k \in Signers : Restart(k) \/ SignSomething(k)
    \/ \E att \in issued : Receive(att)
    \/ Replaced

Spec == Init /\ [][Next]_vars

\* The chain goes on, whatever the servers and the consumers do.
FairSpec == Spec /\ WF_vars(NewSlot)
----------------------------------------------------------------------------
(* Properties.                                                             *)

Verified == envelope # NoEnvelope /\ verifyPea(envelope, slot, TrustedSigners) = "valid"

\* verifyPea ties together an object, wire bytes, a signature and a slot that may
\* come from four places.  What it accepts is, field by field, an attestation that
\* the pipeline of a trusted server returned, and its window of EXPIRY_SLOTS slots
\* after the pinned slot is not over.
AcceptedIsIssuedAndFresh ==
    Verified => /\ envelope.attestation \in issued
                /\ envelope.attestation.signer \in TrustedSigners
                /\ slot <= envelope.attestation.slot + EXPIRY_SLOTS

\* What a Rust consumer gets: from_pea_json, then verify_attestation as its comment
\* asks the caller to, under a key it trusts.
ReadBy(env) ==
    {r.att : r \in {x \in from_pea_json(env) :
                      /\ x.att.signer \in TrustedSigners
                      /\ verify_attestation(x.att.signer, Serialize(x.att), x.signature)}}

\* What the three properties rest on.  Every signature over as many bytes as a
\* verdict has covers an issued attestation, whose fields new set; an envelope
\* carries a signature that somebody made.
IsVerdict(att) ==
    /\ att.magic = CIEL_ATTESTATION_MAGIC /\ att.version = ATTESTATION_VERSION
    /\ att.slot \in Nat /\ att.expiry_slot = att.slot + EXPIRY_SLOTS
    /\ att.verdict \in 0..3
    /\ att.signer \in Signers

PeaInv ==
    /\ slot \in Nat
    /\ pinned \in [Signers -> Nat]
    /\ \A att \in issued : IsVerdict(att) /\ sign_attestation(att.signer, att) \in signatures
    /\ \A s \in signatures : s.bytes.len = ATTESTATION_BYTES => s.bytes.content \in issued
    /\ envelope # NoEnvelope =>
          /\ DOMAIN envelope = {"spec_version", "attestation", "signature", "borsh_b64",
                                "fixture_version"}
          /\ envelope.signature.bytes \in signatures
          /\ envelope.signature.form \in {"strict", "loose", "short"}

\* from_pea_json checks neither the magic nor the version of what it decodes, and
\* the same key signs policies and overrides.  Only their length keeps them from
\* being read as verdicts: what a reader accepts was issued as a verdict.
ReaderGetsIssuedVerdict ==
    envelope # NoEnvelope => \A att \in ReadBy(envelope) :
        att \in issued /\ verdict_label(att.verdict) # "UNKNOWN"

\* The two implementations of the envelope, up to what only one of them looks at, the
\* JSON object and the slot.  The Rust reader accepts what the TypeScript verifier
\* accepts and nothing else, when both texts are written strictly; a dialect that
\* Buffer.from and parseInt read is for TypeScript only.
WrittenStrictly(env) == env.borsh_b64.form = "strict" /\ env.signature.form = "strict"

VerifiersAgree ==
    envelope # NoEnvelope =>
        (Verified /\ WrittenStrictly(envelope)
           <=> /\ envelope.attestation \in ReadBy(envelope)
               /\ slot <= envelope.attestation.expiry_slot)

\* spec/ciel-pea-1.0.md: the slot is the one "at which the attestation was issued",
\* and the verdict "expires in 2 slots": no verdict is expired when it is issued.
IssuedVerdictIsFresh == [][\A att \in issued' \ issued : slot <= att.expiry_slot]_vars
=============================================================================
