-------------------------------- MODULE Keys --------------------------------
(***************************************************************************)
(* Keys and signatures (lib/signing/signing.go) on a small curve: the      *)
(* private keys are 1..Order - 1, and k and Order - k have points with the *)
(* same x and different y, one of them odd. The x of a point is a number   *)
(* of 1..(Order - 1) \div 2; larger numbers are not on the curve.          *)
(*                                                                         *)
(* A text is a record: the prefix before it ("nsec1", "npub1" or none),    *)
(* how its bytes are written ("hex" or "bech32", which includes the        *)
(* prefix), and the bytes, a number with the flag byte before it (2 or 3)  *)
(* or none. A text that is not a key has another value of written.         *)
(***************************************************************************)
EXTENDS Integers

CONSTANT Order  \* the order of the curve, a prime of 256 bits

ASSUME OrderAssumption == Order \in Nat /\ Order > 2 /\ Order % 2 = 1

PrivateKeys == 1..(Order - 1)
OnCurve == 1..(Order \div 2)

Error == [error |-> TRUE]

\* PubKey of a private key.
PubKey(k) == IF k \in OnCurve THEN [x |-> k, odd |-> FALSE]
                              ELSE [x |-> Order - k, odd |-> TRUE]
-----------------------------------------------------------------------------
(* Texts.                                                                  *)

Bytes(flag, num) == [flag |-> flag, num |-> num]
Text(prefix, written, bytes) == [prefix |-> prefix, written |-> written, bytes |-> bytes]

SerializePrivateKey(k) == Text("", "hex", Bytes(0, k))
SerializePrivateKeyBech32(k) == Text("nsec1", "bech32", Bytes(0, k))

\* schnorr.SerializePubKey keeps x alone.
SerializePublicKey(p) == Text("", "hex", Bytes(0, p.x))
SerializePublicKeyBech32(p) == Text("npub1", "bech32", Bytes(0, p.x))

\* Mutant: bech32 is given the text without its prefix.
DecodeTrimmed(text) == IF text.written = "hex" THEN text.bytes ELSE Error

\* Either prefix may stand before hex, and either kind of key after either.
DecodeKey(text) ==
    IF text.written \in {"hex", "bech32"} THEN text.bytes ELSE Error

\* PrivKeyFromBytes takes any bytes, modulo the order. 0 is no private key.
DeserializePrivateKey(text) ==
    LET bytes == DecodeKey(text)
    IN  IF bytes = Error THEN 0 ELSE bytes.num % Order

ParsePubKey(flag, num) ==
    IF flag \in {2, 3} /\ num \in OnCurve THEN [x |-> num, odd |-> flag = 3] ELSE Error

\* A key without a flag is taken for the point with the odd y, which exists
\* whenever the other does: the even one is never returned.
DeserializePublicKey(text) ==
    LET bytes == DecodeKey(text)
    IN  IF bytes = Error THEN Error
        ELSE ParsePubKey(IF bytes.flag = 0 THEN 3 ELSE bytes.flag, bytes.num)

\* The libp2p key and the peer ID are those of the compressed key.
ConvertPubKeyToLibp2pPeerID(p) == Bytes(IF p.odd THEN 3 ELSE 2, p.x)
-----------------------------------------------------------------------------
(* Signatures. BIP 340 signs and verifies for x alone.                     *)

\* Data are numbers, and their hashes the negative ones.
SHA256(data) == -data

SignData(data, k) == [by |-> PubKey(k).x, of |-> data]
VerifySignature(signature, data, p) == signature = [by |-> p.x, of |-> data]

\* A root that does not parse as a CID is the number 0.
SignSerializedCid(root, k) == IF root = 0 THEN Error ELSE SignData(SHA256(root), k)
VerifySerializedCIDSignature(signature, root, p) ==
    root # 0 /\ VerifySignature(signature, SHA256(root), p)
-----------------------------------------------------------------------------
(* Correctness.                                                            *)

\* A key survives each of its texts: a private key is read back as it was, a
\* public key as one with the same x, so the same texts and the same
\* signatures, and every text without a flag leads to the same peer ID.
RoundTrip(k) ==
    LET p == PubKey(k)
        publicTexts == {SerializePublicKey(p), SerializePublicKeyBech32(p),
                        [SerializePublicKey(p) EXCEPT !.prefix = "npub1"]}
        peers == {DeserializePublicKey(t) : t \in publicTexts}
    IN  /\ DeserializePrivateKey(SerializePrivateKey(k)) = k
        /\ DeserializePrivateKey(SerializePrivateKeyBech32(k)) = k
        /\ \A q \in peers : SerializePublicKey(q) = SerializePublicKey(p)
        /\ \A q, r \in peers :
               ConvertPubKeyToLibp2pPeerID(q) = ConvertPubKeyToLibp2pPeerID(r)
=============================================================================
