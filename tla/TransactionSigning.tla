------------------------- MODULE TransactionSigning -------------------------
(***************************************************************************)
(* The signer: RLP, ECDSA with a recovery id, and the transactions of type *)
(* 2 and 4 the runner sends raw; and the node that takes them apart again. *)
(* The curve is y^2 = x^3 + b over a small field, of prime order.          *)
(***************************************************************************)
EXTENDS Assembler

CONSTANTS CurveP, CurveN, CurveG      \* SECP256K1_P, SECP256K1_N, SECP256K1_G

ASSUME CurveAssumption ==
    /\ CurveP \in Nat /\ CurveN \in 3 .. 255 /\ CurveP < CurveN
    /\ CurveG \in (0 .. CurveP - 1) \X (0 .. CurveP - 1)

Infinity == <<>>                       \* None, the point that is no pair
ModInverse(a, m) == CHOOSE b \in 1 .. m - 1 : (a * b) % m = 1

PointAdd(left, right) ==
    IF left = Infinity THEN right
    ELSE IF right = Infinity THEN left
    ELSE IF left[1] = right[1] /\ (left[2] + right[2]) % CurveP = 0 THEN Infinity
    ELSE LET slope == (IF left = right
                       THEN 3 * left[1] * left[1] * ModInverse((2 * left[2]) % CurveP, CurveP)
                       ELSE (right[2] - left[2])
                              * ModInverse((right[1] - left[1]) % CurveP, CurveP)) % CurveP
             x3 == (slope * slope - left[1] - right[1]) % CurveP
         IN  <<x3, (slope * (left[1] - x3) - left[2]) % CurveP>>

Points == {Infinity} \union ((0 .. CurveP - 1) \X (0 .. CurveP - 1))
PointMultiply(scalar, point) ==
    LET times[k \in 0 .. scalar, addend \in Points, result \in Points] ==
            IF k = 0 THEN result
            ELSE times[k \div 2, PointAdd(addend, addend),
                       IF k % 2 = 1 THEN PointAdd(result, addend) ELSE result]
    IN  times[scalar, point, Infinity]
Multiple == [k \in 1 .. CurveN - 1 |-> PointMultiply(k, CurveG)]

(* The last bytes of the digest of the public key. *)
AddressOf(public) == Keccak(ToBytes(public[1], WordBytes) \o ToBytes(public[2], WordBytes))
PrivateKeyToAddress(private_key) == AddressOf(Multiple[private_key])

-----------------------------------------------------------------------------
(* _sign_digest: k is drawn again while r or s is 0; of s and n - s the    *)
(* smaller one is taken, which is the signature of the mirrored point.     *)
RecoveryId(point) == (point[2] % 2) + (IF point[1] >= CurveN THEN 2 ELSE 0)
Mirrored(recovery_id) == recovery_id + 1 - 2 * (recovery_id % 2)
LowSAlone(recovery_id, r, s) ==        \* faulty variant: the point is not mirrored
    IF s > CurveN \div 2 THEN <<recovery_id, r, CurveN - s>> ELSE <<recovery_id, r, s>>
LowS(recovery_id, r, s) ==
    IF s > CurveN \div 2 THEN <<Mirrored(recovery_id), r, CurveN - s>>
    ELSE <<recovery_id, r, s>>

SignDigest(private_key, z) ==
    LET r(k) == Multiple[k][1] % CurveN
        s(k) == (ModInverse(k, CurveN) * (z + r(k) * private_key)) % CurveN
    IN  {LowS(RecoveryId(Multiple[k]), r(k), s(k)) :
            k \in {j \in 1 .. CurveN - 1 : r(j) # 0 /\ s(j) # 0}}

-----------------------------------------------------------------------------
(* _rlp_encode: of a byte string, and of a list of items encoded already.  *)
IntToBytes(v) == ToBytes(v, ByteLength(v))
EncodeLength(length, offset) ==
    IF length < 56 THEN <<length + offset>>
    ELSE <<Len(IntToBytes(length)) + offset + 55>> \o IntToBytes(length)
RlpBytes(bytes) ==
    IF Len(bytes) = 1 /\ bytes[1] < 128 THEN bytes ELSE EncodeLength(Len(bytes), 128) \o bytes
RlpInt(v) == RlpBytes(IntToBytes(v))
RlpList(items) == LET payload == Concat(items) IN EncodeLength(Len(payload), 192) \o payload

(* A payload is signed as a list under its type byte. *)
SigningHash(type, payload) == Keccak(<<type>> \o RlpList(payload))
SignedPayloads(private_key, type, payload) ==
    {RlpList(payload \o <<RlpInt(sig[1]), RlpInt(sig[2]), RlpInt(sig[3])>>) :
        sig \in SignDigest(private_key, SigningHash(type, payload))}

AuthorizationAsTransaction(private_key, chain_id, address, nonce) ==   \* faulty: not under 0x05
    SignedPayloads(private_key, 4,
                   <<RlpInt(chain_id), RlpBytes(ToBytes(address, WordBytes)), RlpInt(nonce)>>)
SignAuthorization(private_key, chain_id, address, nonce) ==
    SignedPayloads(private_key, 5,
                   <<RlpInt(chain_id), RlpBytes(ToBytes(address, WordBytes)), RlpInt(nonce)>>)

(* A transaction with authorizations is of type 4, any other of type 2;    *)
(* one that creates a contract has no receiver.                            *)
Common(chain_id, t) ==
    <<RlpInt(chain_id), RlpInt(t.nonce), RlpInt(t.maxPriorityFeePerGas), RlpInt(t.maxFeePerGas),
      RlpInt(t.gas), RlpBytes(t.to), RlpInt(t.value), RlpBytes(t.data), RlpList(<<>>)>>
SignType2(private_key, chain_id, t) ==
    {<<2>> \o signed : signed \in SignedPayloads(private_key, 2, Common(chain_id, t))}
SignType4(private_key, chain_id, t) ==
    {<<4>> \o signed : signed \in
        SignedPayloads(private_key, 4, Append(Common(chain_id, t), RlpList(t.authorizations)))}
SignTransaction(private_key, chain_id, t) ==
    IF t.authorizations = <<>> THEN SignType2(private_key, chain_id, t)
    ELSE SignType4(private_key, chain_id, t)

-----------------------------------------------------------------------------
(* The node's side, code outside src/.  The item that starts at a byte,    *)
(* the items between two bytes, and what they hold.                        *)
Item(bytes, at) ==
    LET prefix == bytes[at]
        wide == (prefix >= 184 /\ prefix < 192) \/ prefix >= 248
        head == IF prefix < 128 THEN 0
                ELSE 1 + (IF wide THEN prefix - (IF prefix < 192 THEN 183 ELSE 247) ELSE 0)
    IN  [list |-> prefix >= 192,
         from |-> at + head,
         length |-> IF prefix < 128 THEN 1
                    ELSE IF wide THEN FromBytes(SubSeq(bytes, at + 1, at + head - 1))
                    ELSE prefix - (IF prefix < 192 THEN 128 ELSE 192)]
After(item) == item.from + item.length
Content(bytes, item) == SubSeq(bytes, item.from, After(item) - 1)
Items(bytes, item) ==
    LET rest[at \in Nat] == IF at >= After(item) THEN <<>>
                            ELSE <<Item(bytes, at)>> \o rest[After(Item(bytes, at))]
    IN  rest[item.from]

(* An integer has no leading zeros. *)
IsInt(content) == Len(content) <= WordBytes /\ (content # <<>> => content[1] # 0)

(* The address that signed a list: the public key is (s R - z G) / r for   *)
(* the point R of the recovery id, here k times G.                         *)
Recovered(z, y_parity, r, s) ==
    LET candidates == {k \in 1 .. CurveN - 1 : Multiple[k][1] = r /\ Multiple[k][2] % 2 = y_parity}
        key(k) == (ModInverse(r, CurveN) * (s * k - z)) % CurveN
    IN  {PrivateKeyToAddress(key(k)) : k \in {j \in candidates : key(j) # 0}}
Senders(bytes, type, list, fields) ==
    LET n == Len(fields)
        number(i) == FromBytes(Content(bytes, fields[i]))
        unsigned == SubSeq(bytes, list.from, After(fields[n - 3]) - 1)
        hash == Keccak(<<type>> \o EncodeLength(Len(unsigned), 192) \o unsigned)
    IN  IF /\ \A i \in n - 2 .. n : IsInt(Content(bytes, fields[i]))
           /\ number(n - 2) \in {0, 1} /\ number(n - 1) \in 1 .. CurveN - 1
           /\ number(n) \in 1 .. CurveN \div 2
        THEN Recovered(hash, number(n - 2), number(n - 1), number(n)) ELSE {}

(* What a node reads in an authorization and in a raw transaction; the     *)
(* signers are a set of one address, or none.                              *)
DecodeAuthorization(bytes, item) ==
    LET fields == Items(bytes, item)
        number(i) == FromBytes(Content(bytes, fields[i]))
    IN  [chain_id |-> number(1), address |-> number(2), nonce |-> number(3),
         signers |-> Senders(bytes, 5, item, fields)]
DecodeTransaction(raw) ==
    LET list == Item(raw, 2)
        fields == Items(raw, list)
        content(i) == Content(raw, fields[i])
        number(i) == FromBytes(content(i))
        entries == IF raw[1] = 4 THEN Items(raw, fields[10]) ELSE <<>>
    IN  [type |-> raw[1],
         wellFormed |-> /\ list.list /\ After(list) = Len(raw) + 1
                        /\ Len(fields) = IF raw[1] = 4 THEN 13 ELSE 12
                        /\ \A i \in {1, 2, 3, 4, 5, 7} : IsInt(content(i))
                        /\ Len(content(6)) \in {0, WordBytes},
         chain_id |-> number(1), nonce |-> number(2), gas |-> number(5),
         to |-> content(6), value |-> number(7), data |-> content(8),
         authorizations |-> [i \in DOMAIN entries |-> DecodeAuthorization(raw, entries[i])],
         signers |-> Senders(raw, raw[1], list, fields)]
=============================================================================
