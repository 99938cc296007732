----------------------------- MODULE StatusList -----------------------------
(***************************************************************************)
(* The status list of packages/vc-toolkit (status-list.ts): an array of    *)
(* bytes with a bit for each credential, changed by copies, compressed     *)
(* into a credential that is published, and read back from there.  A byte  *)
(* is the set of its bits that are 1.                                      *)
(***************************************************************************)
EXTENDS Integers, FiniteSets

CONSTANTS
    ByteBits,   \* 8
    Size,       \* createStatusList(size)
    Indices     \* indices that the callers pass

ASSUME StatusListAssumption ==
    /\ ByteBits \in Nat \ {0} /\ Size \in Nat
    /\ Indices \subseteq Int

VARIABLES
    list,      \* the holder's list
    encoded,   \* credentialSubject.encodedList of the published credential
    request    \* the last request for a slot of the list

statusVars == <<list, encoded, request>>

BitsOfByte == 0 .. ByteBits - 1

\* createStatusList: Math.ceil(size / 8) bytes.
ByteLength == (Size + ByteBits - 1) \div ByteBits
Bytes      == 0 .. ByteLength - 1

createStatusList == [b \in Bytes |-> {}]

\* Math.floor(index / 8), and the % of JavaScript, which keeps the sign.
byteIndex(i) == i \div ByteBits

bitIndex(i) == IF i >= 0 THEN i % ByteBits ELSE -((-i) % ByteBits)

\* Only an index beyond the end is an error.
OutOfBounds(i) == byteIndex(i) >= ByteLength

\* Mutant: the bit is toggled off by an OR with 0.
SetOnly(l, i, value) ==
    [b \in Bytes |-> IF b = byteIndex(i) THEN l[b] \cup {bitIndex(i)} ELSE l[b]]

\* An element before the beginning of a Uint8Array is neither read nor written.
setStatus(l, i, value) ==
    [b \in Bytes |->
        IF b # byteIndex(i) THEN l[b]
        ELSE IF value THEN l[b] \cup {bitIndex(i)} ELSE l[b] \ {bitIndex(i)}]

getStatus(l, i) == byteIndex(i) \in Bytes /\ bitIndex(i) \in l[byteIndex(i)]

\* Base64 of gzip of the bytes, an opaque text, and the bytes it was made of.
encodeStatusList(l) == [gzipped |-> l]
decodeStatusList(e) == e.gzipped

AllSlots == 0 .. ByteLength * ByteBits - 1

StatusInit ==
    /\ list = createStatusList
    /\ encoded = encodeStatusList(createStatusList)
    /\ request = <<>>

Note(i, value) == request' = IF i \in AllSlots THEN <<i, value>> ELSE request

revokeCredential(i) ==
    /\ ~OutOfBounds(i)
    /\ list' = setStatus(list, i, TRUE)
    /\ Note(i, TRUE)
    /\ UNCHANGED encoded

unrevokeCredential(i) ==
    /\ ~OutOfBounds(i)
    /\ list' = setStatus(list, i, FALSE)
    /\ Note(i, FALSE)
    /\ UNCHANGED encoded

createStatusListCredential ==
    /\ encoded' = encodeStatusList(list)
    /\ UNCHANGED <<list, request>>

StatusNext ==
    \/ \E i \in Indices : revokeCredential(i) \/ unrevokeCredential(i)
    \/ createStatusListCredential

StatusSpec == StatusInit /\ [][StatusNext]_statusVars

checkCredentialStatus(i) == getStatus(decodeStatusList(encoded), i)

\* getStatusListStats counts over all the slots.
revokedCount == Cardinality({i \in AllSlots : getStatus(list, i)})
-----------------------------------------------------------------------------
\* Shapes: each byte of the list, and of what was published, has its bits only.
StatusTypeOK ==
    /\ list \in [Bytes -> SUBSET BitsOfByte]
    /\ encoded \in [gzipped : [Bytes -> SUBSET BitsOfByte]]

RevokedSlots == {i \in AllSlots : getStatus(list, i)}

\* No two credentials share a bit, also across the border of a byte, and none is beyond
\* the array: revoking or restoring one changes what is read of it and of no other, and
\* whoever checks sees the list as it was when it was last published.
Register == INSTANCE Revocation WITH
    Slots     <- AllSlots,
    revoked   <- RevokedSlots,
    announced <- {i \in AllSlots : checkCredentialStatus(i)},
    asked     <- request

ImplementsRegister == Register!RSpec

\* The statistics agree with the bits of the array.
CountIsOfBits ==
    revokedCount = Cardinality({x \in Bytes \X BitsOfByte : x[2] \in list[x[1]]})
=============================================================================
