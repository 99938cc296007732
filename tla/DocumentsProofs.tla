-------------------------- MODULE DocumentsProofs ---------------------------
(***************************************************************************)
(* Theorems about StatusList, DIDWeb, Sharing and Platform: what is        *)
(* published, what is handed over and what a page shows of it, for any     *)
(* sizes, domains, identifiers and pages.                                  *)
(***************************************************************************)
EXTENDS StatusList, DIDWeb, Sharing, Platform, Foundations

-----------------------------------------------------------------------------
(* The status list                                                          *)

LEMMA ByteLengthIsNat == ByteLength \in Nat /\ ByteBits \in Nat \ {0}
<1>1. ByteBits \in Nat \ {0} /\ Size + ByteBits - 1 \in Nat
  BY StatusListAssumption
<1> QED
  BY <1>1, QuotientIsNat DEF ByteLength

\* The slots of the list are those whose byte is there.
LEMMA SlotHasItsBit ==
  ASSUME NEW i \in AllSlots
  PROVE  /\ byteIndex(i) \in Bytes /\ bitIndex(i) \in BitsOfByte
         /\ i = ByteBits * byteIndex(i) + bitIndex(i)
         /\ i \in Nat
<1>1. ByteLength \in Nat /\ ByteBits \in Nat \ {0}
  BY ByteLengthIsNat
<1>2. PICK n \in Nat : n = ByteLength * ByteBits
  BY <1>1
<1>3. i \in Nat /\ i < n
  BY <1>2 DEF AllSlots
<1>4. PICK q \in Nat, r \in Nat : q = i \div ByteBits /\ r = i % ByteBits /\ r < ByteBits
  <2>1. i \div ByteBits \in Nat
    BY <1>1, <1>3, QuotientIsNat
  <2>2. i % ByteBits \in Nat /\ i % ByteBits < ByteBits
    BY <1>1, <1>3, Quotient
  <2> QED
    BY <2>1, <2>2
<1>5. i = ByteBits * q + r
  BY <1>1, <1>3, <1>4, Quotient
<1>6. q < ByteLength
  <2> SUFFICES ASSUME ByteLength <= q PROVE FALSE
    BY <1>1, <1>4
  <2>1. ByteBits * ByteLength <= ByteBits * q
    BY <1>1, <1>4, Monotonic
  <2>2. PICK x \in Nat : x = ByteBits * q
    BY <1>1, <1>4
  <2>3. n = ByteBits * ByteLength
    BY <1>1, <1>2
  <2> QED
    BY <1>3, <1>4, <1>5, <2>1, <2>2, <2>3
<1> QED
  BY <1>1, <1>3, <1>4, <1>5, <1>6 DEF byteIndex, bitIndex, Bytes, BitsOfByte

LEMMA NoOtherByte ==
  ASSUME NEW i \in Int, byteIndex(i) \in Bytes
  PROVE  i \in AllSlots
<1>1. ByteLength \in Nat /\ ByteBits \in Nat \ {0}
  BY ByteLengthIsNat
<1>2. PICK q \in Nat : q = i \div ByteBits /\ q + 1 <= ByteLength
  BY <1>1 DEF byteIndex, Bytes
<1>3. PICK r \in Nat : r = i % ByteBits /\ r < ByteBits
  BY <1>1, Quotient
<1>4. i = ByteBits * q + r
  BY <1>1, <1>2, <1>3, Quotient
<1>5. ByteBits * (q + 1) <= ByteBits * ByteLength
  BY <1>1, <1>2, Monotonic
<1>6. PICK x \in Nat : x = ByteBits * q
  BY <1>1, <1>2
<1>7. ByteBits * (q + 1) = x + ByteBits
  BY <1>1, <1>2, <1>6
<1>8. PICK n \in Nat : n = ByteLength * ByteBits /\ n = ByteBits * ByteLength
  BY <1>1
<1>9. i \in Nat /\ i < n
  BY <1>1, <1>3, <1>4, <1>5, <1>6, <1>7, <1>8
<1> QED
  BY <1>8, <1>9 DEF AllSlots

\* Two slots that share byte and bit are one.
LEMMA BitsAreApart ==
  ASSUME NEW i \in AllSlots, NEW j \in AllSlots,
         byteIndex(i) = byteIndex(j), bitIndex(i) = bitIndex(j)
  PROVE  i = j
<1>1. i = ByteBits * byteIndex(i) + bitIndex(i) /\ j = ByteBits * byteIndex(j) + bitIndex(j)
  BY SlotHasItsBit
<1> QED
  BY <1>1

\* Setting a bit is read back of its slot, and of no other.
LEMMA SetAndGet ==
  ASSUME NEW l \in [Bytes -> SUBSET BitsOfByte], NEW i \in Int, ~OutOfBounds(i),
         NEW value \in BOOLEAN
  PROVE  /\ setStatus(l, i, value) \in [Bytes -> SUBSET BitsOfByte]
         /\ \A j \in AllSlots : getStatus(setStatus(l, i, value), j)
                                   <=> IF j = i THEN value ELSE getStatus(l, j)
<1> DEFINE m == setStatus(l, i, value)
<1>1. CASE byteIndex(i) \notin Bytes
  <2>1. m = l
    BY <1>1 DEF setStatus
  <2>2. i \notin AllSlots
    BY <1>1, SlotHasItsBit
  <2> QED
    BY <2>1, <2>2
<1>2. CASE byteIndex(i) \in Bytes
  <2>1. i \in AllSlots /\ bitIndex(i) \in BitsOfByte
    BY <1>2, NoOtherByte, SlotHasItsBit
  <2>2. m \in [Bytes -> SUBSET BitsOfByte]
    BY <2>1 DEF setStatus
  <2>3. ASSUME NEW j \in AllSlots
        PROVE  getStatus(m, j) <=> IF j = i THEN value ELSE getStatus(l, j)
    <3>1. byteIndex(j) \in Bytes /\ bitIndex(j) \in BitsOfByte
      BY SlotHasItsBit
    <3>2. j # i => byteIndex(j) # byteIndex(i) \/ bitIndex(j) # bitIndex(i)
      BY <2>1, BitsAreApart
    <3>3. m[byteIndex(j)] = IF byteIndex(j) # byteIndex(i) THEN l[byteIndex(j)]
                            ELSE IF value THEN l[byteIndex(j)] \cup {bitIndex(i)}
                            ELSE l[byteIndex(j)] \ {bitIndex(i)}
      BY <3>1 DEF setStatus
    <3> HIDE DEF m
    <3> QED
      BY <3>1, <3>2, <3>3 DEF getStatus
  <2> QED
    BY <2>2, <2>3
<1> QED
  BY <1>1, <1>2

LEMMA StatusInit0 == StatusInit => StatusTypeOK /\ Register!RInit
<1> SUFFICES ASSUME StatusInit PROVE StatusTypeOK /\ Register!RInit
  OBVIOUS
<1>1. list = createStatusList /\ encoded = [gzipped |-> createStatusList] /\ request = <<>>
  BY DEF StatusInit, encodeStatusList
<1>2. createStatusList \in [Bytes -> SUBSET BitsOfByte]
  BY DEF createStatusList
<1>3. StatusTypeOK
  BY <1>1, <1>2 DEF StatusTypeOK
<1>4. \A i : ~getStatus(createStatusList, i)
  BY DEF getStatus, createStatusList
<1>5. Register!RInit
  BY <1>1, <1>4 DEF Register!RInit, RevokedSlots, checkCredentialStatus, decodeStatusList
<1> QED
  BY <1>3, <1>5

\* What the register keeps, as the list shows it.
SameRegister ==
    /\ RevokedSlots' = RevokedSlots
    /\ {i \in AllSlots : checkCredentialStatus(i)}' = {i \in AllSlots : checkCredentialStatus(i)}
    /\ request' = request

\* Revoking or restoring is the register's Revoke or Restore, or a step that it does not
\* see when the slot is before the list.
LEMMA SetStep ==
  ASSUME StatusTypeOK, NEW i \in Indices, NEW value \in BOOLEAN,
         ~OutOfBounds(i), list' = setStatus(list, i, value), Note(i, value), UNCHANGED encoded
  PROVE  /\ StatusTypeOK'
         /\ SameRegister \/ (i \in AllSlots /\ value /\ Register!Revoke(i))
                         \/ (i \in AllSlots /\ ~value /\ Register!Restore(i))
<1>1. i \in Int
  BY StatusListAssumption
<1>2. list \in [Bytes -> SUBSET BitsOfByte]
  BY DEF StatusTypeOK
<1>3. /\ list' \in [Bytes -> SUBSET BitsOfByte]
      /\ \A j \in AllSlots : getStatus(list', j) <=> IF j = i THEN value ELSE getStatus(list, j)
  BY <1>1, <1>2, SetAndGet
<1>4. StatusTypeOK'
  BY <1>3 DEF StatusTypeOK
<1>5. {j \in AllSlots : checkCredentialStatus(j)}' = {j \in AllSlots : checkCredentialStatus(j)}
  BY DEF checkCredentialStatus
<1>6. CASE i \notin AllSlots
  <2>1. RevokedSlots' = RevokedSlots
    BY <1>3, <1>6 DEF RevokedSlots
  <2> QED
    BY <1>4, <1>5, <1>6, <2>1 DEF SameRegister, Note
<1>7. CASE i \in AllSlots
  <2>1. request' = <<i, value>>
    BY <1>7 DEF Note
  <2>2. CASE value
    <3>1. RevokedSlots' = RevokedSlots \cup {i}
      BY <1>3, <1>7, <2>2 DEF RevokedSlots
    <3> QED
      BY <1>4, <1>5, <1>7, <2>1, <2>2, <3>1 DEF Register!Revoke
  <2>3. CASE ~value
    <3>1. RevokedSlots' = RevokedSlots \ {i}
      BY <1>3, <1>7, <2>3 DEF RevokedSlots
    <3> QED
      BY <1>4, <1>5, <1>7, <2>1, <2>3, <3>1 DEF Register!Restore
  <2> QED
    BY <2>2, <2>3
<1> QED
  BY <1>6, <1>7

announcedSlots == {i \in AllSlots : checkCredentialStatus(i)}

LEMMA StatusStep ==
  ASSUME StatusTypeOK, [StatusNext]_statusVars
  PROVE  StatusTypeOK' /\ [Register!RNext]_<<RevokedSlots, announcedSlots, request>>
<1>1. ASSUME NEW i \in Indices, revokeCredential(i) \/ unrevokeCredential(i)
      PROVE  StatusTypeOK' /\ [Register!RNext]_<<RevokedSlots, announcedSlots, request>>
  <2>1. PICK value \in BOOLEAN : /\ ~OutOfBounds(i) /\ list' = setStatus(list, i, value)
                                 /\ Note(i, value) /\ UNCHANGED encoded
    BY <1>1 DEF revokeCredential, unrevokeCredential
  <2>2. /\ StatusTypeOK'
        /\ SameRegister \/ (i \in AllSlots /\ value /\ Register!Revoke(i))
                        \/ (i \in AllSlots /\ ~value /\ Register!Restore(i))
    BY <2>1, SetStep
  <2> QED
    BY <2>2 DEF Register!RNext, SameRegister, announcedSlots
<1>2. CASE createStatusListCredential
  <2>1. encoded' = [gzipped |-> list] /\ UNCHANGED <<list, request>>
    BY <1>2 DEF createStatusListCredential, encodeStatusList
  <2>2. StatusTypeOK'
    BY <2>1 DEF StatusTypeOK
  <2>3. announcedSlots' = RevokedSlots
    BY <2>1 DEF announcedSlots, checkCredentialStatus, decodeStatusList, RevokedSlots
  <2>4. UNCHANGED <<RevokedSlots, request>>
    BY <2>1 DEF RevokedSlots
  <2> QED
    BY <2>2, <2>3, <2>4 DEF Register!RNext, Register!Announce, announcedSlots
<1>3. CASE UNCHANGED statusVars
  BY <1>3 DEF statusVars, StatusTypeOK, RevokedSlots, announcedSlots, checkCredentialStatus
<1> QED
  BY <1>1, <1>2, <1>3 DEF StatusNext

\* Each byte, in the holder's list and in the published one, has bits of a byte only.
THEOREM StatusTypeCorrect == StatusSpec => []StatusTypeOK
<1>1. StatusTypeOK /\ [StatusNext]_statusVars => StatusTypeOK'
  BY StatusStep
<1> QED
  BY <1>1, StatusInit0, PTL DEF StatusSpec

\* For any size and any width of a byte, and whatever indices are passed, the list is a
\* register of its slots: a request changes the bit of its slot alone, also across the
\* border of a byte, and the published list is the list at the time of publishing.
THEOREM ListIsRegister == StatusSpec => ImplementsRegister
<1>1. StatusTypeOK /\ [StatusNext]_statusVars
        => [Register!RNext]_<<RevokedSlots, announcedSlots, request>>
  BY StatusStep
<1>2. StatusInit => Register!RInit
  BY StatusInit0
<1> QED
  BY <1>1, <1>2, StatusTypeCorrect, PTL
     DEF StatusSpec, ImplementsRegister, Register!RSpec, announcedSlots

\* Revoked slots and bits that are 1 correspond one to one.
LEMMA BitsAreCounted == StatusTypeOK => CountIsOfBits
<1> SUFFICES ASSUME StatusTypeOK PROVE CountIsOfBits
  OBVIOUS
<1> DEFINE Ones == {x \in Bytes \X BitsOfByte : x[2] \in list[x[1]]}
           f == [i \in RevokedSlots |-> <<byteIndex(i), bitIndex(i)>>]
<1>1. f \in [RevokedSlots -> Ones]
  BY SlotHasItsBit DEF RevokedSlots, getStatus
<1>2. \A i, j \in RevokedSlots : f[i] = f[j] => i = j
  BY BitsAreApart DEF RevokedSlots
<1>3. ASSUME NEW x \in Ones PROVE \E i \in RevokedSlots : f[i] = x
  <2>1. PICK q \in Bytes, r \in BitsOfByte : x = <<q, r>> /\ r \in list[q]
    BY <1>3
  <2>2. q \in Nat /\ r \in Nat /\ r < ByteBits /\ ByteBits \in Nat \ {0} /\ ByteLength \in Nat
    BY ByteLengthIsNat DEF Bytes, BitsOfByte
  <2>3. PICK i \in Nat : i = ByteBits * q + r
    BY <2>2
  <2>4. byteIndex(i) = q /\ bitIndex(i) = r
    BY <2>2, <2>3, QuotientAndRest DEF byteIndex, bitIndex
  <2>5. i \in AllSlots
    BY <2>4, NoOtherByte
  <2> QED
    BY <2>1, <2>4, <2>5 DEF RevokedSlots, getStatus
<1>4. IsFiniteSet(RevokedSlots)
  <2>1. PICK n \in Int : n = ByteLength * ByteBits - 1
    BY ByteLengthIsNat
  <2>2. IsFiniteSet(AllSlots)
    BY <2>1, FS_Interval DEF AllSlots
  <2> QED
    BY <2>2, FS_Subset DEF RevokedSlots
<1>5. ExistsBijection(RevokedSlots, Ones)
  <2> HIDE DEF f, Ones
  <2>1. f \in Bijection(RevokedSlots, Ones)
    BY <1>1, <1>2, <1>3, Fun_IsBij
  <2> QED
    BY <2>1 DEF ExistsBijection
<1>6. Cardinality(Ones) = Cardinality(RevokedSlots)
  BY <1>4, <1>5, FS_Bijection
<1> QED
  BY <1>6 DEF CountIsOfBits, revokedCount, RevokedSlots

\* The statistics count the bits of the array, for any size and any width of a byte.
THEOREM StatisticsCount == StatusSpec => []CountIsOfBits
  BY BitsAreCounted, StatusTypeCorrect, PTL

-----------------------------------------------------------------------------
(* Identifiers of organizations                                             *)

Documents == [id : {buildDIDWeb(d, p) : d \in Domains, p \in Paths}, key : WebKeys]

\* What lies on a host lies at the URL of its own DID and is what was published last for it.
HostsCurrent ==
    \A h \in hosts :
        /\ h.url = didWebToUrl(h.document.id)
        /\ h.document.id \in PublishedDIDs /\ h.document.key = Latest(h.document.id)

\* There is a last publication of it.
HasLatest(did) ==
    \E i \in {k \in DOMAIN published : published[k].id = did} :
        \A j \in {k \in DOMAIN published : published[k].id = did} : j <= i

WebInv ==
    /\ published \in Seq(Documents)
    /\ \A did \in PublishedDIDs : HasLatest(did)
    /\ HostsCurrent /\ ResolvedIsPublished

\* The last publication of a DID is the one that has just been made.
LEMMA LatestAppended ==
    ASSUME published \in Seq(Documents), NEW doc \in Documents, published' = Append(published, doc)
    PROVE  /\ Latest(doc.id)' = doc.key /\ doc.id \in PublishedDIDs'
           /\ HasLatest(doc.id)' /\ PublishedDIDs' = PublishedDIDs \union {doc.id}
           /\ \A did \in PublishedDIDs : did # doc.id /\ HasLatest(did) => Latest(did)' = Latest(did) /\ HasLatest(did)'
<1> DEFINE Of(did)  == {i \in DOMAIN published : published[i].id = did}
<1> DEFINE Of2(did) == {i \in DOMAIN published' : published'[i].id = did}
<1>1. /\ Len(published) \in Nat
      /\ DOMAIN published' = DOMAIN published \union {Len(published) + 1}
      /\ DOMAIN published = 1 .. Len(published)
      /\ published'[Len(published) + 1] = doc
      /\ \A i \in DOMAIN published : published'[i] = published[i]
    OBVIOUS
<1>2. Len(published) + 1 \in Of2(doc.id) /\ \A j \in Of2(doc.id) : j <= Len(published) + 1
    BY <1>1
<1>3. (CHOOSE i \in Of2(doc.id) : \A j \in Of2(doc.id) : j <= i) = Len(published) + 1
    <2>1. \A i \in Of2(doc.id) : i \in Nat /\ ((\A j \in Of2(doc.id) : j <= i) => i = Len(published) + 1)
        BY <1>1, <1>2
    <2>. HIDE DEF Of2
    <2>. QED
        BY <1>2, <2>1, Zenon
<1>4. Latest(doc.id)' = doc.key
    BY <1>1, <1>3 DEF Latest
<1>5. ASSUME NEW did \in PublishedDIDs, did # doc.id, HasLatest(did)
      PROVE  Latest(did)' = Latest(did) /\ HasLatest(did)'
    <2>1. Of2(did) = Of(did)
        BY <1>1, <1>5
    <2>2. (CHOOSE i \in Of(did) : \A j \in Of(did) : j <= i) \in DOMAIN published
        BY <1>5 DEF HasLatest
    <2>3. HasLatest(did)'
        BY <1>5, <2>1 DEF HasLatest
    <2>. QED
        BY <1>1, <2>1, <2>2, <2>3 DEF Latest
<1>6. doc.id \in PublishedDIDs' /\ PublishedDIDs' = PublishedDIDs \union {doc.id}
    BY <1>1 DEF PublishedDIDs
<1>7. HasLatest(doc.id)'
    BY <1>2 DEF HasLatest
<1>. QED
    BY <1>4, <1>5, <1>6, <1>7

LEMMA WebInvInit == WebInit => WebInv
BY DEF WebInit, WebInv, HostsCurrent, PublishedDIDs, ResolvedIsPublished

LEMMA WebInvStep == WebInv /\ [WebNext]_webVars => WebInv'
<1>. SUFFICES ASSUME WebInv, [WebNext]_webVars
              PROVE  WebInv'
    OBVIOUS
<1>1. ASSUME NEW domain \in Domains, NEW path \in Paths, NEW key \in WebKeys, createDIDWeb(domain, path, key)
      PROVE  WebInv'
    <2> DEFINE did == buildDIDWeb(domain, path)
               doc == createDIDDocument(did, key)
    <2>1. /\ hosts' = {h \in hosts : h.url # didWebToUrl(did)} \union {[url |-> didWebToUrl(did), document |-> doc]}
          /\ published' = Append(published, doc) /\ resolved' = resolved
          /\ doc \in Documents /\ doc.id = did /\ doc.key = key
        BY <1>1 DEF createDIDWeb, createDIDDocument, Documents
    <2>. HIDE DEF did, doc
    <2>2. published' \in Seq(Documents)
        BY <2>1 DEF WebInv
    <2>3. /\ Latest(did)' = key /\ HasLatest(did)' /\ PublishedDIDs' = PublishedDIDs \union {did}
          /\ \A d \in PublishedDIDs : d # did => Latest(d)' = Latest(d) /\ HasLatest(d)'
        BY <2>1, LatestAppended DEF WebInv
    <2>4. \A h \in hosts' : /\ h.url = didWebToUrl(h.document.id)
                            /\ h.document.id \in PublishedDIDs' /\ h.document.key = Latest(h.document.id)'
        <3>. TAKE h \in hosts'
        <3>1. CASE h = [url |-> didWebToUrl(did), document |-> doc]
            BY <3>1, <2>1, <2>3
        <3>2. CASE h \in hosts /\ h.url # didWebToUrl(did)
            BY <3>2, <2>3 DEF WebInv, HostsCurrent
        <3>. QED
            BY <2>1, <3>1, <3>2
    <2>. QED
        BY <2>1, <2>2, <2>3, <2>4 DEF WebInv, HostsCurrent, ResolvedIsPublished
<1>2. ASSUME NEW did \in PublishedDIDs, resolveDIDWeb(did) \/ resolveDidWeb(did)
      PROVE  WebInv'
    <2>1. PICK url : Return(did, Fetch(url, did))
        BY <1>2 DEF resolveDIDWeb, resolveDidWeb
    <2>2. hosts' = hosts /\ published' = published
        BY <2>1 DEF Return
    <2>3. \A r \in resolved' : r.key = r.latest
        BY <2>1 DEF Return, Fetch, WebInv, HostsCurrent, ResolvedIsPublished
    <2>4. PublishedDIDs' = PublishedDIDs /\ (\A d : Latest(d)' = Latest(d) /\ (HasLatest(d)' <=> HasLatest(d)))
        BY <2>2 DEF PublishedDIDs, Latest, HasLatest
    <2>. QED
        BY <2>2, <2>3, <2>4 DEF WebInv, HostsCurrent, ResolvedIsPublished
<1>3. CASE UNCHANGED webVars
    BY <1>3 DEF webVars, WebInv, HostsCurrent, PublishedDIDs, Latest, HasLatest, ResolvedIsPublished
<1>. QED
    BY <1>1, <1>2, <1>3 DEF WebNext

\* Whatever the encodings make of domains and paths, and however often documents replace one
\* another at a URL, a resolved DID has the key that was published last for it.
THEOREM ResolvedArePublished == WebSpec => []ResolvedIsPublished
<1>1. WebInv => ResolvedIsPublished
    BY DEF WebInv
<1>. QED
    BY <1>1, WebInvInit, WebInvStep, PTL DEF WebSpec

-----------------------------------------------------------------------------
(* Documents that are handed over                                           *)

\* What follows the first of the names.
LEMMA AfterTheFirst ==
    ASSUME NEW path, Len(path) \in Nat, NEW names, NEW k \in 1 .. Len(path) - 1, path[k] \in names,
           \A i \in 1 .. k - 1 : path[i] \notin names
    PROVE  After(names, path) = path[k + 1]
<1> DEFINE at == {i \in 1 .. Len(path) - 1 : path[i] \in names}
           first == CHOOSE i \in at : \A j \in at : i <= j
<1>1. k \in at /\ \A j \in at : k <= j
    OBVIOUS
<1>2. first \in at /\ \A j \in at : first <= j
    BY <1>1
<1>3. first = k
    <2>1. first <= k /\ k <= first
        BY <1>1, <1>2
    <2>2. first \in Int /\ k \in Int
        BY <1>2
    <2>3. QED
        BY <2>1, <2>2
<1>4. at # {}
    BY <1>1
<1>5. After(names, path) = path[first + 1]
    BY <1>4 DEF After
<1>6. QED
    BY <1>3, <1>5

LEMMA NothingAfter ==
    ASSUME NEW path, NEW names, \A i \in 1 .. Len(path) - 1 : path[i] \notin names
    PROVE  After(names, path) = NoId
BY DEF After

\* The identifier between the two names, if they are there once.
LEMMA BetweenThem ==
    ASSUME NEW path, Len(path) \in Nat, NEW k \in 1 .. Len(path) - 2, path[k] = "credentials", path[k + 2] = "verify",
           \A i \in 1 .. Len(path) - 2 : path[i] = "credentials" => i = k
    PROVE  Between(path) = path[k + 1]
<1> DEFINE at == {i \in 1 .. Len(path) - 2 : path[i] = "credentials" /\ path[i + 2] = "verify"}
           first == CHOOSE i \in at : \A j \in at : i <= j
<1>1. at = {k}
    OBVIOUS
<1>2. first = k
    BY <1>1
<1>3. Between(path) = path[first + 1]
    BY <1>1 DEF Between
<1>4. QED
    BY <1>2, <1>3

LEMMA NothingBetween ==
    ASSUME NEW path, \A i \in 1 .. Len(path) - 2 : path[i] # "credentials"
    PROVE  Between(path) = NoId
BY DEF Between

LEMMA WiderSequence == ASSUME NEW S, NEW T, S \subseteq T, NEW s \in Seq(S) PROVE s \in Seq(T)
OBVIOUS

\* The segments of a path are those of the base and those that a format adds.
LEMMA Segments ==
    ASSUME NEW base \in BasePaths, NEW S, NEW added \in Seq(S)
    PROVE  /\ Len(base) \in Nat /\ Len(base \o added) = Len(base) + Len(added)
           /\ DOMAIN (base \o added) = 1 .. Len(base \o added)
           /\ \A i \in 1 .. Len(base) : (base \o added)[i] \notin {"verify", "credentials", ".well-known"}
           /\ \A i \in 1 .. Len(added) : (base \o added)[Len(base) + i] = added[i]
<1>1. base \in Seq(STRING) /\ \A i \in 1 .. Len(base) : base[i] \notin {"verify", "credentials", ".well-known"}
    BY SharingAssumption
<1>0. PICK T, W : T = W \cup S /\ W = STRING
    OBVIOUS
<1>7. W \subseteq T /\ S \subseteq T /\ base \in Seq(W)
    BY <1>0, <1>1
<1>6. base \in Seq(T) /\ added \in Seq(T)
    BY <1>7, WiderSequence
<1>2. \A i \in 1 .. Len(base) : (base \o added)[i] = base[i]
    BY <1>6
<1>3. Len(base) \in Nat /\ Len(base \o added) = Len(base) + Len(added)
    BY <1>6
<1>4. \A i \in 1 .. Len(added) : (base \o added)[Len(base) + i] = added[i]
    BY <1>6
<1>8. DOMAIN (base \o added) = 1 .. Len(base \o added)
    BY <1>6
<1>5. QED
    BY <1>1, <1>2, <1>3, <1>4, <1>8

\* What the readers find in each shape of a path.
LEMMA CredentialsPath ==
    ASSUME NEW base \in BasePaths, NEW id \in Ids, NEW path, path = base \o <<"credentials", id, "verify">>
    PROVE  Between(path) = id /\ After({"verify", "credentials"}, path) = id /\ (\A i \in DOMAIN path : path[i] # ".well-known")
<1>1. PICK added : added = <<"credentials", id, "verify">>
    OBVIOUS
<1>2. added \in Seq({"credentials", id, "verify"}) /\ Len(added) = 3 /\ added[1] = "credentials" /\ added[2] = id /\ added[3] = "verify"
    BY <1>1
<1>3. PICK n : n = Len(base)
    OBVIOUS
<1>4. /\ n \in Nat /\ Len(path) = n + 3 /\ DOMAIN path = 1 .. n + 3
      /\ \A i \in 1 .. n : path[i] \notin {"verify", "credentials", ".well-known"}
      /\ path[n + 1] = "credentials" /\ path[n + 2] = id /\ path[n + 3] = "verify"
    <2>1. /\ n \in Nat /\ Len(path) = n + Len(added) /\ DOMAIN path = 1 .. Len(path)
          /\ \A i \in 1 .. n : path[i] \notin {"verify", "credentials", ".well-known"}
          /\ \A i \in 1 .. Len(added) : path[n + i] = added[i]
        BY <1>1, <1>2, <1>3, Segments
    <2>2. 1 \in 1 .. Len(added) /\ 2 \in 1 .. Len(added) /\ 3 \in 1 .. Len(added)
        BY <1>2
    <2>3. QED
        BY <1>2, <2>1, <2>2
<1>5. id \notin {"verify", "credentials", ".well-known"}
    BY SharingAssumption
<1>6. \A i \in 1 .. n + 3 : i \in 1 .. n \/ i = n + 1 \/ i = n + 2 \/ i = n + 3
    BY <1>4
<1>7. Between(path) = path[n + 2]
    <2>1. PICK k : k = n + 1
        OBVIOUS
    <2>2. k \in 1 .. Len(path) - 2 /\ k + 2 = n + 3 /\ k + 1 = n + 2 /\ Len(path) \in Nat
        BY <1>4, <2>1
    <2>3. path[k] = "credentials" /\ path[k + 2] = "verify"
        BY <1>4, <2>1, <2>2
    <2>4. \A i \in 1 .. Len(path) - 2 : path[i] = "credentials" => i = k
        BY <1>4, <2>1
    <2>5. Between(path) = path[k + 1]
        BY <2>2, <2>3, <2>4, BetweenThem
    <2>6. QED
        BY <2>2, <2>5
<1>8. After({"verify", "credentials"}, path) = path[n + 2]
    <2>1. PICK k : k = n + 1
        OBVIOUS
    <2>2. k \in 1 .. Len(path) - 1 /\ k + 1 = n + 2 /\ Len(path) \in Nat
        BY <1>4, <2>1
    <2>3. path[k] \in {"verify", "credentials"} /\ \A i \in 1 .. k - 1 : path[i] \notin {"verify", "credentials"}
        BY <1>4, <1>6, <2>1
    <2>4. After({"verify", "credentials"}, path) = path[k + 1]
        BY <2>2, <2>3, AfterTheFirst
    <2>5. QED
        BY <2>2, <2>4
<1>9. \A i \in DOMAIN path : path[i] # ".well-known"
    BY <1>4, <1>5, <1>6
<1>20. QED
    BY <1>4, <1>7, <1>8, <1>9

\* The toolkit's own plain format.
LEMMA VerifyPath ==
    ASSUME NEW base \in BasePaths, NEW id \in Ids, NEW path, path = base \o <<"verify", id>>
    PROVE  Between(path) = NoId /\ After({"verify"}, path) = id /\ After({"verify", "credentials"}, path) = id /\ (\A i \in DOMAIN path : path[i] # ".well-known")
<1>1. PICK added : added = <<"verify", id>>
    OBVIOUS
<1>2. added \in Seq({"verify", id}) /\ Len(added) = 2 /\ added[1] = "verify" /\ added[2] = id
    BY <1>1
<1>3. PICK n : n = Len(base)
    OBVIOUS
<1>4. /\ n \in Nat /\ Len(path) = n + 2 /\ DOMAIN path = 1 .. n + 2
      /\ \A i \in 1 .. n : path[i] \notin {"verify", "credentials", ".well-known"}
      /\ path[n + 1] = "verify" /\ path[n + 2] = id
    <2>1. /\ n \in Nat /\ Len(path) = n + Len(added) /\ DOMAIN path = 1 .. Len(path)
          /\ \A i \in 1 .. n : path[i] \notin {"verify", "credentials", ".well-known"}
          /\ \A i \in 1 .. Len(added) : path[n + i] = added[i]
        BY <1>1, <1>2, <1>3, Segments
    <2>2. 1 \in 1 .. Len(added) /\ 2 \in 1 .. Len(added)
        BY <1>2
    <2>3. QED
        BY <1>2, <2>1, <2>2
<1>5. id \notin {"verify", "credentials", ".well-known"}
    BY SharingAssumption
<1>6. \A i \in 1 .. n + 2 : i \in 1 .. n \/ i = n + 1 \/ i = n + 2
    BY <1>4
<1>7. Between(path) = NoId
    <2>1. \A i \in 1 .. Len(path) - 2 : path[i] # "credentials"
        BY <1>4, <1>5, <1>6
    <2>2. QED
        BY <2>1, NothingBetween
<1>8. After({"verify"}, path) = path[n + 2]
    <2>1. PICK k : k = n + 1
        OBVIOUS
    <2>2. k \in 1 .. Len(path) - 1 /\ k + 1 = n + 2 /\ Len(path) \in Nat
        BY <1>4, <2>1
    <2>3. path[k] \in {"verify"} /\ \A i \in 1 .. k - 1 : path[i] \notin {"verify"}
        BY <1>4, <1>6, <2>1
    <2>4. After({"verify"}, path) = path[k + 1]
        BY <2>2, <2>3, AfterTheFirst
    <2>5. QED
        BY <2>2, <2>4
<1>9. After({"verify", "credentials"}, path) = path[n + 2]
    <2>1. PICK k : k = n + 1
        OBVIOUS
    <2>2. k \in 1 .. Len(path) - 1 /\ k + 1 = n + 2 /\ Len(path) \in Nat
        BY <1>4, <2>1
    <2>3. path[k] \in {"verify", "credentials"} /\ \A i \in 1 .. k - 1 : path[i] \notin {"verify", "credentials"}
        BY <1>4, <1>6, <2>1
    <2>4. After({"verify", "credentials"}, path) = path[k + 1]
        BY <2>2, <2>3, AfterTheFirst
    <2>5. QED
        BY <2>2, <2>4
<1>10. \A i \in DOMAIN path : path[i] # ".well-known"
    BY <1>4, <1>5, <1>6
<1>20. QED
    BY <1>4, <1>7, <1>8, <1>9, <1>10

\* The platform's format for wallets, which has no `verify` for the toolkit.
LEMMA ChapiPath ==
    ASSUME NEW base \in BasePaths, NEW id \in Ids, NEW path, path = base \o <<"chapi", "credentials", id>>
    PROVE  Between(path) = NoId /\ After({"verify"}, path) = NoId /\ (\A i \in DOMAIN path : path[i] # ".well-known")
<1>1. PICK added : added = <<"chapi", "credentials", id>>
    OBVIOUS
<1>2. added \in Seq({"chapi", "credentials", id}) /\ Len(added) = 3 /\ added[1] = "chapi" /\ added[2] = "credentials" /\ added[3] = id
    BY <1>1
<1>3. PICK n : n = Len(base)
    OBVIOUS
<1>4. /\ n \in Nat /\ Len(path) = n + 3 /\ DOMAIN path = 1 .. n + 3
      /\ \A i \in 1 .. n : path[i] \notin {"verify", "credentials", ".well-known"}
      /\ path[n + 1] = "chapi" /\ path[n + 2] = "credentials" /\ path[n + 3] = id
    <2>1. /\ n \in Nat /\ Len(path) = n + Len(added) /\ DOMAIN path = 1 .. Len(path)
          /\ \A i \in 1 .. n : path[i] \notin {"verify", "credentials", ".well-known"}
          /\ \A i \in 1 .. Len(added) : path[n + i] = added[i]
        BY <1>1, <1>2, <1>3, Segments
    <2>2. 1 \in 1 .. Len(added) /\ 2 \in 1 .. Len(added) /\ 3 \in 1 .. Len(added)
        BY <1>2
    <2>3. QED
        BY <1>2, <2>1, <2>2
<1>5. id \notin {"verify", "credentials", ".well-known"}
    BY SharingAssumption
<1>6. \A i \in 1 .. n + 3 : i \in 1 .. n \/ i = n + 1 \/ i = n + 2 \/ i = n + 3
    BY <1>4
<1>7. Between(path) = NoId
    <2>1. \A i \in 1 .. Len(path) - 2 : path[i] # "credentials"
        BY <1>4, <1>6
    <2>2. QED
        BY <2>1, NothingBetween
<1>8. After({"verify"}, path) = NoId
    <2>1. \A i \in 1 .. Len(path) - 1 : path[i] \notin {"verify"}
        BY <1>4, <1>5, <1>6
    <2>2. QED
        BY <2>1, NothingAfter
<1>9. \A i \in DOMAIN path : path[i] # ".well-known"
    BY <1>4, <1>5, <1>6
<1>20. QED
    BY <1>4, <1>7, <1>8, <1>9

\* The identifier follows `credentials` in it.
LEMMA ChapiPathCredential ==
    ASSUME NEW base \in BasePaths, NEW id \in Ids, NEW path, path = base \o <<"chapi", "credentials", id>>
    PROVE  After({"verify", "credentials"}, path) = id
<1>1. PICK added : added = <<"chapi", "credentials", id>>
    OBVIOUS
<1>2. added \in Seq({"chapi", "credentials", id}) /\ Len(added) = 3 /\ added[1] = "chapi" /\ added[2] = "credentials" /\ added[3] = id
    BY <1>1
<1>3. PICK n : n = Len(base)
    OBVIOUS
<1>4. /\ n \in Nat /\ Len(path) = n + 3 /\ DOMAIN path = 1 .. n + 3
      /\ \A i \in 1 .. n : path[i] \notin {"verify", "credentials", ".well-known"}
      /\ path[n + 1] = "chapi" /\ path[n + 2] = "credentials" /\ path[n + 3] = id
    <2>1. /\ n \in Nat /\ Len(path) = n + Len(added) /\ DOMAIN path = 1 .. Len(path)
          /\ \A i \in 1 .. n : path[i] \notin {"verify", "credentials", ".well-known"}
          /\ \A i \in 1 .. Len(added) : path[n + i] = added[i]
        BY <1>1, <1>2, <1>3, Segments
    <2>2. 1 \in 1 .. Len(added) /\ 2 \in 1 .. Len(added) /\ 3 \in 1 .. Len(added)
        BY <1>2
    <2>3. QED
        BY <1>2, <2>1, <2>2
<1>5. id \notin {"verify", "credentials", ".well-known"}
    BY SharingAssumption
<1>6. \A i \in 1 .. n + 3 : i \in 1 .. n \/ i = n + 1 \/ i = n + 2 \/ i = n + 3
    BY <1>4
<1>7. After({"verify", "credentials"}, path) = path[n + 3]
    <2>1. PICK k : k = n + 2
        OBVIOUS
    <2>2. k \in 1 .. Len(path) - 1 /\ k + 1 = n + 3 /\ Len(path) \in Nat
        BY <1>4, <2>1
    <2>3. path[k] \in {"verify", "credentials"} /\ \A i \in 1 .. k - 1 : path[i] \notin {"verify", "credentials"}
        BY <1>4, <1>6, <2>1
    <2>4. After({"verify", "credentials"}, path) = path[k + 1]
        BY <2>2, <2>3, AfterTheFirst
    <2>5. QED
        BY <2>2, <2>4
<1>20. QED
    BY <1>4, <1>7

\* The platform's plain format, with the identifier in the query.
LEMMA VerifyQuery ==
    ASSUME NEW base \in BasePaths, NEW path, path = base \o <<"verify">>
    PROVE  Between(path) = NoId /\ After({"verify"}, path) = NoId /\ (\A i \in DOMAIN path : path[i] # ".well-known")
<1>1. PICK added : added = <<"verify">>
    OBVIOUS
<1>2. added \in Seq({"verify"}) /\ Len(added) = 1 /\ added[1] = "verify"
    BY <1>1
<1>3. PICK n : n = Len(base)
    OBVIOUS
<1>4. /\ n \in Nat /\ Len(path) = n + 1 /\ DOMAIN path = 1 .. n + 1
      /\ \A i \in 1 .. n : path[i] \notin {"verify", "credentials", ".well-known"}
      /\ path[n + 1] = "verify"
    <2>1. /\ n \in Nat /\ Len(path) = n + Len(added) /\ DOMAIN path = 1 .. Len(path)
          /\ \A i \in 1 .. n : path[i] \notin {"verify", "credentials", ".well-known"}
          /\ \A i \in 1 .. Len(added) : path[n + i] = added[i]
        BY <1>1, <1>2, <1>3, Segments
    <2>2. 1 \in 1 .. Len(added)
        BY <1>2
    <2>3. QED
        BY <1>2, <2>1, <2>2
<1>6. \A i \in 1 .. n + 1 : i \in 1 .. n \/ i = n + 1
    BY <1>4
<1>7. Between(path) = NoId
    <2>1. \A i \in 1 .. Len(path) - 2 : path[i] # "credentials"
        BY <1>4, <1>6
    <2>2. QED
        BY <2>1, NothingBetween
<1>8. After({"verify"}, path) = NoId
    <2>1. \A i \in 1 .. Len(path) - 1 : path[i] \notin {"verify"}
        BY <1>4, <1>6
    <2>2. QED
        BY <2>1, NothingAfter
<1>9. \A i \in DOMAIN path : path[i] # ".well-known"
    BY <1>4, <1>6
<1>20. QED
    BY <1>7, <1>8, <1>9

\* The toolkit's format for wallets.
LEMMA HandlerPath ==
    ASSUME NEW base \in BasePaths, NEW path, path = base \o <<".well-known", "vc-handler">>
    PROVE  \E i \in DOMAIN path : i < Len(path) /\ path[i] = ".well-known" /\ path[i + 1] = "vc-handler"
<1>1. PICK added : added = <<".well-known", "vc-handler">>
    OBVIOUS
<1>2. added \in Seq({".well-known", "vc-handler"}) /\ Len(added) = 2 /\ added[1] = ".well-known" /\ added[2] = "vc-handler"
    BY <1>1
<1>3. PICK n : n = Len(base)
    OBVIOUS
<1>4. /\ n \in Nat /\ Len(path) = n + 2 /\ DOMAIN path = 1 .. n + 2
      /\ \A i \in 1 .. n : path[i] \notin {"verify", "credentials", ".well-known"}
      /\ path[n + 1] = ".well-known" /\ path[n + 2] = "vc-handler"
    <2>1. /\ n \in Nat /\ Len(path) = n + Len(added) /\ DOMAIN path = 1 .. Len(path)
          /\ \A i \in 1 .. n : path[i] \notin {"verify", "credentials", ".well-known"}
          /\ \A i \in 1 .. Len(added) : path[n + i] = added[i]
        BY <1>1, <1>2, <1>3, Segments
    <2>2. 1 \in 1 .. Len(added) /\ 2 \in 1 .. Len(added)
        BY <1>2
    <2>3. QED
        BY <1>2, <2>1, <2>2
<1>6. \A i \in 1 .. n + 2 : i \in 1 .. n \/ i = n + 1 \/ i = n + 2
    BY <1>4
<1>7. n + 1 \in DOMAIN path /\ n + 1 < Len(path) /\ (n + 1) + 1 = n + 2
    BY <1>4
<1>20. QED
    BY <1>4, <1>7

\* What the toolkit reads out of a web URL, by what is in its path.
LEMMA WebReading ==
    ASSUME NEW path, NEW query,
           \A i \in DOMAIN path : path[i] # ".well-known"
    PROVE  /\ Between(path) # NoId =>
                  /\ parseVerificationURL(Web(path, query)).id = Between(path)
                  /\ parseVerificationURL(Web(path, query)).format = "vc-http-api"
           /\ Between(path) = NoId =>
                  /\ parseVerificationURL(Web(path, query)).id = After({"verify"}, path)
                  /\ parseVerificationURL(Web(path, query)).format = "plain"
<1>1. PICK url : url = Web(path, query)
    OBVIOUS
<1>2. url.path = path /\ url.scheme = "https"
    BY <1>1 DEF Web
<1>3. parseVerificationURL(url) = parseWebURL(url)
    BY <1>2 DEF parseVerificationURL
<1>4. parseWebURL(url) = IF Between(path) # NoId THEN Parsed(Between(path), "vc-http-api", <<>>)
                         ELSE Parsed(After({"verify"}, path), "plain", <<>>)
    BY <1>2 DEF parseWebURL
<1>5. QED
    BY <1>1, <1>3, <1>4 DEF Parsed

LEMMA HandlerReading ==
    ASSUME NEW path, NEW id,
           \E i \in DOMAIN path : i < Len(path) /\ path[i] = ".well-known" /\ path[i + 1] = "vc-handler"
    PROVE  /\ parseVerificationURL(Web(path, [credential |-> id, action |-> "verify"])).id = id
           /\ parseVerificationURL(Web(path, [credential |-> id, action |-> "verify"])).format = "chapi"
<1>1. PICK url : url = Web(path, [credential |-> id, action |-> "verify"])
    OBVIOUS
<1>2. url.path = path /\ url.scheme = "https" /\ Parameter(url, "credential") = id
    BY <1>1 DEF Web, Parameter
<1>3. parseVerificationURL(url) = parseWebURL(url)
    BY <1>2 DEF parseVerificationURL
<1>4. parseWebURL(url) = Parsed(id, "chapi", <<>>)
    BY <1>2 DEF parseWebURL
<1>5. QED
    BY <1>1, <1>3, <1>4 DEF Parsed

\* What the platform reads out of one: the query first, then the path.
LEMMA PlatformReading ==
    ASSUME NEW path, NEW id, id # NoId
    PROVE  /\ extractCredentialId(Web(path, <<>>)) = HexOf(After({"verify", "credentials"}, path))
           /\ extractCredentialId(Web(path, [credential |-> id])) = id
           /\ extractCredentialId(Web(path, [credential |-> id, action |-> "verify"])) = id
<1>1. extractCredentialId(Web(path, <<>>)) = HexOf(After({"verify", "credentials"}, path))
    <2>1. PICK url : url = Web(path, <<>>)
        OBVIOUS
    <2>2. url.path = path /\ url.scheme = "https" /\ Parameter(url, "credential") = NoId
        BY <2>1 DEF Web, Parameter
    <2>3. QED
        BY <2>1, <2>2 DEF extractCredentialId
<1>2. extractCredentialId(Web(path, [credential |-> id])) = id
    <2>1. PICK url : url = Web(path, [credential |-> id])
        OBVIOUS
    <2>2. url.scheme = "https" /\ Parameter(url, "credential") = id
        BY <2>1 DEF Web, Parameter
    <2>3. QED
        BY <2>1, <2>2 DEF extractCredentialId
<1>3. extractCredentialId(Web(path, [credential |-> id, action |-> "verify"])) = id
    <2>1. PICK url : url = Web(path, [credential |-> id, action |-> "verify"])
        OBVIOUS
    <2>2. url.scheme = "https" /\ Parameter(url, "credential") = id
        BY <2>1 DEF Web, Parameter
    <2>3. QED
        BY <2>1, <2>2 DEF extractCredentialId
<1>4. QED
    BY <1>1, <1>2, <1>3

\* The two formats that are no web URLs.
LEMMA OtherSchemes ==
    ASSUME NEW id, id # NoId, NEW base
    PROVE  /\ parseVerificationURL(openid4vc(id, base)).id = id
           /\ parseVerificationURL(openid4vc(id, base)).format = "openid4vc"
           /\ parseVerificationURL(deeplink(id)).id = id
           /\ parseVerificationURL(deeplink(id)).format = "deeplink"
           /\ extractCredentialId(openid4vc(id, base)) = NoId
           /\ extractCredentialId(deeplink(id)) = NoId
<1>1. PICK url : url = openid4vc(id, base)
    OBVIOUS
<1>2. /\ url.scheme = "openid-vc" /\ Parameter(url, "credential_id") = id
      /\ Parameter(url, "credential") = NoId /\ url.path = <<>>
    BY <1>1 DEF openid4vc, Parameter
<1>3. PICK link : link = deeplink(id)
    OBVIOUS
<1>4. link.scheme = "proofpass" /\ link.path = <<id>> /\ Parameter(link, "credential") = NoId
    BY <1>3 DEF deeplink, Parameter
<1>5. parseVerificationURL(url) = Parsed(id, "openid4vc", url.query["issuer"])
    BY <1>2 DEF parseVerificationURL
<1>6. parseVerificationURL(link) = Parsed(id, "deeplink", <<>>)
    BY <1>4 DEF parseVerificationURL
<1>7. After({"verify", "credentials"}, url.path) = NoId
    <2>1. \A i \in 1 .. Len(url.path) - 1 : url.path[i] \notin {"verify", "credentials"}
        BY <1>2
    <2>2. QED
        BY <2>1, NothingAfter
<1>8. After({"verify", "credentials"}, link.path) = NoId
    <2>1. \A i \in 1 .. Len(link.path) - 1 : link.path[i] \notin {"verify", "credentials"}
        BY <1>4
    <2>2. QED
        BY <2>1, NothingAfter
<1>9. extractCredentialId(url) = NoId
    BY <1>2, <1>7 DEF extractCredentialId, HexOf
<1>10. extractCredentialId(link) = NoId
    BY <1>4, <1>8 DEF extractCredentialId, HexOf
<1>11. QED
    BY <1>1, <1>3, <1>5, <1>6, <1>9, <1>10 DEF Parsed

\* The toolkit understands every format of its own, whatever the base URL is ...
LEMMA ToolkitReadsItsOwn ==
    ASSUME NEW id \in Ids, NEW format \in Formats, NEW base \in BasePaths
    PROVE  /\ parseVerificationURL(generateVerificationURL(id, format, base)).id = id
           /\ parseVerificationURL(generateVerificationURL(id, format, base)).format = format
<1>1. id # NoId
    BY SharingAssumption DEF NoId
<1>2. CASE format = "vc-http-api"
    <2>1. PICK path : path = base \o <<"credentials", id, "verify">>
        OBVIOUS
    <2>2. generateVerificationURL(id, format, base) = Web(path, <<>>)
        BY <1>2, <2>1 DEF generateVerificationURL
    <2>3. Between(path) = id /\ \A i \in DOMAIN path : path[i] # ".well-known"
        BY <2>1, CredentialsPath
    <2>4. QED
        BY <1>1, <1>2, <2>2, <2>3, WebReading
<1>3. CASE format = "openid4vc"
    <2>1. generateVerificationURL(id, format, base) = openid4vc(id, base)
        BY <1>3 DEF generateVerificationURL
    <2>2. QED
        BY <1>1, <1>3, <2>1, OtherSchemes
<1>4. CASE format = "deeplink"
    <2>1. generateVerificationURL(id, format, base) = deeplink(id)
        BY <1>4 DEF generateVerificationURL
    <2>2. QED
        BY <1>1, <1>4, <2>1, OtherSchemes
<1>5. CASE format = "chapi"
    <2>1. PICK path : path = base \o <<".well-known", "vc-handler">>
        OBVIOUS
    <2>2. generateVerificationURL(id, format, base) = Web(path, [credential |-> id, action |-> "verify"])
        BY <1>5, <2>1 DEF generateVerificationURL
    <2>3. \E i \in DOMAIN path : i < Len(path) /\ path[i] = ".well-known" /\ path[i + 1] = "vc-handler"
        BY <2>1, HandlerPath
    <2>4. QED
        BY <1>5, <2>2, <2>3, HandlerReading
<1>6. CASE format = "plain"
    <2>1. PICK path : path = base \o <<"verify", id>>
        OBVIOUS
    <2>2. generateVerificationURL(id, format, base) = Web(path, <<>>)
        BY <1>6, <2>1 DEF generateVerificationURL
    <2>3. /\ Between(path) = NoId /\ After({"verify"}, path) = id
          /\ \A i \in DOMAIN path : path[i] # ".well-known"
        BY <2>1, VerifyPath
    <2>4. QED
        BY <1>6, <2>2, <2>3, WebReading
<1>7. QED
    BY <1>2, <1>3, <1>4, <1>5, <1>6 DEF Formats

\* ... and reads no wrong identifier out of the platform's.
LEMMA ToolkitReadsThePlatform ==
    ASSUME NEW id \in Ids, NEW format \in Formats, NEW base \in BasePaths
    PROVE  parseVerificationURL(getVerificationUrl(id, format, base)).id \in {id, NoId}
<1>1. id # NoId
    BY SharingAssumption DEF NoId
<1>2. CASE format = "vc-http-api"
    <2>1. PICK path : path = base \o <<"credentials", id, "verify">>
        OBVIOUS
    <2>2. getVerificationUrl(id, format, base) = Web(path, <<>>)
        BY <1>2, <2>1 DEF getVerificationUrl
    <2>3. Between(path) = id /\ \A i \in DOMAIN path : path[i] # ".well-known"
        BY <2>1, CredentialsPath
    <2>4. QED
        BY <1>1, <2>2, <2>3, WebReading
<1>3. CASE format = "openid4vc"
    <2>1. getVerificationUrl(id, format, base) = openid4vc(id, base)
        BY <1>3 DEF getVerificationUrl
    <2>2. parseVerificationURL(openid4vc(id, base)).id = id
        BY <1>1, OtherSchemes
    <2>3. QED
        BY <2>1, <2>2
<1>4. CASE format = "deeplink"
    <2>1. getVerificationUrl(id, format, base) = deeplink(id)
        BY <1>4 DEF getVerificationUrl
    <2>2. QED
        BY <1>1, <2>1, OtherSchemes
<1>5. CASE format = "chapi"
    <2>1. PICK path : path = base \o <<"chapi", "credentials", id>>
        OBVIOUS
    <2>2. getVerificationUrl(id, format, base) = Web(path, <<>>)
        BY <1>5, <2>1 DEF getVerificationUrl
    <2>3. /\ Between(path) = NoId /\ After({"verify"}, path) = NoId
          /\ \A i \in DOMAIN path : path[i] # ".well-known"
        BY <2>1, ChapiPath
    <2>4. QED
        BY <2>2, <2>3, WebReading
<1>6. CASE format = "plain"
    <2>1. PICK path : path = base \o <<"verify">>
        OBVIOUS
    <2>2. getVerificationUrl(id, format, base) = Web(path, [credential |-> id])
        BY <1>6, <2>1 DEF getVerificationUrl
    <2>3. /\ Between(path) = NoId /\ After({"verify"}, path) = NoId
          /\ \A i \in DOMAIN path : path[i] # ".well-known"
        BY <2>1, VerifyQuery
    <2>4. QED
        BY <2>2, <2>3, WebReading
<1>7. QED
    BY <1>2, <1>3, <1>4, <1>5, <1>6 DEF Formats

\* What the platform's page makes of an identifier at most.
PlatformMayRead(id, x) == x \in {id, NoId} \/ (~WhollyHex(id) /\ x = HexPrefix[id])

LEMMA BeginningOfASegment == ASSUME NEW id, id # NoId PROVE PlatformMayRead(id, HexOf(id))
BY DEF PlatformMayRead, HexOf, WhollyHex

\* The platform reads the identifier or its beginning out of either's.
LEMMA PlatformReadsEither ==
    ASSUME NEW id \in Ids, NEW format \in Formats, NEW base \in BasePaths
    PROVE  /\ PlatformMayRead(id, extractCredentialId(generateVerificationURL(id, format, base)))
           /\ PlatformMayRead(id, extractCredentialId(getVerificationUrl(id, format, base)))
<1>1. id # NoId
    BY SharingAssumption DEF NoId
<1>2. CASE format = "vc-http-api"
    <2>1. PICK path : path = base \o <<"credentials", id, "verify">>
        OBVIOUS
    <2>2. /\ generateVerificationURL(id, format, base) = Web(path, <<>>)
          /\ getVerificationUrl(id, format, base) = Web(path, <<>>)
        BY <1>2, <2>1 DEF generateVerificationURL, getVerificationUrl
    <2>3. After({"verify", "credentials"}, path) = id
        BY <2>1, CredentialsPath
    <2>4. extractCredentialId(Web(path, <<>>)) = HexOf(id)
        BY <1>1, <2>3, PlatformReading
    <2>5. QED
        BY <1>1, <2>2, <2>4, BeginningOfASegment
<1>3. CASE format = "openid4vc"
    <2>1. /\ generateVerificationURL(id, format, base) = openid4vc(id, base)
          /\ getVerificationUrl(id, format, base) = openid4vc(id, base)
        BY <1>3 DEF generateVerificationURL, getVerificationUrl
    <2>2. QED
        BY <1>1, <2>1, OtherSchemes DEF PlatformMayRead
<1>4. CASE format = "deeplink"
    <2>1. /\ generateVerificationURL(id, format, base) = deeplink(id)
          /\ getVerificationUrl(id, format, base) = deeplink(id)
        BY <1>4 DEF generateVerificationURL, getVerificationUrl
    <2>2. QED
        BY <1>1, <2>1, OtherSchemes DEF PlatformMayRead
<1>5. CASE format = "chapi"
    <2>1. PICK path, handler : /\ path = base \o <<"chapi", "credentials", id>>
                               /\ handler = base \o <<".well-known", "vc-handler">>
        OBVIOUS
    <2>2. /\ getVerificationUrl(id, format, base) = Web(path, <<>>)
          /\ generateVerificationURL(id, format, base) = Web(handler, [credential |-> id, action |-> "verify"])
        BY <1>5, <2>1 DEF getVerificationUrl, generateVerificationURL
    <2>3. After({"verify", "credentials"}, path) = id
        BY <2>1, ChapiPathCredential
    <2>4. /\ extractCredentialId(Web(path, <<>>)) = HexOf(id)
          /\ extractCredentialId(Web(handler, [credential |-> id, action |-> "verify"])) = id
        BY <1>1, <2>3, PlatformReading
    <2>5. QED
        BY <1>1, <2>2, <2>4, BeginningOfASegment DEF PlatformMayRead
<1>6. CASE format = "plain"
    <2>1. PICK path, shown : path = base \o <<"verify", id>> /\ shown = base \o <<"verify">>
        OBVIOUS
    <2>2. /\ generateVerificationURL(id, format, base) = Web(path, <<>>)
          /\ getVerificationUrl(id, format, base) = Web(shown, [credential |-> id])
        BY <1>6, <2>1 DEF generateVerificationURL, getVerificationUrl
    <2>3. After({"verify", "credentials"}, path) = id
        BY <2>1, VerifyPath
    <2>4. /\ extractCredentialId(Web(path, <<>>)) = HexOf(id)
          /\ extractCredentialId(Web(shown, [credential |-> id])) = id
        BY <1>1, <2>3, PlatformReading
    <2>5. QED
        BY <1>1, <2>2, <2>4, BeginningOfASegment DEF PlatformMayRead
<1>7. QED
    BY <1>2, <1>3, <1>4, <1>5, <1>6 DEF Formats

LEMMA NoParameter ==
    ASSUME NEW url, url.query = <<>>, NEW name PROVE Parameter(url, name) = NoId
BY DEF Parameter

\* A bare identifier is what the platform takes as it is if it is a UUID, and nothing to the toolkit.
LEMMA BareReading ==
    ASSUME NEW id, NEW url, url = [scheme |-> "bare", host |-> "", path |-> <<id>>, query |-> <<>>]
    PROVE  parseVerificationURL(url).id = NoId /\ extractCredentialId(url) \in {id, NoId}
<1>1. url.scheme = "bare" /\ url.path[1] = id /\ Parameter(url, "credential") = NoId
    <2>1. url.scheme = "bare" /\ url.path = <<id>> /\ url.query = <<>>
        OBVIOUS
    <2>2. url.path[1] = id
        BY <2>1
    <2>3. Parameter(url, "credential") = NoId
        BY <2>1, NoParameter
    <2>4. QED
        BY <2>1, <2>2, <2>3
<1>2. parseVerificationURL(url) = Parsed(NoId, "plain", <<>>)
    BY <1>1 DEF parseVerificationURL
<1>3. Parsed(NoId, "plain", <<>>).id = NoId
    BY DEF Parsed
<1>4. extractCredentialId(url) \in {id, NoId}
    BY <1>1 DEF extractCredentialId
<1>5. QED
    BY <1>2, <1>3, <1>4

(***************************************************************************)
(* The inductive invariant: what has been handed over, and what the page   *)
(* /verify works on, came out of a generator with the identifier that is   *)
(* recorded with it.                                                       *)
(***************************************************************************)
MadeWithItsId(s) ==
    /\ parseVerificationURL(s.url).id \in {s.id, NoId}
    /\ PlatformMayRead(s.id, extractCredentialId(s.url))
    /\ s.by = "toolkit" => parseVerificationURL(s.url).id = s.id /\ parseVerificationURL(s.url).format = s.format

SharingInv == ReadIsShared /\ \A s \in shared : MadeWithItsId(s)

LEMMA SharedIsGenerated ==
    ASSUME NEW url, NEW id, NEW by, NEW format,
           parseVerificationURL(url).id \in {id, NoId}, PlatformMayRead(id, extractCredentialId(url)),
           by = "toolkit" => parseVerificationURL(url).id = id /\ parseVerificationURL(url).format = format,
           SharingInv, Share(url, id, by, format)
    PROVE  SharingInv'
<1>1. PICK s : s = [url |-> url, id |-> id, by |-> by, format |-> format]
    OBVIOUS
<1>2. s.url = url /\ s.id = id /\ s.by = by /\ s.format = format
    BY <1>1
<1>3. MadeWithItsId(s)
    BY <1>2 DEF MadeWithItsId
<1>4. shared' = shared \union {s} /\ read' = read
    BY <1>1 DEF Share
<1>5. \A t \in shared' : MadeWithItsId(t)
    BY <1>3, <1>4 DEF SharingInv
<1>6. QED
    BY <1>4, <1>5 DEF SharingInv, ReadIsShared, MadeWithItsId

LEMMA ReadKeepsReadIsShared ==
    ASSUME NEW s, NEW by, NEW id, NEW format, ReadIsShared, Read(s, by, id, format),
           id \in {s.id, NoId} \/ (by = "platform" /\ PlatformMayRead(s.id, id)),
           by = "toolkit" /\ s.by = "toolkit" => id = s.id /\ format = s.format
    PROVE  ReadIsShared'
<1>1. PICK r : r = [of |-> s, by |-> by, id |-> id, format |-> format]
    OBVIOUS
<1>2. r.of = s /\ r.by = by /\ r.id = id /\ r.format = format
    BY <1>1
<1>3. read' = read \union {r}
    BY <1>1 DEF Read
<1>4. QED
    BY <1>2, <1>3 DEF ReadIsShared, PlatformMayRead

LEMMA SharingStep == ASSUME SharingInv, [SharingNext]_sharingVars PROVE SharingInv'
<1>1. CASE generateQRCode
    <2>1. PICK id \in Ids, format \in Formats, base \in BasePaths :
              Share(generateVerificationURL(id, format, base), id, "toolkit", format)
        BY <1>1 DEF generateQRCode
    <2>2. PICK url : url = generateVerificationURL(id, format, base)
        OBVIOUS
    <2>3. parseVerificationURL(url).id = id /\ parseVerificationURL(url).format = format
        BY <2>2, ToolkitReadsItsOwn
    <2>4. PlatformMayRead(id, extractCredentialId(url))
        BY <2>2, PlatformReadsEither
    <2>5. QED
        BY <2>1, <2>2, <2>3, <2>4, SharedIsGenerated
<1>2. CASE ShareFromPlatform
    <2>1. PICK id \in Ids :
              \/ \E format \in Formats, base \in BasePaths :
                     Share(getVerificationUrl(id, format, base), id, "platform", format)
              \/ Share([scheme |-> "bare", host |-> "", path |-> <<id>>, query |-> <<>>], id, "platform", "bare")
        BY <1>2 DEF ShareFromPlatform
    <2>2. PICK platform : platform = "platform"
        OBVIOUS
    <2>3. CASE \E format \in Formats, base \in BasePaths :
                   Share(getVerificationUrl(id, format, base), id, "platform", format)
        <3>1. PICK format \in Formats, base \in BasePaths :
                  Share(getVerificationUrl(id, format, base), id, "platform", format)
            BY <2>3
        <3>2. PICK url : url = getVerificationUrl(id, format, base)
            OBVIOUS
        <3>3. parseVerificationURL(url).id \in {id, NoId}
            BY <3>2, ToolkitReadsThePlatform
        <3>4. PlatformMayRead(id, extractCredentialId(url))
            BY <3>2, PlatformReadsEither
        <3>5. Share(url, id, platform, format) /\ platform # "toolkit"
            BY <2>2, <3>1, <3>2
        <3>6. QED
            BY <3>3, <3>4, <3>5, SharedIsGenerated
    <2>4. CASE Share([scheme |-> "bare", host |-> "", path |-> <<id>>, query |-> <<>>], id, "platform", "bare")
        <3>1. PICK url, bare : /\ url = [scheme |-> "bare", host |-> "", path |-> <<id>>, query |-> <<>>]
                               /\ bare = "bare"
            OBVIOUS
        <3>2. parseVerificationURL(url).id \in {id, NoId} /\ PlatformMayRead(id, extractCredentialId(url))
            BY <3>1, BareReading DEF PlatformMayRead
        <3>3. Share(url, id, platform, bare) /\ platform # "toolkit"
            BY <2>2, <2>4, <3>1
        <3>4. QED
            BY <3>2, <3>3, SharedIsGenerated
    <2>5. QED
        BY <2>1, <2>3, <2>4
<1>3. ASSUME NEW s \in shared, Parse(s) PROVE SharingInv'
    <2>1. MadeWithItsId(s) /\ ReadIsShared
        BY DEF SharingInv
    <2>2. PICK toolkit, id, format :
              /\ toolkit = "toolkit" /\ id = parseVerificationURL(s.url).id
              /\ format = parseVerificationURL(s.url).format
        OBVIOUS
    <2>3. Read(s, toolkit, id, format) /\ shared' = shared
        BY <1>3, <2>2 DEF Parse
    <2>4. id \in {s.id, NoId} /\ (s.by = "toolkit" => id = s.id /\ format = s.format)
        BY <2>1, <2>2 DEF MadeWithItsId
    <2>5. ReadIsShared'
        BY <2>1, <2>3, <2>4, ReadKeepsReadIsShared
    <2>6. QED
        BY <2>3, <2>5 DEF SharingInv, MadeWithItsId
<1>4. ASSUME NEW s \in shared, handleVerify(s) PROVE SharingInv'
    <2>1. MadeWithItsId(s) /\ ReadIsShared
        BY DEF SharingInv
    <2>2. PICK platform, id : platform = "platform" /\ id = extractCredentialId(s.url)
        OBVIOUS
    <2>3. Read(s, platform, id, s.format) /\ shared' = shared
        BY <1>4, <2>2 DEF handleVerify
    <2>4. PlatformMayRead(s.id, id) /\ platform # "toolkit"
        BY <2>1, <2>2 DEF MadeWithItsId
    <2>5. ReadIsShared'
        BY <2>1, <2>2, <2>3, <2>4, ReadKeepsReadIsShared
    <2>6. QED
        BY <2>3, <2>5 DEF SharingInv, MadeWithItsId
<1>5. CASE VerifyAnswer \/ UNCHANGED sharingVars
    <2>1. shared' = shared /\ read' = read
        BY <1>5 DEF VerifyAnswer, sharingVars
    <2>2. QED
        BY <2>1 DEF SharingInv, ReadIsShared, MadeWithItsId
<1>6. QED
    BY <1>1, <1>2, <1>3, <1>4, <1>5 DEF SharingNext, TypeInput, FromAddress

\* For every identifier and every base URL, whatever digits it begins with: the toolkit reads what was
\* put in or nothing, the platform at most the beginning of it that is of hexadecimal digits and dashes.
THEOREM ReadersTakeTheirPart == SharingSpec => []ReadIsShared
<1>1. SharingInit => SharingInv
    BY DEF SharingInit, SharingInv, ReadIsShared
<1>2. SharingInv /\ [SharingNext]_sharingVars => SharingInv'
    BY SharingStep
<1>3. SharingInv => ReadIsShared
    BY DEF SharingInv
<1>4. QED
    BY <1>1, <1>2, <1>3, PTL DEF SharingSpec

-----------------------------------------------------------------------------
(* Pages                                                                    *)

ToDo == {"load", "submit", "revoke", "activate", "delete", "status", "verify", "download", "add", "remove"}

PageRow    == [name : DOMAIN Pages \cup {"login"}, visit : Nat, filter : Nat, error : BOOLEAN,
               shown : {"nothing", "value"}, busy : BOOLEAN, done : BOOLEAN, failed : Nat, made : Nat,
               loading : BOOLEAN]
RequestRow == [of : DOMAIN Pages, visit : Nat, does : ToDo, filter : Nat]

PlatformTypeOK ==
    /\ page \in PageRow
    /\ pending \subseteq RequestRow
    /\ next \in DOMAIN Pages \cup {"nowhere"}

\* No request is of a visit to come, those of this visit are of this page, and forms submit.
RequestsSound ==
    \A r \in pending :
        /\ r.visit <= page.visit
        /\ IsMounted(r) => r.of = page.name
        /\ r.does = "submit" => r.of \in DOMAIN Detail

\* The requests that keep the page busy: its own, of a form or of an act that disables its button.
Keeps(r) == IsMounted(r) /\ (r.does = "submit" \/ \E act \in Pages[r.of].acts : act.does = r.does /\ act.guarded)

BusyWithReason ==
    /\ page.loading => \E r \in pending : IsMounted(r) /\ r.does = "load"
    /\ page.busy => page.done \/ \E r \in pending : Keeps(r)

Submits == {r \in pending : IsMounted(r) /\ r.does = "submit"}

\* A form has one submission in flight at most, and its button is disabled until the answer;
\* unless a success keeps it disabled, it has made no more than it has told of failures.
FormsOnce ==
    OnPage /\ Here.form # "none" =>
        /\ \A r, q \in Submits : r = q
        /\ Submits # {} => page.busy
        /\ Here.form = "disabled" =>
              \/ page.made <= page.failed
              \/ page.made <= page.failed + 1 /\ page.busy /\ Submits = {}

PlatformInv == PlatformTypeOK /\ RequestsSound /\ BusyWithReason /\ FormsOnce

\* What the pages have in common: the acts that a page offers are neither loads nor submissions, no two of
\* them are called the same, and a page with a form offers none.
GoodAct(act) ==
    /\ act.does \in ToDo \ {"load", "submit"}
    /\ act.guarded \in BOOLEAN
    /\ act.then \in {"reload", "stay", "keys"}

GoodActs(acts) ==
    /\ \A act \in acts : GoodAct(act)
    /\ \A act, other \in acts : other.does = act.does => other = act

GoodPage(row) ==
    /\ {row.filters, row.clears, row.loads, row.tells, row.retry} \subseteq BOOLEAN
    /\ row.form \in {"none", "enabled", "disabled"}
    /\ GoodActs(row.acts)
    /\ row.form # "none" => row.acts = {}

LEMMA PageNames ==
    /\ DOMAIN Pages = {"keys", "key", "newKey", "organizations", "organization", "newOrganization", "payments",
                       "payment", "newPayment", "analytics", "credentials", "credential", "newCredential",
                       "passports", "passport", "proofs", "proof", "newProof", "mine", "myCredential",
                       "myPassport", "myAnalytics"}
    /\ "login" \notin DOMAIN Pages /\ "nowhere" \notin DOMAIN Pages
BY DEF Pages

LEMMA DetailNames ==
    /\ DOMAIN Detail = {"newKey", "newOrganization", "newPayment", "newCredential", "newProof"}
    /\ \A name \in DOMAIN Detail : Detail[name] \in DOMAIN Pages
BY PageNames DEF Detail

LEMMA PlainPagesAreGood ==
    /\ GoodPage(ApiKeysPage)
    /\ GoodPage(OrganizationsPage)
    /\ GoodPage(PaymentsPage)
    /\ GoodPage(AdminAnalyticsPage)
    /\ GoodPage(CredentialsPage)
    /\ GoodPage(ZKPPage)
    /\ GoodPage(MyCredentialsPage)
    /\ GoodPage(MyAnalyticsPage)
BY DEF GoodPage, GoodActs, Page, ApiKeysPage, OrganizationsPage, PaymentsPage, AdminAnalyticsPage, CredentialsPage, ZKPPage, MyCredentialsPage, MyAnalyticsPage

LEMMA FormsAreGood ==
    /\ GoodPage(GenerateApiKeyPage)
    /\ GoodPage(NewOrganizationPage)
    /\ GoodPage(NewPaymentPage)
    /\ GoodPage(NewCredentialPage)
    /\ GoodPage(NewZKProofPage)
BY DEF GoodPage, GoodActs, Form, GenerateApiKeyPage, NewOrganizationPage, NewPaymentPage, NewCredentialPage, NewZKProofPage

LEMMA OneActIsGood == ASSUME NEW act, GoodAct(act) PROVE GoodActs({act})
BY DEF GoodActs

LEMMA PagesWithOneActAreGood ==
    /\ GoodPage(OrganizationDetailPage)
    /\ GoodPage(PaymentDetailPage)
    /\ GoodPage(CredentialDetailPage)
    /\ GoodPage(DashboardPassportsPage)
    /\ GoodPage(ZKProofDetailPage)
    /\ GoodPage(MyPassportPage)
<1>1. /\ GoodAct(Act("download", "stay", FALSE, "error"))
      /\ GoodAct(Act("download", "stay", TRUE, "alert"))
      /\ GoodAct(Act("status", "reload", FALSE, "alert"))
      /\ GoodAct(Act("verify", "stay", TRUE, "error"))
    BY DEF GoodAct, Act, ToDo
<1>2. /\ GoodActs({Act("download", "stay", FALSE, "error")})
      /\ GoodActs({Act("download", "stay", TRUE, "alert")})
      /\ GoodActs({Act("status", "reload", FALSE, "alert")})
      /\ GoodActs({Act("verify", "stay", TRUE, "error")})
    BY <1>1, OneActIsGood
<1>3. QED
    BY <1>2 DEF GoodPage, Page, OrganizationDetailPage, PaymentDetailPage, CredentialDetailPage, DashboardPassportsPage, ZKProofDetailPage, MyPassportPage

LEMMA ApiKeyDetailPageIsGood == GoodPage(ApiKeyDetailPage)
<1>1. /\ GoodAct(Act("revoke", "reload", FALSE, "alert"))
      /\ GoodAct(Act("activate", "reload", FALSE, "alert"))
      /\ GoodAct(Act("delete", "keys", FALSE, "alert"))
    BY DEF GoodAct, Act, ToDo
<1>2. /\ Act("revoke", "reload", FALSE, "alert").does = "revoke"
      /\ Act("activate", "reload", FALSE, "alert").does = "activate"
      /\ Act("delete", "keys", FALSE, "alert").does = "delete"
    BY DEF Act
<1>3. GoodActs({Act("revoke", "reload", FALSE, "alert"), Act("activate", "reload", FALSE, "alert"), Act("delete", "keys", FALSE, "alert")})
    BY <1>1, <1>2 DEF GoodActs
<1>4. QED
    BY <1>3 DEF GoodPage, Page, ApiKeyDetailPage

LEMMA PassportDetailPageIsGood == GoodPage(PassportDetailPage)
<1>1. /\ GoodAct(Act("add", "reload", TRUE, "error"))
      /\ GoodAct(Act("remove", "reload", TRUE, "error"))
      /\ GoodAct(Act("download", "stay", FALSE, "error"))
    BY DEF GoodAct, Act, ToDo
<1>2. /\ Act("add", "reload", TRUE, "error").does = "add"
      /\ Act("remove", "reload", TRUE, "error").does = "remove"
      /\ Act("download", "stay", FALSE, "error").does = "download"
    BY DEF Act
<1>3. GoodActs({Act("add", "reload", TRUE, "error"), Act("remove", "reload", TRUE, "error"), Act("download", "stay", FALSE, "error")})
    BY <1>1, <1>2 DEF GoodActs
<1>4. QED
    BY <1>3 DEF GoodPage, Page, PassportDetailPage

LEMMA MyCredentialDetailPageIsGood == GoodPage(MyCredentialDetailPage)
<1>1. /\ GoodAct(Act("revoke", "reload", TRUE, "alert"))
      /\ GoodAct(Act("download", "stay", FALSE, "alert"))
    BY DEF GoodAct, Act, ToDo
<1>2. /\ Act("revoke", "reload", TRUE, "alert").does = "revoke"
      /\ Act("download", "stay", FALSE, "alert").does = "download"
    BY DEF Act
<1>3. GoodActs({Act("revoke", "reload", TRUE, "alert"), Act("download", "stay", FALSE, "alert")})
    <2>1. PICK a, b : a = Act("revoke", "reload", TRUE, "alert") /\ b = Act("download", "stay", FALSE, "alert")
        OBVIOUS
    <2>2. GoodActs({a, b})
        BY <1>1, <1>2, <2>1 DEF GoodActs
    <2>3. QED
        BY <2>1, <2>2
<1>4. QED
    BY <1>3 DEF GoodPage, Page, MyCredentialDetailPage

LEMMA PagesAreGood == \A name \in DOMAIN Pages : GoodPage(Pages[name]) /\ (Pages[name].form # "none" => name \in DOMAIN Detail)
<1>1. TAKE name \in DOMAIN Pages
<1>2. GoodPage(Pages[name])
    BY PageNames, PlainPagesAreGood, FormsAreGood, PagesWithOneActAreGood, ApiKeyDetailPageIsGood, PassportDetailPageIsGood, MyCredentialDetailPageIsGood DEF Pages
<1>3. Pages[name].form # "none" => name \in DOMAIN Detail
    BY PageNames, DetailNames DEF Pages, Page, ApiKeysPage, ApiKeyDetailPage, OrganizationsPage, OrganizationDetailPage, PaymentsPage, PaymentDetailPage, AdminAnalyticsPage, CredentialsPage, CredentialDetailPage, DashboardPassportsPage, PassportDetailPage, ZKPPage, ZKProofDetailPage, MyCredentialsPage, MyCredentialDetailPage, MyPassportPage, MyAnalyticsPage
<1>4. QED
    BY <1>2, <1>3

LEMMA DetailIsAPage == \A name \in DOMAIN Pages : Pages[name].form # "none" => Detail[name] \in DOMAIN Pages
BY PagesAreGood, DetailNames

\* No act is a load or a submission, so that the answer to one is the answer to no other.
LEMMA ActsAreActs ==
    ASSUME NEW name \in DOMAIN Pages, NEW act \in Pages[name].acts
    PROVE  /\ act.does \in ToDo \ {"load", "submit"}
           /\ act.guarded \in BOOLEAN
           /\ act.then \notin {"reload", "stay"} => act.then \in DOMAIN Pages
           /\ \A other \in Pages[name].acts : other.does = act.does => other = act
           /\ Pages[name].form = "none"
<1>1. GoodPage(Pages[name])
    BY PagesAreGood
<1>2. GoodActs(Pages[name].acts) /\ GoodAct(act)
    BY <1>1 DEF GoodPage, GoodActs
<1>3. act.then \notin {"reload", "stay"} => act.then \in DOMAIN Pages
    BY <1>2, PageNames DEF GoodAct
<1>4. act.does \in ToDo \ {"load", "submit"} /\ act.guarded \in BOOLEAN
    BY <1>2 DEF GoodAct
<1>5. \A other \in Pages[name].acts : other.does = act.does => other = act
    BY <1>2 DEF GoodActs
<1>6. Pages[name].form = "none"
    BY <1>1 DEF GoodPage
<1>7. QED
    BY <1>3, <1>4, <1>5, <1>6

LEMMA PageFlags ==
    ASSUME NEW name \in DOMAIN Pages
    PROVE  /\ {Pages[name].loads, Pages[name].clears, Pages[name].tells, Pages[name].filters} \subseteq BOOLEAN
           /\ Pages[name].form \in {"none", "enabled", "disabled"}
           /\ Pages[name].form # "none" => Pages[name].acts = {} /\ name \in DOMAIN Detail
BY PagesAreGood DEF GoodPage

LEMMA MountedIsAPage ==
    ASSUME NEW name \in DOMAIN Pages \cup {"login"}, NEW visit \in Nat
    PROVE  /\ Mounted(name, visit) \in PageRow
           /\ Mounted(name, visit).name = name /\ Mounted(name, visit).visit = visit
           /\ ~Mounted(name, visit).busy /\ Mounted(name, visit).made = 0 /\ Mounted(name, visit).failed = 0
           /\ Mounted(name, visit).loading => name # "login" /\ Pages[name].loads
<1>1. (name # "login" /\ Pages[name].loads /\ Pages[name].form = "none") \in BOOLEAN
    OBVIOUS
<1>2. QED
    BY <1>1 DEF Mounted, PageRow

\* A new page starts with what is left of other visits, and with a load of its own if it says so.
LEMMA MountKeeps ==
    ASSUME PlatformInv, NEW name \in DOMAIN Pages \cup {"login"}, NEW requests \in SUBSET pending, Mount(name, requests)
    PROVE  PlatformInv'
<1>1. PICK visit \in Nat : visit = page.visit + 1 /\ visit > page.visit
    BY DEF PlatformInv, PlatformTypeOK, PageRow
<1>2. /\ page' = Mounted(name, visit) /\ page' \in PageRow
      /\ page'.name = name /\ page'.visit = visit /\ ~page'.busy /\ page'.made = 0 /\ page'.failed = 0
      /\ page'.loading => name # "login" /\ Pages[name].loads
    BY <1>1, MountedIsAPage DEF Mount
<1>3. PICK load : load = [of |-> name, visit |-> visit, does |-> "load", filter |-> 0]
    OBVIOUS
<1>4. /\ load.of = name /\ load.visit = visit /\ load.does = "load"
      /\ name # "login" => load \in RequestRow
    BY <1>3 DEF RequestRow, ToDo
<1>5. pending' = IF name # "login" /\ Pages[name].loads THEN requests \union {load} ELSE requests
    BY <1>1, <1>3 DEF Mount
<1>6. PlatformTypeOK'
    BY <1>2, <1>4, <1>5 DEF PlatformInv, PlatformTypeOK, Mount
<1>7. \A r \in pending' : r = load \/ (r \in pending /\ r.visit < page'.visit)
    <2>0. \A r \in pending' : r = load \/ r \in pending
        BY <1>5
    <2>1. page'.visit = visit
        BY <1>2
    <2> SUFFICES ASSUME NEW r \in pending PROVE r.visit < visit
        BY <2>0, <2>1
    <2>2. r.visit \in Nat /\ page.visit \in Nat /\ r.visit <= page.visit
        BY DEF PlatformInv, PlatformTypeOK, RequestsSound, RequestRow, PageRow
    <2>3. QED
        BY <1>1, <2>2
<1>8. RequestsSound'
    <2> SUFFICES ASSUME NEW r \in pending'
                   PROVE  r.visit <= page'.visit /\ (IsMounted(r)' => r.of = page'.name)
                          /\ (r.does = "submit" => r.of \in DOMAIN Detail)
        BY DEF RequestsSound
    <2>2. CASE r = load
        BY <1>1, <1>2, <1>4, <2>2
    <2>3. CASE r # load
        BY <1>1, <1>2, <1>7, <2>3 DEF PlatformInv, PlatformTypeOK, RequestsSound, RequestRow, PageRow, IsMounted
    <2>4. QED
        BY <2>2, <2>3
<1>9. BusyWithReason'
    BY <1>2, <1>4, <1>5 DEF BusyWithReason, IsMounted
<1>10. FormsOnce'
    <2>1. Submits' = {}
        BY <1>1, <1>2, <1>4, <1>7 DEF Submits, IsMounted
    <2>2. QED
        BY <1>2, <2>1 DEF FormsOnce
<1>11. QED
    BY <1>6, <1>8, <1>9, <1>10 DEF PlatformInv

LEMMA EnterKeeps ==
    ASSUME PlatformInv, NEW name \in DOMAIN Pages, Enter(name)
    PROVE  PlatformInv'
BY MountKeeps DEF Enter

LEMMA UnauthorizedKeeps ==
    ASSUME PlatformInv, Unauthorized
    PROVE  PlatformInv'
BY MountKeeps DEF Unauthorized

\* What a page's own request is, when it has just been sent.
LEMMA RequestIsARow ==
    ASSUME PlatformInv, OnPage, NEW does \in ToDo
    PROVE  /\ page.name \in DOMAIN Pages
           /\ Request(does) \in RequestRow
           /\ Request(does).of = page.name /\ Request(does).visit = page.visit /\ Request(does).does = does
BY DEF PlatformInv, PlatformTypeOK, PageRow, RequestRow, Request, OnPage

\* A request that a page sends keeps the page's name, visit and what it has made.
LEMMA SendKeeps ==
    ASSUME PlatformInv, OnPage, NEW r \in RequestRow,
           r.of = page.name, r.visit = page.visit, r.does = "submit" => page.name \in DOMAIN Detail,
           pending' = pending \union {r}, page' \in PageRow,
           page'.name = page.name, page'.visit = page.visit, next' = next
    PROVE  PlatformTypeOK' /\ RequestsSound'
<1>1. PlatformTypeOK'
    BY DEF PlatformInv, PlatformTypeOK
<1>2. r.visit <= page.visit
    BY DEF PlatformInv, PlatformTypeOK, PageRow
<1>3. RequestsSound'
    BY <1>2 DEF PlatformInv, RequestsSound, IsMounted
<1>4. QED
    BY <1>1, <1>3

\* A load, by a filter or by a button to try again, is a reason to say that the page loads, and no submission.
LEMMA LoadSentKeeps ==
    ASSUME PlatformInv, OnPage, NEW r \in RequestRow, r.of = page.name, r.visit = page.visit, r.does = "load",
           pending' = pending \union {r}, page' \in PageRow,
           page'.name = page.name, page'.visit = page.visit, page'.busy = page.busy, page'.made = page.made /\ page'.done = page.done /\ page'.failed = page.failed,
           next' = next
    PROVE  PlatformInv'
<1>1. PlatformTypeOK' /\ RequestsSound'
    BY SendKeeps
<1>2. \A q \in pending : IsMounted(q)' <=> IsMounted(q)
    BY DEF IsMounted
<1>3. BusyWithReason'
    BY <1>2 DEF PlatformInv, BusyWithReason, Keeps, IsMounted
<1>4. Submits' = Submits
    BY <1>2 DEF Submits
<1>5. FormsOnce'
    BY <1>4 DEF PlatformInv, FormsOnce, OnPage, Here
<1>6. QED
    BY <1>1, <1>3, <1>5 DEF PlatformInv

LEMMA ChangeFilterKeeps == ASSUME PlatformInv, ChangeFilter PROVE PlatformInv'
<1>1. page.name \in DOMAIN Pages
    BY DEF ChangeFilter, OnPage, PlatformInv, PlatformTypeOK, PageRow
<1>2. Here.clears \in BOOLEAN
    BY <1>1, PageFlags DEF Here
<1>3. PICK row : row = [[page EXCEPT !.filter = @ + 1] EXCEPT !.loading = TRUE, !.error = IF Here.clears THEN FALSE ELSE @]
    OBVIOUS
<1>4. PICK r : r = [Request("load") EXCEPT !.filter = page.filter + 1]
    OBVIOUS
<1>5. /\ row \in PageRow /\ row.name = page.name /\ row.visit = page.visit /\ row.busy = page.busy
      /\ row.made = page.made /\ row.done = page.done /\ row.failed = page.failed
    <2>1. PICK changed : changed = [page EXCEPT !.filter = @ + 1]
        OBVIOUS
    <2>2. changed \in PageRow /\ changed.name = page.name /\ changed.visit = page.visit
          /\ changed.busy = page.busy /\ changed.made = page.made /\ changed.done = page.done /\ changed.failed = page.failed
        BY <2>1 DEF PlatformInv, PlatformTypeOK, PageRow
    <2>3. row = [changed EXCEPT !.loading = TRUE, !.error = IF Here.clears THEN FALSE ELSE @]
        BY <1>3, <2>1
    <2>4. QED
        BY <1>2, <2>2, <2>3 DEF PageRow
<1>6. r \in RequestRow /\ r.of = page.name /\ r.visit = page.visit /\ r.does = "load"
    BY <1>1, <1>4 DEF Request, RequestRow, ToDo, PlatformInv, PlatformTypeOK, PageRow
<1>7. [page EXCEPT !.filter = @ + 1].filter = page.filter + 1
    BY DEF PlatformInv, PlatformTypeOK, PageRow
<1>8. page' = row /\ pending' = pending \union {r} /\ next' = next /\ OnPage
    BY <1>3, <1>4, <1>7 DEF ChangeFilter
<1>9. QED
    BY <1>5, <1>6, <1>8, LoadSentKeeps

LEMMA RetryKeeps == ASSUME PlatformInv, Retry PROVE PlatformInv'
<1>1. OnPage /\ page.name \in DOMAIN Pages
    BY DEF Retry, OnPage, PlatformInv, PlatformTypeOK, PageRow
<1>2. Here.clears \in BOOLEAN
    BY <1>1, PageFlags DEF Here
<1>3. Request("load") \in RequestRow /\ Request("load").of = page.name /\ Request("load").visit = page.visit
      /\ Request("load").does = "load"
    BY <1>1, RequestIsARow DEF ToDo
<1>4. /\ page' \in PageRow /\ page'.name = page.name /\ page'.visit = page.visit /\ page'.busy = page.busy
      /\ page'.made = page.made /\ page'.done = page.done /\ page'.failed = page.failed
    BY <1>2 DEF Retry, Load, PlatformInv, PlatformTypeOK, PageRow
<1>5. QED
    BY <1>1, <1>3, <1>4, LoadSentKeeps DEF Retry, Load, Send

\* An act disables its button only while it has a request in flight.
LEMMA PressKeeps == ASSUME PlatformInv, Press PROVE PlatformInv'
<1>1. OnPage /\ page.name \in DOMAIN Pages
    BY DEF Press, OnPage, PlatformInv, PlatformTypeOK, PageRow
<1>2. PICK act \in Pages[page.name].acts :
        Send(act.does) /\ page' = [page EXCEPT !.busy = @ \/ act.guarded] /\ next' = next
    BY DEF Press, Here
<1>3. act.does \in ToDo \ {"load", "submit"} /\ act.guarded \in BOOLEAN /\ Pages[page.name].form = "none"
    BY <1>1, <1>2, ActsAreActs
<1>4. PICK r : r = Request(act.does)
    OBVIOUS
<1>5. r \in RequestRow /\ r.of = page.name /\ r.visit = page.visit /\ r.does = act.does
    BY <1>1, <1>3, <1>4, RequestIsARow
<1>6. pending' = pending \union {r}
    BY <1>2, <1>4 DEF Send
<1>7. /\ page' \in PageRow /\ page'.name = page.name /\ page'.visit = page.visit /\ page'.loading = page.loading
      /\ page'.made = page.made /\ page'.done = page.done /\ page'.failed = page.failed /\ page'.busy = (page.busy \/ act.guarded)
    BY <1>2, <1>3 DEF PlatformInv, PlatformTypeOK, PageRow
<1>8. PlatformTypeOK' /\ RequestsSound'
    BY <1>1, <1>2, <1>3, <1>5, <1>6, <1>7, SendKeeps
<1>9. \A q \in pending : (IsMounted(q)' <=> IsMounted(q)) /\ (Keeps(q)' <=> Keeps(q))
    BY <1>7 DEF IsMounted, Keeps
<1>10. act.guarded => Keeps(r)'
    BY <1>2, <1>5, <1>7 DEF Keeps, IsMounted
<1>11. BusyWithReason'
    BY <1>6, <1>7, <1>9, <1>10 DEF PlatformInv, BusyWithReason
<1>12. FormsOnce'
    BY <1>3, <1>7 DEF FormsOnce, Here
<1>13. QED
    BY <1>8, <1>11, <1>12 DEF PlatformInv

\* A form submits when its button is enabled: it has no submission in flight then, and made no more
\* than it told of failures if its button would have stayed disabled.
LEMMA SubmitFormKeeps == ASSUME PlatformInv, SubmitForm PROVE PlatformInv'
<1>1. OnPage /\ page.name \in DOMAIN Pages /\ Here.form # "none" /\ ~page.busy
    BY DEF SubmitForm, OnPage, PlatformInv, PlatformTypeOK, PageRow
<1>2. page.name \in DOMAIN Detail
    BY <1>1, PageFlags DEF Here
<1>3. PICK r : r = Request("submit")
    OBVIOUS
<1>4. r \in RequestRow /\ r.of = page.name /\ r.visit = page.visit /\ r.does = "submit"
    BY <1>1, <1>3, RequestIsARow DEF ToDo
<1>5. pending' = pending \union {r} /\ next' = next
    BY <1>3 DEF SubmitForm, Send
<1>6. /\ page' \in PageRow /\ page'.name = page.name /\ page'.visit = page.visit /\ page'.loading = page.loading
      /\ page'.made = page.made /\ page'.done = page.done /\ page'.failed = page.failed /\ page'.busy
    BY DEF SubmitForm, PlatformInv, PlatformTypeOK, PageRow
<1>7. PlatformTypeOK' /\ RequestsSound'
    BY <1>1, <1>2, <1>4, <1>5, <1>6, SendKeeps
<1>8. \A q \in pending : IsMounted(q)' <=> IsMounted(q)
    BY <1>6 DEF IsMounted
<1>9. Keeps(r)'
    BY <1>4, <1>6 DEF Keeps, IsMounted
<1>10. BusyWithReason'
    BY <1>5, <1>6, <1>8, <1>9 DEF PlatformInv, BusyWithReason
<1>11. Submits = {} /\ (Here.form = "disabled" => page.made <= page.failed)
    BY <1>1 DEF PlatformInv, FormsOnce
<1>12. Submits' = {r}
    BY <1>4, <1>5, <1>6, <1>8, <1>11 DEF Submits, IsMounted
<1>13. FormsOnce'
    BY <1>6, <1>11, <1>12 DEF FormsOnce, Here
<1>14. QED
    BY <1>7, <1>10, <1>13 DEF PlatformInv

\* An answer takes its request away, and at most adds a load of the same page and visit.
LEMMA AnswerKeeps ==
    ASSUME PlatformInv, NEW asked \in pending, NEW added, added \subseteq RequestRow,
           \A q \in added : q.of = asked.of /\ q.visit = asked.visit /\ q.does = "load",
           pending' = (pending \ {asked}) \union added,
           page' \in PageRow, page'.name = page.name, page'.visit = page.visit,
           next' \in DOMAIN Pages \cup {"nowhere"}
    PROVE  /\ PlatformTypeOK' /\ RequestsSound'
           /\ \A q \in pending : (IsMounted(q)' <=> IsMounted(q)) /\ (Keeps(q)' <=> Keeps(q))
<1>1. PlatformTypeOK'
    BY DEF PlatformInv, PlatformTypeOK
<1>2. \A q : q.visit <= page.visit <=> q.visit <= page'.visit
    OBVIOUS
<1>3. RequestsSound'
    BY <1>2 DEF PlatformInv, RequestsSound, IsMounted
<1>4. QED
    BY <1>1, <1>3 DEF IsMounted, Keeps

\* The answer to another visit: nothing of this page changes.
LEMMA StrangerKeeps ==
    ASSUME PlatformInv, NEW asked \in pending, ~IsMounted(asked), NEW added, added \subseteq RequestRow,
           \A q \in added : q.of = asked.of /\ q.visit = asked.visit /\ q.does = "load",
           pending' = (pending \ {asked}) \union added, page' = page,
           next' \in DOMAIN Pages \cup {"nowhere"}
    PROVE  PlatformInv'
<1>1. page' \in PageRow /\ page'.name = page.name /\ page'.visit = page.visit
    BY DEF PlatformInv, PlatformTypeOK
<1>2. /\ PlatformTypeOK' /\ RequestsSound'
      /\ \A q \in pending : (IsMounted(q)' <=> IsMounted(q)) /\ (Keeps(q)' <=> Keeps(q))
    BY <1>1, AnswerKeeps
<1>3. ~Keeps(asked)
    BY DEF Keeps
<1>4. BusyWithReason'
    BY <1>2, <1>3 DEF PlatformInv, BusyWithReason
<1>5. Submits' = Submits
    BY <1>2 DEF Submits, IsMounted
<1>6. FormsOnce'
    BY <1>5 DEF PlatformInv, FormsOnce, OnPage, Here
<1>7. QED
    BY <1>2, <1>4, <1>6 DEF PlatformInv

\* The answer to a load of this visit ends the page's loading, and leaves its acts and its form alone.
LEMMA LoadAnswerKeeps == ASSUME PlatformInv, NEW asked \in pending, LoadAnswer(asked) PROVE PlatformInv'
<1>1. PICK outcome \in Outcomes(asked.of) :
        IF outcome = "unauthorized" THEN Unauthorized
        ELSE /\ page' = IF IsMounted(asked) THEN Loaded(outcome) ELSE page
             /\ pending' = pending \ {asked}
             /\ next' = next
    BY DEF LoadAnswer
<1>2. CASE outcome = "unauthorized"
    BY <1>1, <1>2, UnauthorizedKeeps
<1>3. CASE outcome # "unauthorized" /\ ~IsMounted(asked)
    <2>0. PICK added : added = {}
        OBVIOUS
    <2>1. /\ pending' = (pending \ {asked}) \union added /\ page' = page
          /\ next' \in DOMAIN Pages \cup {"nowhere"}
          /\ added \subseteq RequestRow /\ \A q \in added : FALSE
        BY <1>1, <1>3, <2>0 DEF PlatformInv, PlatformTypeOK
    <2>2. QED
        BY <1>3, <2>1, StrangerKeeps
<1>4. CASE outcome # "unauthorized" /\ IsMounted(asked)
    <2>1. /\ asked.of = page.name /\ page.name \in DOMAIN Pages /\ asked.does = "load"
          /\ page \in PageRow /\ asked \in RequestRow
        BY <1>4 DEF PlatformInv, PlatformTypeOK, RequestsSound, RequestRow, LoadAnswer
    <2>2. Here.tells \in BOOLEAN
        BY <2>1, PageFlags DEF Here
    <2>3. page' = Loaded(outcome) /\ pending' = (pending \ {asked}) \union {} /\ next' = next
        BY <1>1, <1>4
    <2>4. PICK told \in BOOLEAN : told = (page.error \/ (outcome # "value" /\ Here.tells))
        BY <2>1, <2>2 DEF PageRow
    <2>5. page' = [page EXCEPT !.loading = FALSE, !.shown = IF outcome = "value" THEN "value" ELSE @, !.error = told]
        BY <2>3, <2>4 DEF Loaded
    <2>6. /\ page' \in PageRow /\ page'.name = page.name /\ page'.visit = page.visit /\ page'.busy = page.busy
          /\ page'.made = page.made /\ page'.done = page.done /\ page'.failed = page.failed /\ ~page'.loading
        BY <2>1, <2>5 DEF PageRow
    <2>7. next' \in DOMAIN Pages \cup {"nowhere"}
        BY <2>3 DEF PlatformInv, PlatformTypeOK
    <2>8. /\ PlatformTypeOK' /\ RequestsSound'
          /\ \A q \in pending : (IsMounted(q)' <=> IsMounted(q)) /\ (Keeps(q)' <=> Keeps(q))
        <3>1. PICK added : added = {}
            OBVIOUS
        <3>2. /\ pending' = (pending \ {asked}) \union added
              /\ added \subseteq RequestRow /\ \A q \in added : FALSE
            BY <2>3, <3>1
        <3>3. QED
            BY <2>6, <2>7, <3>2, AnswerKeeps
    <2>9. ~Keeps(asked)
        <3>1. \A act \in Pages[asked.of].acts : act.does # "load"
            BY <2>1, ActsAreActs
        <3>2. QED
            BY <2>1, <3>1 DEF Keeps
    <2>10. BusyWithReason'
        BY <2>3, <2>6, <2>8, <2>9 DEF PlatformInv, BusyWithReason
    <2>11. Submits' = Submits
        BY <2>1, <2>3, <2>8 DEF Submits
    <2>12. FormsOnce'
        BY <2>6, <2>11 DEF PlatformInv, FormsOnce, OnPage, Here
    <2>13. QED
        BY <2>8, <2>10, <2>12 DEF PlatformInv
<1>5. QED
    BY <1>2, <1>3, <1>4

\* An act that fails or succeeds enables its button, and a success that loads again says so with a load of its own.
LEMMA ActAnswerKeeps == ASSUME PlatformInv, NEW asked \in pending, ActAnswer(asked) PROVE PlatformInv'
<1>1. /\ page \in PageRow /\ asked \in RequestRow /\ asked.of \in DOMAIN Pages
      /\ next \in DOMAIN Pages \cup {"nowhere"}
    BY DEF PlatformInv, PlatformTypeOK, RequestRow
<1>2. PICK act \in Pages[asked.of].acts, outcome \in Outcomes(asked.of) :
        /\ act.does = asked.does
        /\ IF outcome = "unauthorized" THEN Unauthorized
           ELSE /\ page' = IF ~IsMounted(asked) THEN page
                           ELSE [page EXCEPT !.busy = @ /\ ~act.guarded,
                                             !.loading = @ \/ (outcome # "error" /\ act.then = "reload"),
                                             !.error = @ \/ (outcome = "error" /\ act.failure = "error")]
                /\ pending' = (pending \ {asked}) \union
                       (IF outcome # "error" /\ act.then = "reload" THEN {[asked EXCEPT !.does = "load"]} ELSE {})
                /\ next' = IF outcome # "error" /\ act.then \notin {"reload", "stay"} THEN act.then ELSE next
    BY DEF ActAnswer
<1>3. /\ act.does \in ToDo \ {"load", "submit"} /\ act.guarded \in BOOLEAN
      /\ act.then \notin {"reload", "stay"} => act.then \in DOMAIN Pages
      /\ \A other \in Pages[asked.of].acts : other.does = act.does => other = act
      /\ Pages[asked.of].form = "none"
    BY <1>1, <1>2, ActsAreActs
<1>4. CASE outcome = "unauthorized"
    BY <1>2, <1>4, UnauthorizedKeeps
<1>5. CASE outcome # "unauthorized"
    <2>1. PICK again \in BOOLEAN : again = (outcome # "error" /\ act.then = "reload")
        OBVIOUS
    <2>2. PICK load : load = [asked EXCEPT !.does = "load"]
        OBVIOUS
    <2>3. load \in RequestRow /\ load.of = asked.of /\ load.visit = asked.visit /\ load.does = "load"
        BY <1>1, <2>2 DEF RequestRow, ToDo
    <2>4. PICK added : added = IF again THEN {load} ELSE {}
        OBVIOUS
    <2>5. /\ pending' = (pending \ {asked}) \union added
          /\ added \subseteq RequestRow
          /\ \A q \in added : q.of = asked.of /\ q.visit = asked.visit /\ q.does = "load"
        BY <1>2, <1>5, <2>1, <2>2, <2>3, <2>4
    <2>6. next' \in DOMAIN Pages \cup {"nowhere"}
        BY <1>1, <1>2, <1>3, <1>5
    <2>7. CASE ~IsMounted(asked)
        <3>1. page' = page
            BY <1>2, <1>5, <2>7
        <3>2. QED
            BY <2>5, <2>6, <2>7, <3>1, StrangerKeeps
    <2>8. CASE IsMounted(asked)
        <3>1. PICK told \in BOOLEAN : told = (page.error \/ (outcome = "error" /\ act.failure = "error"))
            BY <1>1 DEF PageRow
        <3>2. page' = [page EXCEPT !.busy = @ /\ ~act.guarded, !.loading = @ \/ again, !.error = told]
            BY <1>2, <1>5, <2>1, <2>8, <3>1
        <3>3. /\ page' \in PageRow /\ page'.name = page.name /\ page'.visit = page.visit /\ page'.made = page.made /\ page'.done = page.done /\ page'.failed = page.failed
              /\ page'.busy = (page.busy /\ ~act.guarded) /\ page'.loading = (page.loading \/ again)
            BY <1>1, <1>3, <2>1, <3>2 DEF PageRow
        <3>4. /\ PlatformTypeOK' /\ RequestsSound'
              /\ \A q \in pending : (IsMounted(q)' <=> IsMounted(q)) /\ (Keeps(q)' <=> Keeps(q))
            BY <2>5, <2>6, <3>3, AnswerKeeps
        <3>5. page'.loading => \E q \in pending' : IsMounted(q)' /\ q.does = "load"
            <4>1. CASE again
                BY <2>3, <2>4, <2>5, <2>8, <3>3, <4>1 DEF IsMounted
            <4>2. CASE ~again
                BY <1>2, <1>3, <2>5, <3>3, <3>4, <4>2 DEF PlatformInv, BusyWithReason
            <4>3. QED
                BY <4>1, <4>2
        <3>6. ~act.guarded => ~Keeps(asked)
            BY <1>2, <1>3 DEF Keeps
        <3>7. page'.busy => page'.done \/ \E q \in pending' : Keeps(q)'
            BY <2>5, <3>3, <3>4, <3>6 DEF PlatformInv, BusyWithReason
        <3>8. BusyWithReason'
            BY <3>5, <3>7 DEF BusyWithReason
        <3>9. Here.form = "none"
            BY <1>3, <2>8 DEF PlatformInv, RequestsSound, Here
        <3>10. FormsOnce'
            BY <3>3, <3>9 DEF FormsOnce, Here
        <3>11. QED
            BY <3>4, <3>8, <3>10 DEF PlatformInv
    <2>9. QED
        BY <2>7, <2>8
<1>6. QED
    BY <1>4, <1>5

\* The answer to a submission is the answer to the only one: a success that keeps the button
\* disabled is the first, and every other answer is told as a failure.
LEMMA SubmitAnswerKeeps == ASSUME PlatformInv, NEW asked \in pending, SubmitAnswer(asked) PROVE PlatformInv'
<1>1. /\ page \in PageRow /\ asked \in RequestRow /\ asked.of \in DOMAIN Pages
      /\ next \in DOMAIN Pages \cup {"nowhere"}
      /\ asked.does = "submit" /\ asked.of \in DOMAIN Detail
    BY DEF PlatformInv, PlatformTypeOK, RequestsSound, RequestRow, SubmitAnswer
<1>2. PICK outcome \in Outcomes(asked.of) :
        IF outcome = "unauthorized" THEN Unauthorized
        ELSE /\ \E created \in Creations(outcome) :
                    page' = IF IsMounted(asked) THEN Submitted(asked.of, outcome, created) ELSE page
             /\ pending' = pending \ {asked}
             /\ next' = IF outcome = "value" /\ asked.of # "newKey" THEN Detail[asked.of] ELSE next
    BY DEF SubmitAnswer
<1>3. CASE outcome = "unauthorized"
    BY <1>2, <1>3, UnauthorizedKeeps
<1>4. CASE outcome # "unauthorized"
    <2>0. PICK added : added = {}
        OBVIOUS
    <2>1. /\ pending' = (pending \ {asked}) \union added /\ pending' = pending \ {asked}
          /\ added \subseteq RequestRow /\ \A q \in added : FALSE
          /\ next' \in DOMAIN Pages \cup {"nowhere"}
        BY <1>1, <1>2, <1>4, <2>0, DetailNames
    <2>2. CASE ~IsMounted(asked)
        <3>1. page' = page
            BY <1>2, <1>4, <2>2
        <3>2. QED
            BY <2>1, <2>2, <3>1, StrangerKeeps
    <2>3. CASE IsMounted(asked)
        <3>1. asked.of = page.name /\ OnPage /\ Pages[asked.of] = Here
            BY <1>1, <2>3, PageNames DEF PlatformInv, RequestsSound, OnPage, Here
        <3>2. PICK busy \in BOOLEAN : busy = ~Enabled(asked.of, outcome)
            BY DEF Enabled
        <3>11. PICK created \in {0, 1} : page' = Submitted(asked.of, outcome, created)
            BY <1>2, <1>4, <2>3 DEF Creations
        <3>12. PICK failed, made, told, done :
                   /\ failed = IF outcome = "value" THEN page.failed ELSE page.failed + 1
                   /\ made = page.made + created /\ told = (outcome # "value")
                   /\ done = (page.done \/ outcome = "value")
            OBVIOUS
        <3>13. /\ failed \in Nat /\ made \in Nat /\ told \in BOOLEAN /\ done \in BOOLEAN
               /\ outcome = "value" => done
            <4>1. failed \in Nat /\ made \in Nat
                BY <1>1, <3>12 DEF PageRow
            <4>2. told \in BOOLEAN /\ done \in BOOLEAN
                BY <1>1, <3>12 DEF PageRow
            <4>3. outcome = "value" => done
                BY <3>12
            <4>4. QED
                BY <4>1, <4>2, <4>3
        <3>3. page' = [page EXCEPT !.busy = busy, !.error = told, !.done = done, !.failed = failed, !.made = made]
            BY <1>1, <3>2, <3>11, <3>12 DEF Submitted, PageRow
        <3>4. /\ page' \in PageRow /\ page'.name = page.name /\ page'.visit = page.visit
              /\ page'.loading = page.loading /\ page'.busy = busy
              /\ page'.done = done /\ page'.failed = failed /\ page'.made = made
            BY <1>1, <3>3, <3>13 DEF PageRow
        <3>5. /\ PlatformTypeOK' /\ RequestsSound'
              /\ \A q \in pending : (IsMounted(q)' <=> IsMounted(q)) /\ (Keeps(q)' <=> Keeps(q))
            BY <2>1, <3>4, AnswerKeeps
        <3>6. page'.busy => page'.done
            <4>1. page'.busy => outcome = "value"
                BY <3>2, <3>4 DEF Enabled
            <4>2. QED
                BY <3>4, <3>13, <4>1
        <3>7. BusyWithReason'
            BY <1>1, <2>1, <3>4, <3>5, <3>6 DEF PlatformInv, BusyWithReason
        <3>8. CASE Here.form = "none"
            BY <3>4, <3>5, <3>7, <3>8 DEF PlatformInv, FormsOnce, Here
        <3>9. CASE Here.form # "none"
            <4>1. Submits = {asked} /\ (Here.form = "disabled" => page.made <= page.failed)
                BY <1>1, <2>3, <3>1, <3>9 DEF PlatformInv, FormsOnce, Submits
            <4>2. Submits' = {}
                BY <2>1, <3>5, <4>1 DEF Submits
            <4>3. Here.form = "disabled" =>
                      \/ page'.made <= page'.failed
                      \/ page'.made <= page'.failed + 1 /\ page'.busy
                <5> SUFFICES ASSUME Here.form = "disabled"
                             PROVE  \/ page'.made <= page'.failed
                                    \/ page'.made <= page'.failed + 1 /\ page'.busy
                    OBVIOUS
                <5>1. page.made <= page.failed /\ (outcome = "value" => busy)
                    BY <3>1, <3>2, <4>1 DEF Enabled
                <5>2. page.made \in Nat /\ page.failed \in Nat /\ (created = 0 \/ created = 1)
                    BY <1>1 DEF PageRow
                <5>3. CASE outcome = "value"
                    BY <3>4, <3>12, <5>1, <5>2, <5>3
                <5>4. CASE outcome # "value"
                    BY <3>4, <3>12, <5>1, <5>2, <5>4
                <5>5. QED
                    BY <5>3, <5>4
            <4>4. FormsOnce'
                BY <3>4, <4>2, <4>3 DEF FormsOnce, Here
            <4>5. QED
                BY <3>5, <3>7, <4>4 DEF PlatformInv
        <3>10. QED
            BY <3>8, <3>9
    <2>4. QED
        BY <2>2, <2>3
<1>5. QED
    BY <1>3, <1>4

LEMMA PlatformInitInv == PlatformInit => PlatformInv
<1> SUFFICES ASSUME PlatformInit PROVE PlatformInv
    OBVIOUS
<1>2. page \in PageRow /\ page.name = "login" /\ ~page.busy /\ ~page.loading /\ pending = {} /\ next = "nowhere"
    BY MountedIsAPage DEF PlatformInit
<1>3. QED
    BY <1>2 DEF PlatformInv, PlatformTypeOK, RequestsSound, BusyWithReason, FormsOnce, OnPage

LEMMA PlatformNextInv == PlatformInv /\ [PlatformNext]_platformVars => PlatformInv'
<1> SUFFICES ASSUME PlatformInv, [PlatformNext]_platformVars PROVE PlatformInv'
    OBVIOUS
<1>2. CASE SignIn \/ SignOut \/ UNCHANGED platformVars
    <2>1. page' = page /\ pending' = pending /\ next' = next
        BY <1>2 DEF SignIn, SignOut, platformVars
    <2>2. QED
        <3>1. \A q \in pending : (IsMounted(q)' <=> IsMounted(q)) /\ (Keeps(q)' <=> Keeps(q))
            BY <2>1 DEF IsMounted, Keeps
        <3>2. PlatformTypeOK' /\ RequestsSound' /\ BusyWithReason'
            BY <2>1, <3>1 DEF PlatformInv, PlatformTypeOK, RequestsSound, BusyWithReason
        <3>3. Submits' = Submits /\ Here' = Here
            BY <2>1, <3>1 DEF Submits, Here
        <3>4. FormsOnce'
            BY <2>1, <3>3 DEF PlatformInv, FormsOnce, OnPage
        <3>5. QED
            BY <3>2, <3>4 DEF PlatformInv
<1>3. CASE Visit
    <2>1. PICK name \in Visited : Enter(name)
        BY <1>3 DEF Visit
    <2>2. QED
        BY <2>1, VisitedAssumption, EnterKeeps
<1>4. CASE Arrive
    <2>1. next \in DOMAIN Pages /\ Enter(next)
        BY <1>4 DEF Arrive, PlatformInv, PlatformTypeOK
    <2>2. QED
        BY <2>1, EnterKeeps
<1>5. CASE ChangeFilter \/ Retry \/ Press \/ SubmitForm
    BY <1>5, ChangeFilterKeeps, RetryKeeps, PressKeeps, SubmitFormKeeps
<1>6. CASE Answer
    BY <1>6, LoadAnswerKeeps, ActAnswerKeeps, SubmitAnswerKeeps DEF Answer
<1>7. QED
    BY <1>2, <1>3, <1>4, <1>5, <1>6 DEF PlatformNext

\* A page that says it loads, or that an act or its form is on its way, has a request of its own in
\* flight (or, a form, has succeeded), and a form whose button stays disabled makes no more than one
\* thing without telling of a failure: whatever pages are visited, however many requests overlap, and whatever their answers.
THEOREM PagesAlwaysSettle == PlatformSpec => []PagesSettle
<1>1. PlatformInv => PagesSettle
    <2> SUFFICES ASSUME PlatformInv PROVE SpinnersEnd /\ CreatedOnce
        BY DEF PagesSettle
    <2>2. \A r \in pending : Keeps(r) => r.does # "load"
        <3> SUFFICES ASSUME NEW r \in pending, Keeps(r) PROVE r.does # "load"
            OBVIOUS
        <3>2. r.of \in DOMAIN Pages
            BY DEF PlatformInv, PlatformTypeOK, RequestRow
        <3>3. QED
            BY <3>2, ActsAreActs DEF Keeps
    <2>3. SpinnersEnd
        BY <2>2 DEF PlatformInv, BusyWithReason, SpinnersEnd, Keeps
    <2>4. CreatedOnce
        <3> SUFFICES ASSUME OnPage, Here.form = "disabled" PROVE page.made <= 1 + page.failed
            BY DEF CreatedOnce
        <3>1. page.made <= page.failed \/ page.made <= page.failed + 1
            BY DEF PlatformInv, FormsOnce
        <3>2. page.made \in Nat /\ page.failed \in Nat
            BY DEF PlatformInv, PlatformTypeOK, PageRow
        <3>3. QED
            BY <3>1, <3>2
    <2>5. QED
        BY <2>3, <2>4
<1>2. QED
    BY <1>1, PlatformInitInv, PlatformNextInv, PTL DEF PlatformSpec

=============================================================================
