-------------------------- MODULE PeSignatureProofs --------------------------
(***************************************************************************)
(* What is proved of PeSignature.  For every PE file: pe_has_signature     *)
(* never reads outside the certificate table, and its verdict is right.    *)
(* For every payload, certificate chain and length: what write_length      *)
(* writes is what der_read_tlv reads; the signature that is assembled      *)
(* verifies and is accepted by cms_has_signer, timestamped or not; and     *)
(* only the payload and the chain decide whether a file is signed.         *)
(***************************************************************************)
EXTENDS PeSignature, FiniteSetTheorems, WellFoundedInduction, SequenceTheorems, TLAPS

-----------------------------------------------------------------------------
\* The walk of pe_has_signature.  What the certificates hold is never expanded: the
\* argument is the arithmetic of the walk alone.

\* What is left of the table ends where the table ends, in the file.
Remaining ==
  /\ offset + length = file.offset + file.length
  /\ offset >= file.offset
  /\ file.offset >= HeadersEnd(file)
  /\ file.offset + file.length <= file.size

\* A range of bytes that belongs to the table of the file.
InTable(r) ==
  /\ r[1] >= file.offset /\ r[1] <= r[2]
  /\ r[2] <= file.offset + file.length /\ r[2] <= file.size

\* The inductive invariant: nothing is read before the walk, the file is a file
\* from the headers on, and the walk keeps to the table.
WalkInv ==
  /\ offset \in Nat /\ length \in Nat
  /\ pc \in {"extract", "hash", "sign", "attach", "refused", "headers"} => read = <<0, 0>>
  /\ pc \in {"headers", "walk"} => IsFile(file)
  /\ pc = "walk" => Remaining
  /\ read = <<0, 0>> \/ InTable(read)

\* The certificate at any offset of a file has a natural number as its length,
\* and so has its length rounded up to a multiple of eight.
LEMMA CertificateLength ==
  ASSUME NEW f, IsFile(f), NEW place
  PROVE  CertificateAt(f, place).n \in Nat /\ Padded(CertificateAt(f, place).n) \in Nat
<1> DEFINE here == {i \in DOMAIN f.certs : f.certs[i].at = place}
<1>1. CertificateAt(f, place).n \in Nat
  <2>1. CASE here = {}
    <3>1. CertificateAt(f, place) = NoCertificate
      BY <2>1 DEF CertificateAt
    <3> QED BY <3>1 DEF NoCertificate
  <2>2. CASE here # {}
    <3>1. PICK i \in here : CertificateAt(f, place) = f.certs[i]
      BY <2>2, Zenon DEF CertificateAt
    <3> QED BY <3>1 DEF IsFile
  <2> QED BY <2>1, <2>2
<1>2. \A n \in Nat : Padded(n) \in Nat
  BY DEF Padded
<1> QED BY <1>1, <1>2

\* Initially nothing has been read.
LEMMA WalkInvInit == Init => WalkInv
BY FilesAssumption DEF Init, WalkInv

\* Extracting, hashing, assembling and attaching read no certificate table, and
\* attaching ends with a file.
LEMMA SigningKeepsWalkInv ==
  WalkInv /\ (Extract \/ HashAttributes \/ Assemble \/ Attach) => WalkInv'
<1> SUFFICES ASSUME WalkInv, Extract \/ HashAttributes \/ Assemble \/ Attach
             PROVE  WalkInv'
  OBVIOUS
<1>1. /\ UNCHANGED <<offset, length, read>>
      /\ pc' \in {"hash", "sign", "attach", "refused", "headers"}
      /\ read = <<0, 0>>
      /\ pc' = "headers" => IsFile(file)'
  <2>1. CASE Extract
    BY <2>1 DEF Extract, WalkInv
  <2>2. CASE HashAttributes
    BY <2>2 DEF HashAttributes, WalkInv
  <2>3. CASE Assemble
    BY <2>3 DEF Assemble, WalkInv
  <2>4. CASE Attach
    <3>1. PICK f \in Attachments(cms) :
            /\ IsFile(f) /\ file' = f
            /\ pc' \in {"headers", "refused"}
      BY <2>4 DEF Attach
    <3>2. IsFile(file)'
      BY <3>1 DEF IsFile
    <3> QED BY <2>4, <3>1, <3>2 DEF Attach, WalkInv, signing
  <2> QED BY <2>1, <2>2, <2>3, <2>4
<1> QED BY <1>1 DEF WalkInv

\* The walk starts only when the whole table is in the file.
LEMMA HeadersKeepWalkInv == WalkInv /\ ReadHeaders => WalkInv'
<1> SUFFICES ASSUME WalkInv, ReadHeaders PROVE WalkInv'
  OBVIOUS
<1>1. IsFile(file) /\ read = <<0, 0>> /\ UNCHANGED <<file, read>>
  BY DEF ReadHeaders, WalkInv
<1>2. IsFile(file)'
  BY <1>1 DEF IsFile
<1>3. pc' \in {"throws", "unsigned", "walk"}
  BY DEF ReadHeaders
<1>4. CASE pc' = "walk"
  <2>1. TableOk(file) /\ offset' = file.offset /\ length' = file.length
    BY <1>4 DEF ReadHeaders
  <2>2. Remaining'
    BY <1>1, <2>1 DEF TableOk, Remaining, HeadersEnd, IsFile
  <2>3. offset' \in Nat /\ length' \in Nat
    BY <1>1, <2>1 DEF IsFile
  <2> QED BY <1>1, <1>2, <1>4, <2>2, <2>3 DEF WalkInv
<1>5. CASE pc' # "walk"
  BY <1>1, <1>3, <1>5 DEF ReadHeaders, WalkInv
<1> QED BY <1>4, <1>5

\* One certificate: its bytes are in what is left of the table, and what is left
\* after it still ends where the table ends.
LEMMA CertificateKeepsWalkInv == WalkInv /\ WalkCertificate => WalkInv'
<1> SUFFICES ASSUME WalkInv, WalkCertificate PROVE WalkInv'
  OBVIOUS
<1> DEFINE n == CertificateAt(file, offset).n
<1> DEFINE aligned == IF Padded(n) > length /\ n = length THEN n ELSE Padded(n)
<1>1. /\ IsFile(file) /\ Remaining /\ offset \in Nat /\ length \in Nat
      /\ read = <<0, 0>> \/ InTable(read)
      /\ pc = "walk" /\ file' = file
  BY DEF WalkCertificate, WalkInv
<1>2. n \in Nat /\ Padded(n) \in Nat
  BY <1>1, CertificateLength
<1>3. /\ file.offset \in Nat /\ file.length \in Nat /\ file.size \in Nat
      /\ HeadersEnd(file) \in Nat
  BY <1>1 DEF IsFile, HeadersEnd
<1>4. IsFile(file)'
  BY <1>1 DEF IsFile
<1>5. \/ WalkThrows(read)
      \/ length >= 8 /\ WalkThrows(<<offset, offset + 8>>)
      \/ n <= length /\ WalkThrows(<<offset, offset + n>>)
      \/ /\ n <= length /\ aligned <= length
         /\ read' = <<offset, offset + n>>
         /\ offset' = offset + aligned /\ length' = length - aligned /\ pc' = pc
  BY DEF WalkCertificate, CertificateOk
<1> HIDE DEF n
<1>6. aligned \in Nat
  BY <1>1, <1>2
<1> HIDE DEF aligned
<1>7. \A m \in Nat : m <= length => InTable(<<offset, offset + m>>)
  BY <1>1, <1>3 DEF Remaining, InTable
<1>8. \A r : InTable(r) /\ read' = r => InTable(read)'
  BY <1>1 DEF InTable
<1>9. CASE WalkThrows(read)
  BY <1>1, <1>8, <1>9 DEF WalkThrows, WalkInv
<1>10. CASE length >= 8 /\ WalkThrows(<<offset, offset + 8>>)
  <2>1. InTable(<<offset, offset + 8>>)
    BY <1>1, <1>7, <1>10
  <2>2. InTable(read)'
    BY <1>8, <1>10, <2>1 DEF WalkThrows
  <2> QED BY <1>1, <1>10, <2>2 DEF WalkThrows, WalkInv
<1>11. CASE n <= length /\ WalkThrows(<<offset, offset + n>>)
  <2>1. InTable(<<offset, offset + n>>)
    BY <1>2, <1>7, <1>11
  <2>2. InTable(read)'
    BY <1>8, <1>11, <2>1 DEF WalkThrows
  <2> QED BY <1>1, <1>11, <2>2 DEF WalkThrows, WalkInv
<1>12. CASE /\ n <= length /\ aligned <= length
            /\ read' = <<offset, offset + n>>
            /\ offset' = offset + aligned /\ length' = length - aligned /\ pc' = pc
  <2>1. InTable(<<offset, offset + n>>)
    BY <1>2, <1>7, <1>12
  <2>2. InTable(read)'
    BY <1>8, <1>12, <2>1
  <2>3. offset' \in Nat /\ length' \in Nat /\ offset' + length' = offset + length
        /\ offset' >= offset
    BY <1>1, <1>6, <1>12
  <2>4. Remaining'
    <3>1. HeadersEnd(file)' = HeadersEnd(file)
      BY <1>1 DEF HeadersEnd
    <3>2. offset \in Nat /\ file' = file /\ Remaining
      BY <1>1
    <3>3. offset' >= file.offset
      BY <1>3, <2>3, <3>2 DEF Remaining
    <3> QED BY <2>3, <3>1, <3>2, <3>3 DEF Remaining
  <2> QED BY <1>1, <1>4, <1>12, <2>2, <2>3, <2>4 DEF WalkInv
<1> QED BY <1>5, <1>9, <1>10, <1>11, <1>12

\* The end of the walk reads nothing.
LEMMA EndKeepsWalkInv == WalkInv /\ WalkEnds => WalkInv'
BY DEF WalkInv, WalkEnds, InTable

LEMMA WalkInvStep == WalkInv /\ [Next]_vars => WalkInv'
<1>1. WalkInv /\ UNCHANGED vars => WalkInv'
  BY DEF vars, WalkInv, Remaining, InTable, IsFile, HeadersEnd
<1> QED
  BY <1>1, SigningKeepsWalkInv, HeadersKeepWalkInv, CertificateKeepsWalkInv,
     EndKeepsWalkInv DEF Next

\* pe_has_signature reads only bytes of the certificate table, past the headers
\* and before the end of the file, for every file.
THEOREM ReadsStayInside == Spec => []ReadsInside
<1>1. WalkInv => ReadsInside
  BY DEF WalkInv, ReadsInside, Remaining, InTable
<1> QED BY <1>1, WalkInvInit, WalkInvStep, PTL DEF Spec

-----------------------------------------------------------------------------
\* pe_has_signature is right about every file.

\* A length rounded up to a multiple of eight leads from a multiple of eight to the
\* first multiple at or after the end of the certificate.
LEMMA PaddedIsNext ==
  ASSUME NEW a \in Nat, NEW n \in Nat, a % 8 = 0
  PROVE  /\ NextMultiple(a + n) = a + Padded(n)
         /\ (a + Padded(n)) % 8 = 0
         /\ Padded(n) \in n .. (n + 7)
<1> DEFINE m == a + Padded(n)
<1>1. Padded(n) \in n .. (n + 7) /\ Padded(n) \in Nat
  BY DEF Padded
<1>2. Padded(n) % 8 = 0
  BY DEF Padded
<1>3. m % 8 = 0
  BY <1>1, <1>2
<1>4. m \in (a + n) .. (a + n + 7)
  BY <1>1
<1>5. \A k \in (a + n) .. (a + n + 7) : k % 8 = 0 => k = m
  BY <1>3, <1>4
<1>6. (a + n) + 7 = a + n + 7
  OBVIOUS
<1>7. NextMultiple(a + n) = m
  <2> HIDE DEF m
  <2>1. NextMultiple(a + n) = CHOOSE k \in (a + n) .. (a + n + 7) : k % 8 = 0
    BY DEF NextMultiple
  <2> QED BY <1>3, <1>4, <1>5, <2>1
<1> QED
  BY <1>1, <1>3, <1>7

\* The places of a file are numbers, and there are certificates only at them.
LEMMA CertificateIs ==
  ASSUME NEW f, IsFile(f), NEW p
  PROVE  /\ p \in CertificatePlaces(f) => /\ p \in Nat
                               /\ \E i \in DOMAIN f.certs : CertificateAt(f, p) = f.certs[i]
         /\ p \notin CertificatePlaces(f) => CertificateAt(f, p).n = 0
<1> DEFINE here == {i \in DOMAIN f.certs : f.certs[i].at = p}
<1>1. CASE p \in CertificatePlaces(f)
  <2>1. p \in Nat /\ here # {}
    BY <1>1 DEF CertificatePlaces, IsFile
  <2>2. \E i \in here : CertificateAt(f, p) = f.certs[i]
    BY <2>1, Zenon DEF CertificateAt
  <2> QED BY <1>1, <2>1, <2>2
<1>2. CASE p \notin CertificatePlaces(f)
  <2>1. here = {}
    BY <1>2 DEF CertificatePlaces
  <2>2. CertificateAt(f, p) = NoCertificate
    BY <2>1 DEF CertificateAt
  <2> QED BY <1>2, <2>2 DEF NoCertificate
<1> QED BY <1>1, <1>2

\* What is known of a file whose table is walked.
Table(f) ==
  /\ IsFile(f) /\ Marked(f)
  /\ HeaderOk(f) /\ DirectoryOk(f) /\ f.count > 4 /\ TableOk(f)

\* The certificates found so far: from each place the next is one of the places,
\* or where the walk is, or the table has ended with it.
Passed(f, spot, left, places) ==
  /\ f.offset \in places \/ spot = f.offset
  /\ \A p \in places :
       LET c    == CertificateAt(f, p)
           last == p + c.n
       IN  /\ Genuine(c) /\ last <= f.offset + f.length
           /\ \/ NextMultiple(last) \in places
              \/ NextMultiple(last) = spot
              \/ last = spot /\ left = 0

\* A tiling, if there is one, goes on where the walk is.
Ahead(f, spot, left) ==
  \A places \in SUBSET CertificatePlaces(f) : Tiles(f, places) => left = 0 \/ spot \in places

\* The walk has come to an offset, with so much of the table left.
WalkedTo(f, spot, left) ==
  /\ spot \in Nat /\ left \in Nat
  /\ spot + left = f.offset + f.length
  /\ spot >= f.offset
  /\ left = 0 \/ spot % 8 = 0
  /\ \E places \in SUBSET CertificatePlaces(f) : Passed(f, spot, left, places)
  /\ Ahead(f, spot, left)

\* At the start of the table nothing has been found.
LEMMA WalkStarts ==
  ASSUME NEW f, Table(f)
  PROVE  WalkedTo(f, f.offset, f.length)
<1>1. f.offset \in Nat /\ f.length \in Nat /\ f.offset % 8 = 0
  BY DEF Table, IsFile, TableOk
<1>2. Passed(f, f.offset, f.length, {})
  BY DEF Passed
<1>3. {} \in SUBSET CertificatePlaces(f)
  OBVIOUS
<1>4. Ahead(f, f.offset, f.length)
  BY DEF Ahead, Tiles
<1> QED
  BY <1>1, <1>2, <1>3, <1>4 DEF WalkedTo

\* Where a tiling goes on, the certificate is one the code accepts, and the next
\* place is where the code looks for it.
LEMMA TilingGoesOn ==
  ASSUME NEW f, Table(f), NEW spot \in Nat, NEW left \in Nat, spot % 8 = 0,
         spot + left = f.offset + f.length,
         NEW places \in SUBSET CertificatePlaces(f), Tiles(f, places), spot \in places
  PROVE  LET c == CertificateAt(f, spot)
             aligned == IF Padded(c.n) > left /\ c.n = left THEN c.n ELSE Padded(c.n)
         IN  /\ left >= 8
             /\ c.n >= 8 /\ c.n <= left /\ c.n <= MAX_CMS /\ c.form
             /\ ContentsOk(c)
             /\ aligned <= left
             /\ left - aligned = 0 \/ spot + aligned \in places
<1> DEFINE c == CertificateAt(f, spot)
           n == c.n
           end == f.offset + f.length
<1>1. n \in Nat /\ Padded(n) \in Nat
  BY CertificateLength DEF Table
<1>2. /\ Genuine(c) /\ spot + n <= end
      /\ end \in {spot + n, NextMultiple(spot + n)} \/ NextMultiple(spot + n) \in places
  BY DEF Tiles
<1>3. \E i \in DOMAIN f.certs : c = f.certs[i]
  BY CertificateIs DEF Table
<1>4. c.form /\ n \in 8 .. MAX_CMS /\ ContentsOk(c)
  BY <1>2, <1>3 DEF Genuine, Marked, Table
<1> HIDE DEF c
<1>5. NextMultiple(spot + n) = spot + Padded(n) /\ Padded(n) \in n .. (n + 7)
  BY <1>1, PaddedIsNext
<1>6. end \in Nat /\ MAX_CMS \in Nat
  BY FilesAssumption DEF Table, IsFile
<1> HIDE DEF n
<1>7. n >= 8 /\ n <= left /\ left >= 8 /\ n <= MAX_CMS
  BY <1>1, <1>2, <1>4, <1>6
<1>8. CASE end = spot + n
  <2>1. n = left
    BY <1>1, <1>8
  <2> QED BY <1>1, <1>4, <1>5, <1>7, <2>1 DEF c, n
<1>9. CASE end = NextMultiple(spot + n)
  <2>1. Padded(n) = left
    BY <1>1, <1>5, <1>9
  <2> QED BY <1>1, <1>4, <1>5, <1>7, <2>1 DEF c, n
<1>10. CASE NextMultiple(spot + n) \in places
  <2> DEFINE next == spot + Padded(n)
             m == CertificateAt(f, next).n
  <2>1. next \in places
    BY <1>5, <1>10
  <2>2. Genuine(CertificateAt(f, next)) /\ next + m <= end
    BY <2>1 DEF Tiles
  <2>3. m \in Nat /\ m >= 8
    BY <2>2, <1>6 DEF Genuine
  <2> HIDE DEF m
  <2>4. Padded(n) <= left
    BY <1>1, <1>6, <2>2, <2>3
  <2>5. ~(Padded(n) > left /\ n = left)
    BY <1>1, <2>4
  <2> QED BY <1>4, <1>7, <2>1, <2>4, <2>5 DEF c, n
<1> QED
  BY <1>2, <1>8, <1>9, <1>10 DEF c, n

\* One certificate further.
LEMMA WalkGoesOn ==
  ASSUME NEW f, Table(f), NEW spot, NEW left, WalkedTo(f, spot, left), left > 0,
         LET c == CertificateAt(f, spot)
         IN  c.n >= 8 /\ c.n <= left /\ c.n <= MAX_CMS /\ c.form /\ ContentsOk(c),
         NEW size,
         LET n == CertificateAt(f, spot).n
         IN  size = (IF Padded(n) > left /\ n = left THEN n ELSE Padded(n)),
         size <= left
  PROVE  WalkedTo(f, spot + size, left - size) /\ spot + size # f.offset
<1> DEFINE c == CertificateAt(f, spot)
           n == c.n
           end == f.offset + f.length
<1>1. /\ spot \in Nat /\ left \in Nat /\ spot + left = end /\ spot >= f.offset /\ spot % 8 = 0
      /\ Ahead(f, spot, left)
  BY DEF WalkedTo
<1>2. n \in Nat /\ Padded(n) \in Nat
  BY CertificateLength DEF Table
<1>3. c.form /\ n >= 8 /\ n <= MAX_CMS /\ ContentsOk(c) /\ n <= left
  OBVIOUS
<1>4. size = IF Padded(n) > left /\ n = left THEN n ELSE Padded(n)
  OBVIOUS
<1>5. spot \in CertificatePlaces(f)
  <2>1. CertificateAt(f, spot).n # 0
    BY <1>3
  <2> QED BY <2>1, CertificateIs DEF Table
<1>6. \E i \in DOMAIN f.certs : c = f.certs[i]
  BY <1>5, CertificateIs DEF Table
<1>7. Genuine(c)
  <2>1. MAX_CMS \in Nat
    BY FilesAssumption
  <2>2. n \in 8 .. MAX_CMS
    BY <1>2, <1>3, <2>1
  <2> QED BY <1>3, <1>6, <2>2 DEF Genuine, Marked, Table
<1>8. /\ NextMultiple(spot + n) = spot + Padded(n)
      /\ (spot + Padded(n)) % 8 = 0
      /\ Padded(n) \in n .. (n + 7)
  <2> HIDE DEF n
  <2> QED BY <1>1, <1>2, PaddedIsNext
<1>9. f.offset \in Nat /\ f.length \in Nat /\ end \in Nat
  BY DEF Table, IsFile
<1>10. Ahead(f, spot + size, left - size)
  <2> SUFFICES ASSUME NEW places \in SUBSET CertificatePlaces(f), Tiles(f, places)
               PROVE  left - size = 0 \/ spot + size \in places
    BY DEF Ahead
  <2>1. spot \in places
    BY <1>1 DEF Ahead
  <2>2. LET aligned == IF Padded(c.n) > left /\ c.n = left THEN c.n ELSE Padded(c.n)
        IN  left - aligned = 0 \/ spot + aligned \in places
    <3> HIDE DEF c
    <3> QED BY <1>1, <2>1, TilingGoesOn DEF c
  <2> QED BY <1>4, <2>2
<1>11. PICK before \in SUBSET CertificatePlaces(f) : Passed(f, spot, left, before)
  BY DEF WalkedTo
<1>12. Passed(f, spot + size, left - size, before \cup {spot})
  <2> DEFINE places == before \cup {spot}
  <2>1. f.offset \in places
    BY <1>11 DEF Passed
  <2>2. ASSUME NEW p \in places
        PROVE  LET d    == CertificateAt(f, p)
                   last == p + d.n
               IN  /\ Genuine(d) /\ last <= end
                   /\ \/ NextMultiple(last) \in places
                      \/ NextMultiple(last) = spot + size
                      \/ last = spot + size /\ left - size = 0
    <3>1. CASE p = spot
      <4>1. spot + n <= end
        BY <1>1, <1>2, <1>3, <1>9
      <4>2. CASE size = Padded(n)
        <5>1. NextMultiple(spot + n) = spot + size
          BY <1>8, <4>2
        <5> QED BY <1>7, <3>1, <4>1, <5>1
      <4>3. CASE size = n /\ n = left
        <5>1. left - size = 0
          BY <1>1, <4>3
        <5> QED BY <1>7, <3>1, <4>1, <4>3, <5>1
      <4> QED BY <1>4, <4>2, <4>3
    <3>2. CASE p \in before
      BY <1>11, <3>2 DEF Passed
    <3> QED BY <3>1, <3>2
  <2> QED BY <2>1, <2>2 DEF Passed
<1>13. before \cup {spot} \in SUBSET CertificatePlaces(f)
  BY <1>5, <1>11
<1>14. /\ size \in Nat /\ size >= 8
       /\ left - size = 0 \/ (spot + size) % 8 = 0
  <2> HIDE DEF n
  <2>1. Padded(n) >= 8
    BY <1>2, <1>3, <1>8
  <2>2. CASE size = Padded(n)
    BY <1>2, <1>8, <2>1, <2>2
  <2>3. CASE size = n /\ n = left
    BY <1>1, <1>2, <1>3, <2>3
  <2> QED BY <1>4, <2>2, <2>3
<1>15. /\ spot + size \in Nat /\ left - size \in Nat
       /\ (spot + size) + (left - size) = end
       /\ spot + size >= f.offset /\ spot + size # f.offset
  BY <1>1, <1>9, <1>14
<1> HIDE DEF end
<1> QED
  BY <1>10, <1>12, <1>13, <1>14, <1>15 DEF WalkedTo, end

\* Where the code refuses a certificate, no tiling goes on.
LEMMA WalkStops ==
  ASSUME NEW f, Table(f), NEW spot, NEW left, WalkedTo(f, spot, left), left > 0,
         LET c == CertificateAt(f, spot)
             aligned == IF Padded(c.n) > left /\ c.n = left THEN c.n ELSE Padded(c.n)
         IN  \/ left < 8
             \/ ~(c.n >= 8 /\ c.n <= left /\ c.n <= MAX_CMS /\ c.form)
             \/ ~ContentsOk(c)
             \/ aligned > left
  PROVE  ~Tiled(f)
<1> SUFFICES ASSUME NEW places \in SUBSET CertificatePlaces(f), Tiles(f, places) PROVE FALSE
  BY DEF Tiled
<1>1. /\ spot \in Nat /\ left \in Nat /\ spot + left = f.offset + f.length /\ spot % 8 = 0
      /\ spot \in places
  BY DEF WalkedTo, Ahead
<1> DEFINE c == CertificateAt(f, spot)
           aligned == IF Padded(c.n) > left /\ c.n = left THEN c.n ELSE Padded(c.n)
<1>2. /\ left >= 8
      /\ c.n >= 8 /\ c.n <= left /\ c.n <= MAX_CMS /\ c.form
      /\ ContentsOk(c)
      /\ aligned <= left
  BY <1>1, TilingGoesOn
<1>3. c.n \in Nat /\ Padded(c.n) \in Nat
  BY CertificateLength DEF Table
<1>4. aligned \in Nat
  BY <1>3
<1>5. ~(left < 8) /\ ~(aligned > left)
  <2> HIDE DEF aligned
  <2> QED BY <1>1, <1>2, <1>4
<1> QED
  BY <1>2, <1>5

\* When nothing of the table is left it has been tiled.
LEMMA WalkComplete ==
  ASSUME NEW f, Table(f), NEW spot, WalkedTo(f, spot, 0)
  PROVE  Tiled(f) /\ spot # f.offset
<1>1. f.offset \in Nat /\ f.length \in Nat /\ f.size \in Nat
  BY DEF Table, IsFile
<1>2. f.length # 0 /\ f.offset % 8 = 0 /\ f.offset >= HeadersEnd(f)
      /\ f.offset + f.length <= f.size
  BY <1>1 DEF Table, TableOk
<1>3. spot = f.offset + f.length
  BY DEF WalkedTo
<1>4. spot # f.offset
  BY <1>1, <1>2, <1>3
<1>5. PICK places \in SUBSET CertificatePlaces(f) : Passed(f, spot, 0, places)
  BY DEF WalkedTo
<1>6. Tiles(f, places)
  BY <1>3, <1>4, <1>5 DEF Passed, Tiles
<1> QED
  BY <1>2, <1>4, <1>5, <1>6 DEF Tiled

\* What the headers say, when the walk does not start.
LEMMA HeadersRight ==
  ASSUME NEW f, IsFile(f)
  PROVE  /\ HeaderOk(f) <=> HasDirectories(f, 0)
         /\ HeaderOk(f) /\ DirectoryOk(f) <=> HasDirectories(f, 5)
         /\ Tiled(f) => TableOk(f)
<1>1. /\ f.size \in Nat /\ f.pe \in Nat /\ f.opt_len \in Nat
      /\ f.offset \in Nat /\ f.length \in Nat
  BY DEF IsFile
<1>2. directories(f) = IF f.format = 267 THEN 96 ELSE IF f.format = 523 THEN 112 ELSE 0
  BY DEF directories
<1>3. HeaderOk(f) <=> HasDirectories(f, 0)
  BY <1>1, <1>2 DEF HeaderOk, HasDirectories, CanRead
<1>4. HeaderOk(f) /\ DirectoryOk(f) <=> HasDirectories(f, 5)
  BY <1>1, <1>2 DEF HeaderOk, DirectoryOk, HasDirectories, CanRead
<1>5. ASSUME Tiled(f) PROVE TableOk(f)
  <2>1. PICK places \in SUBSET CertificatePlaces(f) : Tiles(f, places)
    BY <1>5 DEF Tiled
  <2>2. f.offset % 8 = 0 /\ f.offset >= HeadersEnd(f) /\ f.offset + f.length <= f.size
    BY <1>5 DEF Tiled
  <2> DEFINE n == CertificateAt(f, f.offset).n
  <2>3. n \in 8 .. MAX_CMS /\ f.offset + n <= f.offset + f.length
    BY <2>1 DEF Tiles, Genuine
  <2>4. n \in Int /\ n >= 8
    BY <2>3, FilesAssumption
  <2> HIDE DEF n
  <2>5. f.length # 0
    BY <1>1, <2>3, <2>4
  <2>6. f.offset # 0
    BY <1>1, <2>2 DEF HeadersEnd
  <2> QED BY <1>1, <2>2, <2>5, <2>6 DEF TableOk
<1> QED
  BY <1>3, <1>4, <1>5

-----------------------------------------------------------------------------
\* From the payload to the assembled signature.

\* The indirect data of the payloads the program accepts.
Extracted == {cms_extract_indirect_data(p.cms) : p \in {x \in Payloads : CanTake(x.cms)}}

\* Each step has used what the step before it left: the digest that is signed is
\* that of the attributes of the data that is embedded.
SigningInv ==
  /\ pc = "extract" => payload \in Payloads
  /\ pc \in {"extract", "hash", "sign", "attach"} => chain \in Chains
  /\ pc \in {"extract", "hash", "sign"} => cms = Absent
  /\ pc \in {"hash", "sign"} => idc \in Extracted
  /\ pc = "sign" => digest = cms_auth_attrs_hash(idc)
  /\ pc = "attach" => cms # Absent
  /\ cms # Absent => /\ idc \in Extracted /\ chain \in Chains
                     /\ CanAssemble(idc, chain.certs)
                     /\ cms = assemble_cms(idc, <<"rsa", cms_auth_attrs_hash(idc)>>, chain.certs)

\* What is assembled is a sequence, never the mark that there is no signature yet.
LEMMA AssembledPresent ==
  ASSUME NEW d, NEW s, NEW c
  PROVE  assemble_cms(d, s, c) # Absent
<1>1. assemble_cms(d, s, c).tag = SEQUENCE
  BY DEF assemble_cms, Assembled, der_sequence, der_wrap
<1>2. Absent.tag = NULL
  BY DEF Absent, der_null, Prim
<1> QED BY <1>1, <1>2 DEF SEQUENCE, NULL

LEMMA SigningInvInit == Init => SigningInv
BY DEF Init, SigningInv

LEMMA SigningInvStep == SigningInv /\ [Next]_vars => SigningInv'
<1> SUFFICES ASSUME SigningInv, [Next]_vars PROVE SigningInv'
  OBVIOUS
<1>1. CASE Extract
  <2>1. CASE CanTake(payload.cms)
    <3>1. idc' \in Extracted /\ pc' = "hash"
      BY <1>1, <2>1 DEF Extract, SigningInv, Extracted
    <3> QED BY <1>1, <3>1 DEF Extract, SigningInv
  <2>2. CASE ~CanTake(payload.cms)
    BY <1>1, <2>2 DEF Extract, SigningInv
  <2> QED BY <2>1, <2>2
<1>2. CASE HashAttributes
  BY <1>2 DEF HashAttributes, SigningInv
<1>3. CASE Assemble
  <2>1. CASE CanAssemble(idc, chain.certs)
    <3>1. cms' = assemble_cms(idc, <<"rsa", cms_auth_attrs_hash(idc)>>, chain.certs)
      BY <1>3, <2>1 DEF Assemble, SigningInv
    <3>2. cms' # Absent
      BY <3>1, AssembledPresent
    <3>3. pc' = "attach" /\ idc' = idc /\ chain' = chain /\ idc \in Extracted /\ chain \in Chains
      BY <1>3, <2>1 DEF Assemble, SigningInv
    <3> QED BY <2>1, <3>1, <3>2, <3>3 DEF SigningInv
  <2>2. CASE ~CanAssemble(idc, chain.certs)
    BY <1>3, <2>2 DEF Assemble, SigningInv
  <2> QED BY <2>1, <2>2
<1>4. CASE Attach
  BY <1>4 DEF Attach, SigningInv, signing
<1>5. CASE ReadHeaders
  <2>1. pc' \in {"throws", "unsigned", "walk"} /\ UNCHANGED signing
    BY <1>5 DEF ReadHeaders
  <2> QED BY <2>1 DEF SigningInv, signing
<1>6. CASE WalkCertificate
  <2>1. pc' \in {"throws", "walk"} /\ UNCHANGED signing
    BY <1>6 DEF WalkCertificate, WalkThrows
  <2> QED BY <2>1 DEF SigningInv, signing
<1>7. CASE WalkEnds
  BY <1>7 DEF WalkEnds, SigningInv, signing
<1>8. CASE UNCHANGED vars
  BY <1>8 DEF vars, SigningInv
<1> QED
  BY <1>1, <1>2, <1>3, <1>4, <1>5, <1>6, <1>7, <1>8 DEF Next

\* A signature that is there is one of those the program makes.
LEMMA CmsIsSignature == SigningInv /\ cms # Absent => cms \in Signatures
<1> SUFFICES ASSUME SigningInv, cms # Absent PROVE cms \in Signatures
  OBVIOUS
<1> DEFINE accepted(d) == {c.certs : c \in {x \in Chains : CanAssemble(d, x.certs)}}
           made(d) == {assemble_cms(d, <<"rsa", cms_auth_attrs_hash(d)>>, c) : c \in accepted(d)}
<1>1. /\ idc \in Extracted /\ chain \in Chains /\ CanAssemble(idc, chain.certs)
      /\ cms = assemble_cms(idc, <<"rsa", cms_auth_attrs_hash(idc)>>, chain.certs)
  BY DEF SigningInv
<1>2. chain.certs \in accepted(idc)
  BY <1>1
<1>3. cms \in made(idc)
  BY <1>1, <1>2
<1>4. Signatures = UNION {made(d) : d \in Extracted}
  BY DEF Signatures, Extracted
<1> HIDE DEF made
<1> QED BY <1>1, <1>3, <1>4

-----------------------------------------------------------------------------
\* The verdict.

\* Every certificate, in the files given and in those osslsigncode writes, has the
\* right mark.
AllMarked ==
  /\ \A f \in Files : Marked(f)
  /\ \A e \in Signatures : \A f \in Attachments(e) : Marked(f)

\* The verdict on a file.
Right(f) ==
  IF f.count > 4 /\ HasDirectories(f, 5) /\ ~(f.offset = 0 /\ f.length = 0) /\ Tiled(f)
  THEN "signed"
  ELSE IF /\ HasDirectories(f, 0)
          /\ f.count <= 4 \/ (f.count > 4 /\ HasDirectories(f, 5) /\ f.offset = 0 /\ f.length = 0)
       THEN "unsigned" ELSE "throws"

\* The inductive invariant: the walk has covered the table up to where it is, and
\* something was found as soon as it has left the start.
VerdictInv ==
  /\ pc \in {"headers", "walk"} => IsFile(file) /\ Marked(file)
  /\ pc \in {"extract", "hash", "sign", "attach", "headers"} => ~found
  /\ pc = "walk" => /\ Table(file) /\ WalkedTo(file, offset, length)
                    /\ found <=> offset # file.offset
  /\ pc \in {"signed", "unsigned", "throws"} => pc = Right(file)

LEMMA VerdictInit == AllMarked /\ Init => VerdictInv
BY FilesAssumption DEF AllMarked, Init, VerdictInv

\* The headers decide, or the walk starts.
LEMMA VerdictHeaders == VerdictInv /\ ReadHeaders => VerdictInv'
<1> SUFFICES ASSUME VerdictInv, ReadHeaders PROVE VerdictInv'
  OBVIOUS
<1>1. IsFile(file) /\ Marked(file) /\ ~found /\ file' = file /\ found' = found
  BY DEF ReadHeaders, VerdictInv
<1>2. /\ HeaderOk(file) <=> HasDirectories(file, 0)
      /\ HeaderOk(file) /\ DirectoryOk(file) <=> HasDirectories(file, 5)
      /\ Tiled(file) => TableOk(file)
  BY <1>1, HeadersRight
<1>3. file.count \in Nat
  BY <1>1 DEF IsFile
<1>4. file.count > 4 <=> ~(file.count <= 4)
  BY <1>3
<1>5. pc' = IF ~HeaderOk(file) THEN "throws"
            ELSE IF file.count <= 4 THEN "unsigned"
            ELSE IF ~DirectoryOk(file) THEN "throws"
            ELSE IF file.offset = 0 /\ file.length = 0 THEN "unsigned"
            ELSE IF ~TableOk(file) THEN "throws" ELSE "walk"
  BY DEF ReadHeaders
<1>6. CASE pc' = "walk"
  <2>1. Table(file)
    BY <1>1, <1>4, <1>5, <1>6 DEF Table
  <2>2. offset' = file.offset /\ length' = file.length
    BY <1>6 DEF ReadHeaders
  <2>3. WalkedTo(file, file.offset, file.length)
    BY <2>1, WalkStarts
  <2> QED BY <1>1, <1>6, <2>1, <2>2, <2>3 DEF VerdictInv
<1>7. CASE pc' # "walk"
  <2>1. pc' = Right(file)
    BY <1>2, <1>4, <1>5, <1>7 DEF Right
  <2>2. pc' \in {"throws", "unsigned"}
    BY <1>5, <1>7
  <2> QED BY <1>1, <2>1, <2>2 DEF VerdictInv
<1> QED BY <1>6, <1>7

\* A certificate is passed, or the verdict is that the table is malformed.
LEMMA VerdictCertificate == VerdictInv /\ WalkCertificate => VerdictInv'
<1> SUFFICES ASSUME VerdictInv, WalkCertificate PROVE VerdictInv'
  OBVIOUS
<1> DEFINE c == CertificateAt(file, offset)
           aligned == IF Padded(c.n) > length /\ c.n = length THEN c.n ELSE Padded(c.n)
<1>1. /\ pc = "walk" /\ length > 0 /\ file' = file
      /\ IsFile(file) /\ Marked(file) /\ Table(file) /\ WalkedTo(file, offset, length)
  BY DEF WalkCertificate, VerdictInv
<1>2. \/ /\ pc' = "throws"
         /\ \/ length < 8
            \/ ~(c.n >= 8 /\ c.n <= length /\ c.n <= MAX_CMS /\ c.form)
            \/ ~ContentsOk(c)
            \/ aligned > length
      \/ /\ c.n >= 8 /\ c.n <= length /\ c.n <= MAX_CMS /\ c.form /\ ContentsOk(c)
         /\ aligned <= length /\ pc' = pc /\ found'
         /\ offset' = offset + aligned /\ length' = length - aligned
  BY DEF WalkCertificate, WalkThrows, CertificateOk
<1>3. CASE pc' = "throws"
  <2>1. ~Tiled(file)
    BY <1>1, <1>2, <1>3, WalkStops
  <2>2. file.count > 4 /\ file.count \in Nat /\ TableOk(file)
    BY <1>1 DEF Table, IsFile
  <2>3. Right(file) = "throws"
    BY <2>1, <2>2 DEF Right, TableOk
  <2> QED BY <1>1, <1>3, <2>3 DEF VerdictInv
<1>4. CASE pc' = pc
  <2>1. /\ c.n >= 8 /\ c.n <= length /\ c.n <= MAX_CMS /\ c.form /\ ContentsOk(c)
        /\ aligned <= length /\ found'
        /\ offset' = offset + aligned /\ length' = length - aligned
    BY <1>1, <1>2, <1>4
  <2>2. \E size : size = aligned
    OBVIOUS
  <2>3. PICK size : size = aligned
    BY <2>2
  <2>4. WalkedTo(file, offset + size, length - size) /\ offset + size # file.offset
    BY <1>1, <2>1, <2>3, WalkGoesOn
  <2>5. offset' = offset + size /\ length' = length - size
    BY <2>1, <2>3
  <2> QED BY <1>1, <1>4, <2>1, <2>4, <2>5 DEF VerdictInv
<1> QED BY <1>1, <1>2, <1>3, <1>4

\* The end of the table is reached, and only with certificates.
LEMMA VerdictEnd == VerdictInv /\ WalkEnds => VerdictInv'
<1> SUFFICES ASSUME VerdictInv, WalkEnds PROVE VerdictInv'
  OBVIOUS
<1>1. /\ pc = "walk" /\ length = 0 /\ UNCHANGED <<file, found>>
      /\ Table(file) /\ WalkedTo(file, offset, 0) /\ (found <=> offset # file.offset)
  BY DEF WalkEnds, VerdictInv
<1>2. Tiled(file) /\ offset # file.offset
  BY <1>1, WalkComplete
<1>3. pc' = "signed"
  BY <1>1, <1>2 DEF WalkEnds
<1>4. HasDirectories(file, 5) /\ file.count > 4
  BY <1>1, HeadersRight DEF Table
<1>5. ~(file.offset = 0 /\ file.length = 0)
  BY <1>1 DEF Table, TableOk
<1>6. Right(file) = "signed"
  BY <1>2, <1>4, <1>5 DEF Right
<1> QED BY <1>1, <1>3, <1>6 DEF VerdictInv

LEMMA VerdictStep == AllMarked /\ SigningInv /\ VerdictInv /\ [Next]_vars => VerdictInv'
<1> SUFFICES ASSUME AllMarked, SigningInv, VerdictInv, [Next]_vars PROVE VerdictInv'
  OBVIOUS
<1>1. CASE Extract
  BY <1>1 DEF Extract, VerdictInv
<1>2. CASE HashAttributes
  BY <1>2 DEF HashAttributes, VerdictInv
<1>3. CASE Assemble
  BY <1>3 DEF Assemble, VerdictInv
<1>4. CASE Attach
  <2>1. pc = "attach" /\ pc' \in {"headers", "refused"} /\ found' = found
    BY <1>4 DEF Attach
  <2>2. PICK f \in Attachments(cms) : IsFile(f) /\ file' = f
    BY <1>4 DEF Attach
  <2>3. cms \in Signatures
    BY <2>1, CmsIsSignature DEF SigningInv
  <2>4. IsFile(file') /\ Marked(file')
    BY <2>2, <2>3 DEF AllMarked
  <2> QED BY <2>1, <2>4 DEF VerdictInv
<1>8. CASE UNCHANGED vars
  BY <1>8 DEF vars, VerdictInv
<1> QED
  BY <1>1, <1>2, <1>3, <1>4, <1>8, VerdictHeaders, VerdictCertificate, VerdictEnd DEF Next

\* For every file whose certificates carry the right mark, pe_has_signature says
\* signed just of those with a table in the file, past the headers and tiled by
\* genuine certificates, unsigned just of those without a table, and throws on
\* every other.
THEOREM VerdictIsRight == ASSUME AllMarked PROVE Spec => []WalkRight
<1>1. Init => SigningInv /\ VerdictInv
  BY SigningInvInit, VerdictInit
<1>2. SigningInv /\ VerdictInv /\ [Next]_vars => (SigningInv /\ VerdictInv)'
  BY SigningInvStep, VerdictStep
<1>3. VerdictInv => WalkRight
  BY DEF VerdictInv, WalkRight, Right
<1> QED BY <1>1, <1>2, <1>3, PTL DEF Spec

-----------------------------------------------------------------------------
\* Numbers and sequences.

\* A set of natural numbers has a least element.
LEMMA LeastNatural ==
  ASSUME NEW S \in SUBSET Nat, S # {}
  PROVE  \E x \in S : \A y \in S : x <= y
<1>1. IsWellFoundedOn(OpToRel(<, Nat), Nat)
  BY NatLessThanWellFounded, Zenon
<1>2. \E x \in S : \A y \in S : ~(<<y, x>> \in OpToRel(<, Nat))
  BY <1>1, WFMin, Zenon
<1>3. \A x \in S, y \in S : ~(<<y, x>> \in OpToRel(<, Nat)) => x <= y
  BY DEF OpToRel
<1> QED
  BY <1>2, <1>3

\* What is known of any sequence.
LEMMA SeqFacts ==
  ASSUME NEW S, NEW s \in Seq(S)
  PROVE  Len(s) \in Nat /\ DOMAIN s = 1 .. Len(s) /\ \A k \in 1 .. Len(s) : s[k] \in S
  BY LenProperties

\* A function on the first n numbers with values in S is a sequence over S.
LEMMA FunctionSeq ==
  ASSUME NEW S, NEW n \in Nat, NEW f, DOMAIN f = 1 .. n, f = [k \in 1 .. n |-> f[k]],
         \A k \in 1 .. n : f[k] \in S
  PROVE  f \in Seq(S) /\ Len(f) = n
<1>1. f \in [1 .. n -> S]
  OBVIOUS
<1>2. f \in Seq(S)
  BY <1>1, SeqDef
<1>3. Len(f) \in Nat /\ DOMAIN f = 1 .. Len(f)
  BY <1>2, SeqFacts
<1>4. ASSUME NEW m \in Nat, 1 .. m = 1 .. n PROVE m = n
  <2>1. CASE m = 0
    <3>1. n # 0 => n \in 1 .. n
      OBVIOUS
    <3> QED BY <1>4, <2>1, <3>1
  <2>2. CASE m # 0
    <3>1. m \in 1 .. m
      BY <2>2
    <3>2. m \in 1 .. n /\ n \in 1 .. n
      BY <1>4, <3>1
    <3> QED BY <1>4, <3>2
  <2> QED BY <2>1, <2>2
<1> QED
  BY <1>2, <1>3, <1>4

\* What is known of two sequences put together.
LEMMA ConcatFacts ==
  ASSUME NEW S, NEW s \in Seq(S), NEW t \in Seq(S)
  PROVE  /\ s \o t \in Seq(S) /\ Len(s \o t) = Len(s) + Len(t)
         /\ \A k \in 1 .. Len(s) : (s \o t)[k] = s[k]
         /\ \A k \in 1 .. Len(t) : (s \o t)[Len(s) + k] = t[k]
<1>1. Len(s) \in Nat /\ Len(t) \in Nat
  BY SeqFacts
<1>2. s \o t \in Seq(S) /\ Len(s \o t) = Len(s) + Len(t)
  OBVIOUS
<1>3. \A k \in 1 .. Len(s) + Len(t) : (s \o t)[k] = IF k <= Len(s) THEN s[k] ELSE t[k - Len(s)]
  OBVIOUS
<1>4. ASSUME NEW k \in 1 .. Len(t) PROVE (s \o t)[Len(s) + k] = t[k]
  <2>1. Len(s) + k \in 1 .. Len(s) + Len(t) /\ ~(Len(s) + k <= Len(s)) /\ Len(s) + k - Len(s) = k
    BY <1>1
  <2> QED BY <1>3, <2>1
<1>5. ASSUME NEW k \in 1 .. Len(s) PROVE (s \o t)[k] = s[k]
  <2>1. k \in 1 .. Len(s) + Len(t) /\ k <= Len(s)
    BY <1>1
  <2> QED BY <1>3, <2>1
<1> QED BY <1>2, <1>4, <1>5

-----------------------------------------------------------------------------
\* The lengths that write_length writes are those der_read_tlv reads.

\* One more than the largest length that four bytes can hold.
Limit32 == 256 * Powers[4]

\* The powers of 256.
LEMMA PowersAre ==
  /\ Powers[1] = 1 /\ Powers[2] = 256 /\ Powers[3] = 65536
  /\ Powers[4] = 256 * Powers[3]
  /\ \A k \in 1 .. 4 : Powers[k] \in Nat \ {0}
  BY SMT DEF Powers

\* How many bytes a length needs.
LEMMA LengthBytesAre ==
  ASSUME NEW len \in Nat
  PROVE  /\ LengthBytes(len) \in 1 .. 4
         /\ LengthBytes(len) > 1 => len >= Powers[LengthBytes(len)]
         /\ LengthBytes(len) < 4 => len < Powers[LengthBytes(len) + 1]
<1> DEFINE longer == {i \in 2 .. 4 : len >= Powers[i]}
<1>1. /\ Powers[2] \in Nat /\ Powers[3] \in Nat /\ Powers[4] \in Nat
      /\ Powers[2] < Powers[3] /\ Powers[3] < Powers[4]
  BY PowersAre, SMT
<1>2. PICK top \in 1 .. 4 :
        /\ longer = 2 .. top
        /\ top > 1 => len >= Powers[top]
        /\ top < 4 => len < Powers[top + 1]
  <2>1. CASE len < Powers[2]
    <3>1. longer = 2 .. 1
      BY <1>1, <2>1, SMT
    <3> QED BY <2>1, <3>1, SMT
  <2>2. CASE len >= Powers[2] /\ len < Powers[3]
    <3>1. longer = 2 .. 2
      BY <1>1, <2>2, SMT
    <3> QED BY <2>2, <3>1, SMT
  <2>3. CASE len >= Powers[3] /\ len < Powers[4]
    <3>1. longer = 2 .. 3
      BY <1>1, <2>3, SMT
    <3> QED BY <2>3, <3>1, SMT
  <2>4. CASE len >= Powers[4]
    <3>1. longer = 2 .. 4
      BY <1>1, <2>4, SMT
    <3> QED BY <2>4, <3>1, SMT
  <2> QED BY <1>1, <2>1, <2>2, <2>3, <2>4, SMT
<1>3. Cardinality(2 .. top) = top - 1
  BY FS_Interval
<1>4. LengthBytes(len) = Cardinality(longer) + 1
  BY Zenon DEF LengthBytes
<1>5. LengthBytes(len) = top
  <2> HIDE DEF longer
  <2> QED BY <1>2, <1>3, <1>4, SMT
<1> QED
  BY <1>2, <1>5

\* The bytes of a length: their number and each of them.
LEMMA WrittenLength ==
  ASSUME NEW len \in Nat
  PROVE  /\ write_length(len) \in Seq(Nat) /\ Len(write_length(len)) \in 1 .. 5
         /\ len < 128 => write_length(len) = <<len>>
         /\ len >= 128 =>
              LET n == LengthBytes(len)
              IN  /\ Len(write_length(len)) = n + 1
                  /\ write_length(len)[1] = 128 + n
                  /\ \A i \in 2 .. n + 1 :
                       write_length(len)[i] = (len \div Powers[n + 2 - i]) % 256
<1>1. CASE len < 128
  <2>1. write_length(len) = <<len>>
    BY <1>1 DEF write_length
  <2> QED BY <1>1, <2>1
<1>2. CASE len >= 128
  <2> DEFINE n == LengthBytes(len)
             w == LongForm(len)
  <2>1. write_length(len) = w
    BY <1>2 DEF write_length
  <2>2. n \in 1 .. 4
    BY LengthBytesAre
  <2>3. w = [i \in 1 .. n + 1 |-> IF i = 1 THEN 128 + n ELSE (len \div Powers[n + 2 - i]) % 256]
    BY DEF LongForm
  <2> HIDE DEF n, w
  <2>4. ASSUME NEW i \in 1 .. n + 1 PROVE w[i] \in Nat
    <3>1. CASE i = 1
      BY <2>2, <2>3, <3>1
    <3>2. CASE i # 1
      <4>1. n + 2 - i \in 1 .. 4
        BY <2>2, <3>2
      <4>2. Powers[n + 2 - i] \in Nat \ {0}
        BY <4>1, PowersAre
      <4>3. \A d \in Nat \ {0} : (len \div d) % 256 \in Nat
        OBVIOUS
      <4> QED BY <2>3, <3>2, <4>2, <4>3
    <3> QED BY <3>1, <3>2
  <2>5. w \in Seq(Nat) /\ Len(w) = n + 1
    BY <2>2, <2>3, <2>4, FunctionSeq
  <2> QED BY <1>2, <2>1, <2>2, <2>3, <2>5 DEF n
<1> QED BY <1>1, <1>2

\* An element has at least a tag and a length.
LEMMA TotalLenNat ==
  ASSUME NEW e, e.len \in Nat
  PROVE  TotalLen(e) \in Nat /\ TotalLen(e) >= e.len + 2
<1>1. PICK n \in 1 .. 5 : n = Len(write_length(e.len))
  BY WrittenLength
<1>2. PICK len \in Nat : len = e.len
  OBVIOUS
<1>3. TotalLen(e) = 1 + n + len
  BY <1>1, <1>2, Zenon DEF TotalLen
<1> QED
  BY <1>2, <1>3

-----------------------------------------------------------------------------
\* Folds over sequences of numbers.  FoldLeft takes the elements of a sequence by
\* the largest index that is left, so its recursion is over sets of indices.

\* The largest number of a set of the first n numbers.
LEMMA MaxOf ==
  ASSUME NEW n \in Nat, NEW t \in SUBSET (1 .. n), t # {}
  PROVE  Max(t) \in t /\ \A y \in t : y <= Max(t)
<1> DEFINE below == {n - x : x \in t}
<1>1. below \in SUBSET Nat /\ below # {}
  <2>1. \A x \in t : n - x \in Nat
    OBVIOUS
  <2>2. PICK x \in t : TRUE
    OBVIOUS
  <2>3. n - x \in below
    BY <2>2
  <2> QED BY <2>1, <2>3
<1>2. PICK b \in below : \A y \in below : b <= y
  BY <1>1, LeastNatural
<1>3. PICK x \in t : b = n - x
  BY <1>2
<1>4. ASSUME NEW y \in t PROVE y <= x
  <2>1. n - y \in below
    OBVIOUS
  <2>2. b <= n - y
    BY <1>2, <2>1
  <2> QED BY <1>3, <2>2
<1>5. \A y \in t : x >= y
  BY <1>4
<1>6. Max(t) \in t /\ \A y \in t : Max(t) >= y
  BY <1>5, Zenon DEF Max
<1> QED BY <1>6

\* What FoldLeft computes at the sets of indices before each index.
LEMMA MaxTop ==
  ASSUME NEW n \in Nat \ {0}
  PROVE  /\ \A t \in SUBSET (1 .. n) : n \in t => Max(t) = n /\ t \ {n} \in SUBSET (1 .. n - 1)
         /\ (1 .. n) \ {n} = 1 .. n - 1
<1>1. ASSUME NEW t \in SUBSET (1 .. n), n \in t PROVE Max(t) = n
  <2>1. Max(t) \in t /\ n <= Max(t)
    BY <1>1, MaxOf
  <2>2. \A m \in 1 .. n : n <= m => m = n
    OBVIOUS
  <2> QED BY <2>1, <2>2
<1>2. \A t \in SUBSET (1 .. n) : t \ {n} \in SUBSET (1 .. n - 1)
  OBVIOUS
<1>3. (1 .. n) \ {n} = 1 .. n - 1
  OBVIOUS
<1> QED BY <1>1, <1>2, <1>3

\* The recursion of a fold that multiplies by k and adds the next number.
Folded(k, w, n, h) ==
  \A t \in SUBSET (1 .. n) : h[t] = IF t = {} THEN 0 ELSE h[t \ {Max(t)}] * k + w[Max(t)]

\* It has a solution: each index adds the sets that it is the largest of.
LEMMA FoldExists ==
  ASSUME NEW k \in {1, 256}, NEW w, NEW n \in Nat, \A i \in 1 .. n : w[i] \in Nat
  PROVE  \E h \in [SUBSET (1 .. n) -> Nat] : Folded(k, w, n, h)
<1> DEFINE Has(m) == \E h \in [SUBSET (1 .. m) -> Nat] : Folded(k, w, m, h)
           Bad == {m \in 0 .. n : ~Has(m)}
<1>1. Has(0)
  <2> DEFINE h == [t \in SUBSET (1 .. 0) |-> 0]
  <2>1. SUBSET (1 .. 0) = {{}}
    OBVIOUS
  <2>2. Folded(k, w, 0, h)
    BY <2>1 DEF Folded
  <2>3. h \in [SUBSET (1 .. 0) -> Nat]
    OBVIOUS
  <2> QED BY <2>2, <2>3
<1>2. ASSUME NEW m \in 1 .. n, Has(m - 1) PROVE Has(m)
  <2>1. PICK g \in [SUBSET (1 .. m - 1) -> Nat] : Folded(k, w, m - 1, g)
    BY <1>2
  <2> DEFINE h == [t \in SUBSET (1 .. m) |-> IF m \in t THEN g[t \ {m}] * k + w[m] ELSE g[t]]
  <2>2. /\ m - 1 \in Nat /\ m \in Nat \ {0} /\ 1 .. m - 1 \subseteq 1 .. m /\ m \notin 1 .. m - 1
        /\ w[m] \in Nat
    OBVIOUS
  <2>3. \A t \in SUBSET (1 .. m) : m \in t => t \ {m} \in SUBSET (1 .. m - 1) /\ Max(t) = m
    BY <2>2, MaxTop
  <2>4. \A t \in SUBSET (1 .. m) : m \notin t => t \in SUBSET (1 .. m - 1)
    OBVIOUS
  <2>5. ASSUME NEW t \in SUBSET (1 .. m) PROVE h[t] \in Nat
    <3>1. CASE m \in t
      <4>1. PICK a \in Nat : a = g[t \ {m}]
        BY <2>1, <2>3, <3>1
      <4>2. h[t] = a * k + w[m]
        BY <3>1, <4>1
      <4> QED BY <2>2, <4>2
    <3>2. CASE m \notin t
      BY <2>1, <2>4, <3>2
    <3> QED BY <3>1, <3>2
  <2>6. ASSUME NEW t \in SUBSET (1 .. m)
        PROVE  h[t] = IF t = {} THEN 0 ELSE h[t \ {Max(t)}] * k + w[Max(t)]
    <3>1. CASE m \in t
      <4>1. Max(t) = m /\ t # {} /\ t \ {m} \in SUBSET (1 .. m) /\ m \notin t \ {m}
            /\ t \ {m} \in SUBSET (1 .. m - 1)
        BY <2>3, <3>1
      <4>2. h[t \ {m}] = g[t \ {m}]
        BY <4>1
      <4>3. h[t] = g[t \ {m}] * k + w[m]
        BY <3>1
      <4> HIDE DEF h
      <4> QED BY <4>1, <4>2, <4>3
    <3>2. CASE m \notin t
      <4>1. t \in SUBSET (1 .. m - 1) /\ h[t] = g[t]
        BY <2>4, <3>2
      <4>2. CASE t = {}
        BY <2>1, <4>1, <4>2 DEF Folded
      <4>3. CASE t # {}
        <5>1. /\ t \ {Max(t)} \in SUBSET (1 .. m - 1) /\ t \ {Max(t)} \in SUBSET (1 .. m)
              /\ m \notin t \ {Max(t)}
          BY <3>2, <4>1
        <5>2. h[t \ {Max(t)}] = g[t \ {Max(t)}]
          BY <5>1
        <5>3. g[t] = g[t \ {Max(t)}] * k + w[Max(t)]
          BY <2>1, <4>1, <4>3 DEF Folded
        <5> HIDE DEF h
        <5> QED BY <4>1, <4>3, <5>2, <5>3
      <4> QED BY <4>2, <4>3
    <3> QED BY <3>1, <3>2
  <2>7. h \in [SUBSET (1 .. m) -> Nat]
    BY <2>5
  <2>8. Folded(k, w, m, h)
    <3> HIDE DEF h
    <3> QED BY <2>6 DEF Folded
  <2> HIDE DEF h
  <2> QED BY <2>7, <2>8
<1> HIDE DEF Has
<1>3. CASE Bad = {}
  <2>1. n \in 0 .. n
    OBVIOUS
  <2>2. Has(n)
    BY <1>3, <2>1
  <2> QED BY <2>2 DEF Has
<1>4. CASE Bad # {}
  <2>1. Bad \in SUBSET Nat
    OBVIOUS
  <2>2. PICK m \in Bad : \A y \in Bad : m <= y
    BY <1>4, <2>1, LeastNatural
  <2>3. m # 0
    BY <1>1, <2>2
  <2>4. m \in 1 .. n /\ m - 1 \in 0 .. n /\ ~(m <= m - 1)
    BY <2>2, <2>3
  <2>5. m - 1 \notin Bad
    BY <2>2, <2>4
  <2>6. Has(m - 1)
    BY <2>4, <2>5
  <2>7. Has(m)
    BY <1>2, <2>4, <2>6
  <2> QED BY <2>2, <2>7
<1> QED BY <1>3, <1>4

\* Two sums of the same n numbers are equal.
SameSums(n, f, g, w) ==
  f[0] = g[0] /\ \A i \in 1 .. n : f[i] = f[i - 1] + w[i] /\ g[i] = g[i - 1] + w[i]

LEMMA SumsAgree ==
  ASSUME NEW n \in Nat, NEW f, NEW g, NEW w, SameSums(n, f, g, w)
  PROVE  f[n] = g[n]
<1> DEFINE Bad == {i \in 0 .. n : f[i] # g[i]}
<1>1. CASE Bad = {}
  <2>1. n \in 0 .. n
    OBVIOUS
  <2> QED BY <1>1, <2>1
<1>2. CASE Bad # {}
  <2>1. Bad \in SUBSET Nat
    OBVIOUS
  <2>2. PICK i \in Bad : \A y \in Bad : i <= y
    BY <1>2, <2>1, LeastNatural
  <2>3. i \in 1 .. n /\ i - 1 \in 0 .. n /\ ~(i <= i - 1)
    BY <2>2 DEF SameSums
  <2>4. f[i - 1] = g[i - 1]
    BY <2>2, <2>3
  <2> QED BY <2>2, <2>3, <2>4 DEF SameSums
<1> QED BY <1>1, <1>2

\* The elements of a sequence have lengths.
Measured(s) ==
  /\ \E S : s \in Seq(S)
  /\ Len(s) \in Nat /\ DOMAIN s = 1 .. Len(s) /\ \A i \in 1 .. Len(s) : s[i].len \in Nat

\* LenOf adds up the lengths of the elements.
LEMMA LenOfSums ==
  ASSUME NEW s, Measured(s)
  PROVE  \E q : /\ q[0] = 0 /\ \A i \in 0 .. Len(s) : q[i] \in Nat
                /\ \A i \in 1 .. Len(s) : q[i] = q[i - 1] + TotalLen(s[i])
                /\ LenOf(s) = q[Len(s)]
<1> DEFINE n == Len(s)
           w == [i \in 1 .. n |-> TotalLen(s[i])]
           P(h) == h = [t \in SUBSET DOMAIN s |->
                          IF t = {} THEN 0 ELSE h[t \ {Max(t)}] + TotalLen(s[Max(t)])]
<1>1. n \in Nat /\ DOMAIN s = 1 .. n /\ \A i \in 1 .. n : TotalLen(s[i]) \in Nat
  BY TotalLenNat DEF Measured
<1>2. LenOf(s) = (CHOOSE h : P(h))[DOMAIN s]
  BY DEF LenOf, FoldLeft, MapThenFoldSet
<1>3. \A t \in SUBSET (1 .. n) : t # {} => Max(t) \in 1 .. n /\ t \ {Max(t)} \in SUBSET (1 .. n)
  BY <1>1, MaxOf
<1>4. \A i \in 1 .. n : w[i] = TotalLen(s[i]) /\ w[i] \in Nat
  BY <1>1
<1> HIDE DEF n, w
<1>5. PICK g \in [SUBSET (1 .. n) -> Nat] : Folded(1, w, n, g)
  BY <1>1, <1>4, FoldExists
<1>6. P(g)
  <2>1. ASSUME NEW t \in SUBSET (1 .. n)
        PROVE  g[t] = IF t = {} THEN 0 ELSE g[t \ {Max(t)}] + TotalLen(s[Max(t)])
    <3>1. CASE t = {}
      BY <1>5, <3>1 DEF Folded
    <3>2. CASE t # {}
      <4>1. g[t] = g[t \ {Max(t)}] * 1 + w[Max(t)]
        BY <1>5, <3>2 DEF Folded
      <4>2. g[t \ {Max(t)}] \in Nat /\ w[Max(t)] = TotalLen(s[Max(t)])
        BY <1>3, <1>4, <1>5, <3>2
      <4>3. \A a \in Nat : a * 1 = a
        OBVIOUS
      <4> QED BY <3>2, <4>1, <4>2, <4>3
    <3> QED BY <3>1, <3>2
  <2> QED BY <1>1, <1>5, <2>1
<1>7. P(CHOOSE h : P(h))
  <2> HIDE DEF P
  <2> QED BY <1>6, Zenon
<1>8. PICK h : P(h) /\ LenOf(s) = h[1 .. n]
  <2> HIDE DEF P
  <2> QED BY <1>1, <1>2, <1>7
<1>9. ASSUME NEW f, P(f)
      PROVE  f[1 .. 0] = 0 /\ \A i \in 1 .. n : f[1 .. i] = f[1 .. i - 1] + w[i]
  <2>1. f[1 .. 0] = 0
    <3>1. 1 .. 0 = {} /\ {} \in SUBSET (1 .. n)
      OBVIOUS
    <3> QED BY <1>1, <1>9, <3>1
  <2>2. ASSUME NEW i \in 1 .. n PROVE f[1 .. i] = f[1 .. i - 1] + w[i]
    <3>1. i \in Nat \ {0} /\ i \in 1 .. i /\ 1 .. i \in SUBSET (1 .. n) /\ 1 .. i # {}
      BY <1>1
    <3>2. Max(1 .. i) = i /\ (1 .. i) \ {i} = 1 .. i - 1
      BY <3>1, MaxTop
    <3> QED BY <1>1, <1>4, <1>9, <3>1, <3>2
  <2> QED BY <2>1, <2>2
<1>10. /\ g[1 .. 0] = 0 /\ \A i \in 1 .. n : g[1 .. i] = g[1 .. i - 1] + w[i]
       /\ h[1 .. 0] = 0 /\ \A i \in 1 .. n : h[1 .. i] = h[1 .. i - 1] + w[i]
  <2> HIDE DEF P
  <2> QED BY <1>6, <1>8, <1>9
<1> DEFINE q == [i \in 0 .. n |-> g[1 .. i]]
           r == [i \in 0 .. n |-> h[1 .. i]]
<1>12. \A i \in 0 .. n : q[i] \in Nat
  <2>1. \A i \in 0 .. n : 1 .. i \in SUBSET (1 .. n)
    BY <1>1
  <2> QED BY <1>5, <2>1
<1>13. q[0] = 0 /\ r[0] = 0 /\ q[n] = g[1 .. n] /\ r[n] = h[1 .. n]
  BY <1>1, <1>10
<1>14. ASSUME NEW i \in 1 .. n
       PROVE  q[i] = q[i - 1] + w[i] /\ r[i] = r[i - 1] + w[i]
  <2>1. i \in 0 .. n /\ i - 1 \in 0 .. n
    BY <1>1
  <2> QED BY <1>10, <2>1
<1> HIDE DEF q, r
<1>15. q[n] = r[n]
  <2>1. SameSums(n, q, r, w)
    BY <1>13, <1>14 DEF SameSums
  <2> QED BY <1>1, <2>1, SumsAgree
<1>16. /\ q[0] = 0 /\ \A i \in 0 .. n : q[i] \in Nat
       /\ \A i \in 1 .. n : q[i] = q[i - 1] + TotalLen(s[i])
       /\ LenOf(s) = q[n]
  BY <1>4, <1>8, <1>12, <1>13, <1>14, <1>15
<1> QED BY <1>16 DEF n
\* The partial values of a number that is read byte by byte.
Horner(n, q, u) == q[0] = 0 /\ \A i \in 1 .. n : q[i] = q[i - 1] * 256 + u[i]

\* Number adds up the bytes, each shifted by those behind it.
LEMMA NumberSums ==
  ASSUME NEW u, NEW n \in Nat, DOMAIN u = 1 .. n, \A i \in 1 .. n : u[i] \in Nat
  PROVE  \E q : Horner(n, q, u) /\ Number(u) = q[n]
<1> DEFINE P(h) == h = [t \in SUBSET DOMAIN u |->
                          IF t = {} THEN 0 ELSE h[t \ {Max(t)}] * 256 + u[Max(t)]]
<1>1. Number(u) = (CHOOSE h : P(h))[DOMAIN u]
  BY DEF Number, FoldLeft, MapThenFoldSet
<1>2. PICK g \in [SUBSET (1 .. n) -> Nat] : Folded(256, u, n, g)
  BY FoldExists
<1>3. P(g)
  BY <1>2 DEF Folded
<1>4. P(CHOOSE h : P(h))
  <2> HIDE DEF P
  <2> QED BY <1>3, Zenon
<1>5. PICK h : P(h) /\ Number(u) = h[1 .. n]
  <2> HIDE DEF P
  <2> QED BY <1>1, <1>4
<1>0. n \in Nat /\ DOMAIN u = 1 .. n
  OBVIOUS
<1>6. ASSUME NEW f, P(f)
      PROVE  f[1 .. 0] = 0 /\ \A i \in 1 .. n : f[1 .. i] = f[1 .. i - 1] * 256 + u[i]
  <2>1. f[1 .. 0] = 0
    <3>1. 1 .. 0 = {} /\ {} \in SUBSET (1 .. n)
      OBVIOUS
    <3> QED BY <1>0, <1>6, <3>1
  <2>2. ASSUME NEW i \in 1 .. n PROVE f[1 .. i] = f[1 .. i - 1] * 256 + u[i]
    <3>0. i \in Nat \ {0} /\ i <= n
      BY <1>0
    <3>1. i \in 1 .. i /\ 1 .. i \in SUBSET (1 .. n) /\ 1 .. i # {}
      BY <1>0, <3>0
    <3>2. Max(1 .. i) = i /\ (1 .. i) \ {i} = 1 .. i - 1
      BY <3>0, <3>1, MaxTop
    <3>3. 1 .. i \in SUBSET DOMAIN u
      BY <1>0, <3>1
    <3>4. f[1 .. i] = f[(1 .. i) \ {Max(1 .. i)}] * 256 + u[Max(1 .. i)]
      BY <1>6, <3>1, <3>3
    <3> QED BY <3>2, <3>4
  <2> QED BY <2>1, <2>2
<1>7. h[1 .. 0] = 0 /\ \A i \in 1 .. n : h[1 .. i] = h[1 .. i - 1] * 256 + u[i]
  <2> HIDE DEF P
  <2> QED BY <1>5, <1>6
<1> DEFINE q == [i \in 0 .. n |-> h[1 .. i]]
<1>8. q[0] = 0 /\ q[n] = h[1 .. n]
  BY <1>0, <1>7
<1>9. ASSUME NEW i \in 1 .. n PROVE q[i] = q[i - 1] * 256 + u[i]
  <2>1. i \in 0 .. n /\ i - 1 \in 0 .. n
    BY <1>0
  <2> QED BY <1>7, <2>1
<1> HIDE DEF q
<1>10. Horner(n, q, u)
  BY <1>8, <1>9 DEF Horner
<1> QED BY <1>5, <1>8, <1>10

\* The bytes of a number, most significant first.
Digits(len, n, u) == \A i \in 1 .. n : u[i] = (len \div Powers[n + 1 - i]) % 256

\* The bytes of a number below the limit make the number again.
LEMMA DigitsMake ==
  ASSUME NEW len \in Nat, NEW n \in 1 .. 4, len < 256 * Powers[n], NEW q, NEW u,
         Digits(len, n, u), Horner(n, q, u)
  PROVE  q[n] = len
<1>1. /\ Powers[1] = 1 /\ Powers[2] = 256 /\ Powers[3] = 65536
  BY PowersAre
<1>0. /\ q[0] = 0
      /\ \A i \in 1 .. n : q[i] = q[i - 1] * 256 + u[i]
      /\ \A i \in 1 .. n : u[i] = (len \div Powers[n + 1 - i]) % 256
  BY DEF Digits, Horner
<1>2. CASE n = 1
  <2>1. u[1] = (len \div 1) % 256 /\ q[1] = 0 * 256 + u[1] /\ len < 256
    BY <1>0, <1>1, <1>2
  <2>2. (len \div 1) % 256 = len
    BY <2>1
  <2> QED BY <1>2, <2>1, <2>2
<1>3. CASE n = 2
  <2>1. /\ u[1] = (len \div 256) % 256 /\ u[2] = (len \div 1) % 256
        /\ q[1] = 0 * 256 + u[1] /\ q[2] = q[1] * 256 + u[2]
        /\ len < 65536
    BY <1>0, <1>1, <1>3
  <2>2. ((len \div 256) % 256) * 256 + ((len \div 1) % 256) = len
    BY <2>1
  <2> QED BY <1>3, <2>1, <2>2
<1>4. CASE n = 3
  <2>0. u[1] = (len \div 65536) % 256 /\ u[2] = (len \div 256) % 256 /\ u[3] = (len \div 1) % 256
    BY <1>0, <1>1, <1>4
  <2>1. /\ q[1] = 0 * 256 + u[1] /\ q[2] = q[1] * 256 + u[2] /\ q[3] = q[2] * 256 + u[3]
        /\ len < 256 * 65536
    BY <1>0, <1>1, <1>4
  <2>2. (((len \div 65536) % 256) * 256 + ((len \div 256) % 256)) * 256 + ((len \div 1) % 256) = len
    BY <2>1, SMTT(30)
  <2> QED BY <1>4, <2>0, <2>1, <2>2, SMT
<1>5. CASE n = 4
  <2>1. Powers[4] = 256 * 65536
    BY PowersAre, SMT
  <2>2. len < 256 * (256 * 65536)
    BY <1>5, <2>1, SMT
  <2>3. u[1] = (len \div (256 * 65536)) % 256
    <3>1. 1 \in 1 .. n /\ n + 1 - 1 = 4
      BY <1>5
    <3>2. u[1] = (len \div Powers[n + 1 - 1]) % 256
      BY <1>0, <3>1
    <3> QED BY <2>1, <3>1, <3>2, SMT
  <2>4. u[2] = (len \div 65536) % 256 /\ u[3] = (len \div 256) % 256 /\ u[4] = (len \div 1) % 256
    BY <1>0, <1>1, <1>5
  <2>5. q[1] = 0 * 256 + u[1] /\ q[2] = q[1] * 256 + u[2] /\ q[3] = q[2] * 256 + u[3]
        /\ q[4] = q[3] * 256 + u[4]
    BY <1>0, <1>5
  <2>6. ((((len \div (256 * 65536)) % 256) * 256 + ((len \div 65536) % 256)) * 256
          + ((len \div 256) % 256)) * 256 + ((len \div 1) % 256) = len
    BY <2>2, SMTT(30)
  <2> QED BY <1>5, <2>3, <2>4, <2>5, <2>6, SMT
<1> QED BY <1>2, <1>3, <1>4, <1>5

\* What der_read_tlv makes of a header in the short and in the long form.
LEMMA ReadShort ==
  ASSUME NEW bytes, NEW left \in Nat, NEW len \in Nat, bytes[1] = len, len < 128, 2 + len <= left
  PROVE  der_read_tlv(bytes, left) = [ok |-> TRUE, total_len |-> 2 + len]
<1>1. ~(left < 2)
  OBVIOUS
<1>2. /\ 2 + 0 + len = 2 + len /\ 2 + 0 + len <= left
  OBVIOUS
<1> QED BY <1>1, <1>2 DEF der_read_tlv

LEMMA ReadLong ==
  ASSUME NEW bytes, NEW left \in Nat, NEW len \in Nat, NEW n \in 1 .. 4, bytes[1] = 128 + n,
         Number(SubSeq(bytes, 2, 1 + n)) = len, 2 + n + len <= left
  PROVE  der_read_tlv(bytes, left) = [ok |-> TRUE, total_len |-> 2 + n + len]
<1>1. ~(left < 2) /\ 2 + n <= left
  OBVIOUS
<1>2. ~(128 + n < 128) /\ 128 + n - 128 = n
  OBVIOUS
<1> DEFINE first == IF left < 2 THEN 128 ELSE bytes[1]
           count == IF first < 128 THEN 0 ELSE first - 128
           framed == first < 128 \/ (count \in 1 .. 4 /\ 2 + count <= left)
           value == IF first < 128 THEN first
                    ELSE IF ~framed THEN 0
                    ELSE Number(SubSeq(bytes, 2, 1 + count))
<1>3. der_read_tlv(bytes, left)
        = [ok |-> framed /\ 2 + count + value <= left, total_len |-> 2 + count + value]
  BY DEF der_read_tlv
<1>4. first = 128 + n
  BY <1>1
<1> HIDE DEF first
<1>5. count = n
  BY <1>2, <1>4
<1> HIDE DEF count
<1>6. framed
  BY <1>1, <1>5
<1> HIDE DEF framed
<1>7. value = len
  BY <1>2, <1>4, <1>5, <1>6
<1> HIDE DEF value
<1> QED BY <1>3, <1>5, <1>6, <1>7

\* der_read_tlv reads back what write_length has written, in any buffer that holds
\* the element.
THEOREM ReadBack ==
  ASSUME NEW len \in Nat, len < Limit32, NEW left \in Nat,
         1 + Len(write_length(len)) + len <= left
  PROVE  der_read_tlv(write_length(len), left)
           = [ok |-> TRUE, total_len |-> 1 + Len(write_length(len)) + len]
<1> DEFINE bytes == write_length(len)
<1>0. PICK m \in 1 .. 5 : m = Len(bytes)
  BY WrittenLength
<1>00. 1 + m + len <= left
  BY <1>0
<1>1. CASE len < 128
  <2>1. bytes = <<len>>
    BY <1>1, WrittenLength
  <2>2. bytes[1] = len /\ Len(bytes) = 1
    BY <2>1
  <2> HIDE DEF bytes
  <2>3. m = 1 /\ 2 + len <= left
    BY <1>0, <1>00, <2>2
  <2>4. der_read_tlv(bytes, left) = [ok |-> TRUE, total_len |-> 2 + len]
    BY <1>1, <2>2, <2>3, ReadShort
  <2>5. 1 + Len(bytes) + len = 2 + len
    BY <2>2
  <2> QED BY <2>4, <2>5 DEF bytes
<1>2. CASE len >= 128
  <2> DEFINE digits(n) == SubSeq(bytes, 2, 1 + n)
  <2>1. PICK n \in 1 .. 4 : n = LengthBytes(len)
    BY LengthBytesAre
  <2>2. n < 4 => len < Powers[n + 1]
    BY <2>1, LengthBytesAre
  <2>3. /\ bytes \in Seq(Nat) /\ Len(bytes) = n + 1 /\ bytes[1] = 128 + n
        /\ \A i \in 2 .. n + 1 : bytes[i] = (len \div Powers[n + 2 - i]) % 256
    BY <1>2, <2>1, WrittenLength
  <2> HIDE DEF bytes
  <2>4. DOMAIN digits(n) = 1 .. n /\ \A i \in 1 .. n : digits(n)[i] = bytes[i + 1]
    BY <2>3
  <2>5. Digits(len, n, digits(n))
    <3> SUFFICES ASSUME NEW i \in 1 .. n PROVE digits(n)[i] = (len \div Powers[n + 1 - i]) % 256
      BY DEF Digits
    <3>1. i + 1 \in 2 .. n + 1 /\ n + 2 - (i + 1) = n + 1 - i
      OBVIOUS
    <3> QED BY <2>3, <2>4, <3>1
  <2>6. \A i \in 1 .. n : digits(n)[i] \in Nat
    BY <2>3, <2>4
  <2> HIDE DEF digits
  <2>7. PICK q : Horner(n, q, digits(n)) /\ Number(digits(n)) = q[n]
    BY <2>4, <2>6, NumberSums
  <2>8. len < 256 * Powers[n]
    <3>1. CASE n = 4
      BY <3>1 DEF Limit32
    <3>2. CASE n # 4
      <4>1. len < Powers[n + 1] /\ n \in 1 .. 3
        BY <2>2, <3>2
      <4>2. \A k \in 1 .. 3 : Powers[k + 1] = 256 * Powers[k]
        BY PowersAre, SMT
      <4> QED BY <4>1, <4>2
    <3> QED BY <3>1, <3>2
  <2>9. Number(digits(n)) = len
    BY <2>5, <2>7, <2>8, DigitsMake
  <2>10. m = n + 1 /\ 2 + n + len <= left
    BY <1>0, <1>00, <2>3
  <2>11. der_read_tlv(bytes, left) = [ok |-> TRUE, total_len |-> 2 + n + len]
    <3>1. Number(SubSeq(bytes, 2, 1 + n)) = len
      BY <2>9 DEF digits
    <3>2. bytes[1] = 128 + n /\ 2 + n + len <= left
      BY <2>3, <2>10
    <3> QED BY <3>1, <3>2, ReadLong
  <2>12. 1 + Len(bytes) + len = 2 + n + len
    BY <2>3
  <2> QED BY <2>11, <2>12 DEF bytes
<1> QED BY <1>1, <1>2
-----------------------------------------------------------------------------
\* What the program assembles.

\* A short element has a header of two bytes.
LEMMA ShortTotal ==
  ASSUME NEW e, e.len \in 0 .. 127
  PROVE  TotalLen(e) = e.len + 2
<1>1. PICK n \in 0 .. 127 : n = e.len
  OBVIOUS
<1>2. write_length(n) = <<n>>
  <2>1. n \in Nat /\ n < 128
    OBVIOUS
  <2> QED BY <2>1, WrittenLength
<1>3. Len(write_length(e.len)) = 1
  BY <1>1, <1>2
<1>4. TotalLen(e) = 1 + 1 + n
  BY <1>1, <1>3, Zenon DEF TotalLen
<1> QED BY <1>1, <1>4

\* The length of one element and of two.
LEMMA LenOfOne ==
  ASSUME NEW a, a.len \in Nat
  PROVE  LenOf(<<a>>) = TotalLen(a)
<1> DEFINE s == <<a>>
<1>0. s \in Seq({a}) /\ Len(s) = 1 /\ s[1] = a /\ DOMAIN s = 1 .. 1
  OBVIOUS
<1>1. Measured(s) /\ Len(s) = 1 /\ s[1] = a
  <2> HIDE DEF s
  <2> QED BY <1>0 DEF Measured
<1> HIDE DEF s
<1>2. PICK q : /\ q[0] = 0 /\ \A i \in 1 .. Len(s) : q[i] = q[i - 1] + TotalLen(s[i])
               /\ LenOf(s) = q[Len(s)]
  BY <1>1, LenOfSums
<1>3. q[1] = q[1 - 1] + TotalLen(s[1])
  BY <1>1, <1>2
<1>4. LenOf(s) = 0 + TotalLen(a)
  BY <1>1, <1>2, <1>3
<1>5. TotalLen(a) \in Nat
  BY TotalLenNat
<1> QED BY <1>4, <1>5 DEF s

LEMMA LenOfTwo ==
  ASSUME NEW a, NEW b, a.len \in Nat, b.len \in Nat
  PROVE  LenOf(<<a, b>>) = TotalLen(a) + TotalLen(b)
<1> DEFINE s == <<a, b>>
<1>0. s \in Seq({a, b}) /\ Len(s) = 2 /\ s[1] = a /\ s[2] = b /\ DOMAIN s = 1 .. 2
  OBVIOUS
<1>1. Measured(s) /\ Len(s) = 2 /\ s[1] = a /\ s[2] = b
  <2> HIDE DEF s
  <2> QED BY <1>0 DEF Measured
<1> HIDE DEF s
<1>2. PICK q : /\ q[0] = 0 /\ \A i \in 1 .. Len(s) : q[i] = q[i - 1] + TotalLen(s[i])
               /\ LenOf(s) = q[Len(s)]
  BY <1>1, LenOfSums
<1>3. q[1] = q[1 - 1] + TotalLen(s[1]) /\ q[2] = q[2 - 1] + TotalLen(s[2])
  BY <1>1, <1>2
<1>4. LenOf(s) = (0 + TotalLen(a)) + TotalLen(b)
  BY <1>1, <1>2, <1>3
<1>5. TotalLen(a) \in Nat /\ TotalLen(b) \in Nat
  BY TotalLenNat
<1> QED BY <1>4, <1>5 DEF s

\* The order of the elements of a set.
HeadOf(e) == <<e.tag>> \o write_length(e.len)
Earlier(a, b) ==
  \E i \in 1 .. Min({Len(HeadOf(a)), Len(HeadOf(b))}) :
    /\ HeadOf(a)[i] < HeadOf(b)[i]
    /\ \A k \in 1 .. (i - 1) : HeadOf(a)[k] = HeadOf(b)[k]
InOrder(elems, p) ==
  \A i, k \in DOMAIN elems : i < k => p[i] # p[k] /\ ~Earlier(elems[p[k]], elems[p[i]])

\* der_set writes its elements in an order, if there is one.
LEMMA SetSorted ==
  ASSUME NEW elems, NEW o \in [DOMAIN elems -> DOMAIN elems], InOrder(elems, o)
  PROVE  \E p \in [DOMAIN elems -> DOMAIN elems] :
           /\ InOrder(elems, p)
           /\ der_set(elems) = der_wrap(SETOF, [i \in DOMAIN elems |-> elems[p[i]]])
<1> DEFINE p == CHOOSE x \in [DOMAIN elems -> DOMAIN elems] : InOrder(elems, x)
<1>1. p \in [DOMAIN elems -> DOMAIN elems] /\ InOrder(elems, p)
  OBVIOUS
<1>2. der_set(elems) = der_wrap(SETOF, [i \in DOMAIN elems |-> elems[p[i]]])
  BY Zenon DEF der_set, InOrder, Earlier, HeadOf
<1> HIDE DEF p
<1> QED BY <1>1, <1>2

\* A set of one element.
LEMMA SetOfOne ==
  ASSUME NEW a
  PROVE  der_set(<<a>>) = der_wrap(SETOF, <<a>>)
<1> DEFINE s == <<a>>
<1>1. DOMAIN s = {1} /\ s[1] = a /\ s = [i \in {1} |-> a]
  OBVIOUS
<1> HIDE DEF s
<1> DEFINE o == [i \in {1} |-> 1]
<1>2. o \in [DOMAIN s -> DOMAIN s]
  BY <1>1
<1>3. ~(1 < 1)
  OBVIOUS
<1>4. InOrder(s, o)
  BY <1>1, <1>3 DEF InOrder
<1> HIDE DEF o
<1>5. PICK p \in [DOMAIN s -> DOMAIN s] :
        der_set(s) = der_wrap(SETOF, [i \in DOMAIN s |-> s[p[i]]])
  BY <1>2, <1>4, SetSorted
<1>6. [i \in DOMAIN s |-> s[p[i]]] = s
  BY <1>1, <1>5
<1> QED BY <1>5, <1>6 DEF s

\* Of two short sequences the shorter comes first.
LEMMA ShortEarlier ==
  ASSUME NEW a, NEW b, a.tag = 48, b.tag = 48, a.len \in 0 .. 127, b.len \in 0 .. 127
  PROVE  Earlier(a, b) <=> a.len < b.len
<1>1. ASSUME NEW e, e.tag = 48, e.len \in 0 .. 127
      PROVE  Len(HeadOf(e)) = 2 /\ HeadOf(e)[1] = 48 /\ HeadOf(e)[2] = e.len
  <2>1. PICK n \in 0 .. 127 : n = e.len
    BY <1>1
  <2>2. write_length(e.len) = <<n>>
    <3>1. n \in Nat /\ n < 128
      OBVIOUS
    <3>2. write_length(n) = <<n>>
      BY <3>1, WrittenLength
    <3> QED BY <2>1, <3>2
  <2>3. HeadOf(e) = <<48>> \o <<n>>
    BY <1>1, <2>2 DEF HeadOf
  <2>4. <<48>> \in Seq(Nat) /\ <<n>> \in Seq(Nat) /\ Len(<<48>>) = 1 /\ Len(<<n>>) = 1
    OBVIOUS
  <2>5. /\ Len(<<48>> \o <<n>>) = 1 + 1 /\ (<<48>> \o <<n>>)[1] = <<48>>[1]
        /\ (<<48>> \o <<n>>)[1 + 1] = <<n>>[1]
    BY <2>4, ConcatFacts
  <2> QED BY <2>1, <2>3, <2>5
<1>2. Min({2, 2}) = 2
  BY DEF Min
<1>0. Len(HeadOf(a)) = 2 /\ Len(HeadOf(b)) = 2
  BY <1>1
<1>3. Earlier(a, b) <=> \E i \in 1 .. 2 : /\ HeadOf(a)[i] < HeadOf(b)[i]
                                         /\ \A k \in 1 .. (i - 1) : HeadOf(a)[k] = HeadOf(b)[k]
  BY <1>0, <1>2, Zenon DEF Earlier
<1>4. HeadOf(a)[1] = 48 /\ HeadOf(b)[1] = 48 /\ HeadOf(a)[2] = a.len /\ HeadOf(b)[2] = b.len
  BY <1>1
<1>5. ASSUME Earlier(a, b) PROVE a.len < b.len
  <2>1. PICK i \in 1 .. 2 : HeadOf(a)[i] < HeadOf(b)[i]
    BY <1>3, <1>5
  <2>2. i = 2
    BY <1>4, <2>1
  <2> QED BY <1>4, <2>1, <2>2
<1>6. ASSUME a.len < b.len PROVE Earlier(a, b)
  <2>1. HeadOf(a)[2] < HeadOf(b)[2] /\ \A k \in 1 .. (2 - 1) : HeadOf(a)[k] = HeadOf(b)[k]
    BY <1>4, <1>6
  <2> QED BY <1>3, <2>1
<1> QED BY <1>5, <1>6
\* The attributes that are signed, as build_auth_attrs lists them and as it writes
\* them: in the order of their lengths.
ContentType      == Attribute("content_type", der_oid("indirect_data"))
MessageDigest(d) == Attribute("message_digest", der_octet_string(sha256_content(d), 32))
StatementType    == Attribute("statement_type", der_sequence(<<der_oid("individual")>>))

\* A value so short that its attribute is short too.
Brief(v) == v.len \in 0 .. 99

\* An attribute is an identifier and a set of one value.
LEMMA AttributeIs ==
  ASSUME NEW name, NEW v
  PROVE  Attribute(name, v) = der_wrap(48, <<der_oid(name), der_wrap(SETOF, <<v>>)>>)
  BY SetOfOne DEF Attribute, der_sequence, SEQUENCE

LEMMA AttributeLength ==
  ASSUME NEW name, NEW v, Brief(v)
  PROVE  Attribute(name, v).tag = 48 /\ Attribute(name, v).len = der_oid(name).len + v.len + 6
<1> DEFINE id == der_oid(name)
           values == der_wrap(SETOF, <<v>>)
<1>0. v.len \in 0 .. 99 /\ v.len \in Nat /\ v.len \in 0 .. 127
  BY DEF Brief
<1>1. id.len \in {9, 10}
  BY DEF der_oid, Prim
<1>2. values.len = v.len + 2
  <2>1. LenOf(<<v>>) = TotalLen(v) /\ TotalLen(v) = v.len + 2
    BY <1>0, LenOfOne, ShortTotal
  <2> QED BY <2>1 DEF der_wrap
<1>3. Attribute(name, v) = der_wrap(48, <<id, values>>)
  BY AttributeIs
<1> HIDE DEF id, values
<1>4. id.len \in 0 .. 127 /\ values.len \in 0 .. 127 /\ id.len \in Nat /\ values.len \in Nat
  BY <1>0, <1>1, <1>2
<1>5. TotalLen(id) = id.len + 2 /\ TotalLen(values) = values.len + 2
  BY <1>4, ShortTotal
<1>6. LenOf(<<id, values>>) = TotalLen(id) + TotalLen(values)
  BY <1>4, LenOfTwo
<1>7. LenOf(<<id, values>>) = id.len + v.len + 6
  BY <1>0, <1>1, <1>2, <1>5, <1>6
<1>8. Attribute(name, v).tag = 48 /\ Attribute(name, v).len = LenOf(<<id, values>>)
  BY <1>3 DEF der_wrap
<1> QED BY <1>7, <1>8 DEF id

\* The lengths of the three attributes.
LEMMA AttributeLengths ==
  ASSUME NEW d
  PROVE  /\ ContentType.tag = 48 /\ ContentType.len = 25
         /\ MessageDigest(d).tag = 48 /\ MessageDigest(d).len = 47
         /\ StatementType.tag = 48 /\ StatementType.len = 28
<1>1. /\ der_oid("content_type").len = 9 /\ der_oid("message_digest").len = 9
      /\ der_oid("statement_type").len = 10 /\ der_oid("indirect_data").len = 10
      /\ der_oid("individual").len = 10
  BY DEF der_oid, Prim
<1>2. der_octet_string(sha256_content(d), 32).len = 32
  BY DEF der_octet_string, Prim
<1>3. der_sequence(<<der_oid("individual")>>).len = 12
  <2>1. LenOf(<<der_oid("individual")>>) = TotalLen(der_oid("individual"))
    BY <1>1, LenOfOne
  <2>2. TotalLen(der_oid("individual")) = 12
    BY <1>1, ShortTotal
  <2> QED BY <2>1, <2>2 DEF der_sequence, der_wrap
<1>4. ContentType.tag = 48 /\ ContentType.len = 25
  <2>1. Brief(der_oid("indirect_data"))
    BY <1>1 DEF Brief
  <2>2. PICK name, v : name = "content_type" /\ v = der_oid("indirect_data")
    OBVIOUS
  <2>3. ContentType = Attribute(name, v) /\ Brief(v)
    BY <2>1, <2>2 DEF ContentType
  <2>4. ContentType.tag = 48 /\ ContentType.len = der_oid(name).len + v.len + 6
    BY <2>3, AttributeLength
  <2> QED BY <1>1, <2>2, <2>4
<1>5. MessageDigest(d).tag = 48 /\ MessageDigest(d).len = 47
  <2> DEFINE v == der_octet_string(sha256_content(d), 32)
  <2>1. Brief(v)
    BY <1>2 DEF Brief
  <2>2. PICK name : name = "message_digest"
    OBVIOUS
  <2>3. MessageDigest(d) = Attribute(name, v)
    BY <2>2 DEF MessageDigest
  <2> HIDE DEF v
  <2>4. MessageDigest(d).tag = 48 /\ MessageDigest(d).len = der_oid(name).len + v.len + 6
    BY <2>1, <2>3, AttributeLength
  <2> QED BY <1>1, <1>2, <2>2, <2>4 DEF v
<1>6. StatementType.tag = 48 /\ StatementType.len = 28
  <2> DEFINE v == der_sequence(<<der_oid("individual")>>)
  <2>1. Brief(v)
    BY <1>3 DEF Brief
  <2>2. PICK name : name = "statement_type"
    OBVIOUS
  <2>3. StatementType = Attribute(name, v)
    BY <2>2 DEF StatementType
  <2> HIDE DEF v
  <2>4. StatementType.tag = 48 /\ StatementType.len = der_oid(name).len + v.len + 6
    BY <2>1, <2>3, AttributeLength
  <2> QED BY <1>1, <1>3, <2>2, <2>4 DEF v
<1> QED BY <1>4, <1>5, <1>6

\* The set of them is written in the order of the lengths.
LEMMA AttributesSorted ==
  ASSUME NEW d
  PROVE  build_auth_attrs(d) = der_wrap(SETOF, <<ContentType, StatementType, MessageDigest(d)>>)
<1> DEFINE s == <<ContentType, MessageDigest(d), StatementType>>
           o == [i \in 1 .. 3 |-> IF i = 1 THEN 1 ELSE IF i = 2 THEN 3 ELSE 2]
<1>1. build_auth_attrs(d) = der_set(s)
  BY DEF build_auth_attrs, ContentType, MessageDigest, StatementType
<1>2. DOMAIN s = 1 .. 3 /\ s[1] = ContentType /\ s[2] = MessageDigest(d) /\ s[3] = StatementType
  OBVIOUS
<1> HIDE DEF s
<1>3. /\ \A i \in 1 .. 3 : s[i].tag = 48 /\ s[i].len \in 0 .. 127
      /\ s[1].len = 25 /\ s[2].len = 47 /\ s[3].len = 28
  BY <1>2, AttributeLengths
<1>4. \A i, k \in 1 .. 3 : Earlier(s[i], s[k]) <=> s[i].len < s[k].len
  BY <1>3, ShortEarlier
<1>5. o \in [DOMAIN s -> DOMAIN s] /\ o[1] = 1 /\ o[2] = 3 /\ o[3] = 2
  BY <1>2
<1> HIDE DEF o
<1>6. InOrder(s, o)
  <2> SUFFICES ASSUME NEW i \in 1 .. 3, NEW k \in 1 .. 3, i < k
               PROVE  o[i] # o[k] /\ ~(s[o[k]].len < s[o[i]].len)
    BY <1>2, <1>4, <1>5 DEF InOrder
  <2>1. \/ i = 1 /\ k = 2
        \/ i = 1 /\ k = 3
        \/ i = 2 /\ k = 3
    BY SMT
  <2> QED BY <1>3, <1>5, <2>1
<1>7. PICK p \in [DOMAIN s -> DOMAIN s] :
        /\ InOrder(s, p)
        /\ der_set(s) = der_wrap(SETOF, [i \in DOMAIN s |-> s[p[i]]])
  BY <1>5, <1>6, SetSorted
<1>8. p[1] \in 1 .. 3 /\ p[2] \in 1 .. 3 /\ p[3] \in 1 .. 3
  BY <1>2, <1>7
<1>9. /\ p[1] # p[2] /\ p[1] # p[3] /\ p[2] # p[3]
      /\ ~(s[p[2]].len < s[p[1]].len) /\ ~(s[p[3]].len < s[p[2]].len)
      /\ ~(s[p[3]].len < s[p[1]].len)
  <2>1. 1 < 2 /\ 2 < 3 /\ 1 < 3 /\ 1 \in 1 .. 3 /\ 2 \in 1 .. 3 /\ 3 \in 1 .. 3
    OBVIOUS
  <2>2. \A i, k \in 1 .. 3 : i < k => p[i] # p[k] /\ ~Earlier(s[p[k]], s[p[i]])
    BY <1>2, <1>7 DEF InOrder
  <2> QED BY <1>4, <1>8, <2>1, <2>2
<1>10. p[1] = 1 /\ p[2] = 3 /\ p[3] = 2
  <2>1. PICK x \in 1 .. 3, y \in 1 .. 3, z \in 1 .. 3 : x = p[1] /\ y = p[2] /\ z = p[3]
    BY <1>8
  <2>2. \A i \in 1 .. 3 : s[i].len = IF i = 1 THEN 25 ELSE IF i = 2 THEN 47 ELSE 28
    BY <1>3
  <2>3. x # y /\ x # z /\ y # z /\ ~(s[y].len < s[x].len) /\ ~(s[z].len < s[y].len)
    BY <1>9, <2>1
  <2> QED BY <2>1, <2>2, <2>3
<1>11. [i \in DOMAIN s |-> s[p[i]]] = <<s[1], s[3], s[2]>>
  BY <1>2, <1>10
<1> QED BY <1>1, <1>2, <1>7, <1>11

\* What is assembled, field by field.  fields: those of the signer.
Made(d, certs, fields) ==
  Assembled(SignedDataFields(d, certs, <<der_sequence(fields)>>))

LEMMA MadeIs ==
  ASSUME NEW d, NEW certs, NEW fields
  PROVE  LET e  == Made(d, certs, fields)
             sd == signed_data(e)
         IN  /\ e.tag = SEQUENCE
             /\ e.kids = <<der_oid("signed_data"), der_explicit(0, sd)>>
             /\ e.len = LenOf(e.kids)
             /\ sd = der_wrap(SEQUENCE,
                       <<der_integer("1"), der_wrap(SETOF, <<sha256_alg_id>>),
                         der_wrap(SEQUENCE, <<der_oid("indirect_data"), der_explicit(0, d)>>),
                         der_wrap(Context(0), certs),
                         der_wrap(SETOF, <<der_wrap(SEQUENCE, fields)>>)>>)
<1> DEFINE signer == der_sequence(fields)
           sd == der_sequence(SignedDataFields(d, certs, <<signer>>))
<1>1. Made(d, certs, fields) = der_wrap(SEQUENCE, <<der_oid("signed_data"), der_explicit(0, sd)>>)
  BY DEF Made, Assembled, der_sequence
<1>2. SignedDataFields(d, certs, <<signer>>)
        = <<der_integer("1"), der_wrap(SETOF, <<sha256_alg_id>>),
            der_wrap(SEQUENCE, <<der_oid("indirect_data"), der_explicit(0, d)>>),
            der_wrap(Context(0), certs),
            der_wrap(SETOF, <<der_wrap(SEQUENCE, fields)>>)>>
  <2>1. signer = der_wrap(SEQUENCE, fields)
    BY DEF der_sequence
  <2> HIDE DEF signer
  <2>2. der_set(<<sha256_alg_id>>) = der_wrap(SETOF, <<sha256_alg_id>>)
    BY SetOfOne
  <2>3. der_set(<<signer>>) = der_wrap(SETOF, <<signer>>)
    BY SetOfOne
  <2> QED BY <2>1, <2>2, <2>3, Zenon DEF SignedDataFields, der_sequence
<1>3. der_explicit(0, sd).kids = <<sd>>
  BY DEF der_explicit, der_wrap
<1>4. sd = der_wrap(SEQUENCE, SignedDataFields(d, certs, <<signer>>))
  BY DEF der_sequence
<1> HIDE DEF sd, signer
<1>5. /\ Made(d, certs, fields).tag = SEQUENCE
      /\ Made(d, certs, fields).kids = <<der_oid("signed_data"), der_explicit(0, sd)>>
      /\ Made(d, certs, fields).len = LenOf(<<der_oid("signed_data"), der_explicit(0, sd)>>)
  BY <1>1 DEF der_wrap
<1>6. signed_data(Made(d, certs, fields)) = sd
  BY <1>3, <1>5 DEF signed_data
<1> QED BY <1>2, <1>4, <1>5, <1>6
-----------------------------------------------------------------------------
\* What the program assembles verifies.

\* The fields of a signer that has signed the attributes of d; a timestamp may follow.
SignedBy(fields, d, leaf) ==
  LET own == SignerFields(d, <<"rsa", cms_auth_attrs_hash(d)>>, x509_cert_id(leaf))
  IN  \A i \in 1 .. 6 : fields[i] = own[i]

LEMMA AssembledMade ==
  ASSUME NEW d, NEW s, NEW c
  PROVE  assemble_cms(d, s, c)
           = Made(d, x509_split_certs(c), SignerFields(d, s, x509_cert_id(x509_split_certs(c)[1])))
  BY DEF assemble_cms, Made

\* The two fields of a signer that are signed and the signature.
LEMMA SignerHas ==
  ASSUME NEW fields, NEW d, NEW leaf, SignedBy(fields, d, leaf)
  PROVE  /\ fields[2] = der_wrap(SEQUENCE, <<x509_cert_id(leaf).issuer, x509_cert_id(leaf).serial>>)
         /\ fields[4] = der_implicit(0, build_auth_attrs(d))
         /\ fields[6] = der_octet_string(<<"rsa", cms_auth_attrs_hash(d)>>, 384)
<1>1. 2 \in 1 .. 6 /\ 4 \in 1 .. 6 /\ 6 \in 1 .. 6
  OBVIOUS
<1> DEFINE own == SignerFields(d, <<"rsa", cms_auth_attrs_hash(d)>>, x509_cert_id(leaf))
<1>2. /\ own[2] = der_wrap(SEQUENCE, <<x509_cert_id(leaf).issuer, x509_cert_id(leaf).serial>>)
      /\ own[4] = der_implicit(0, build_auth_attrs(d))
      /\ own[6] = der_octet_string(<<"rsa", cms_auth_attrs_hash(d)>>, 384)
  BY DEF SignerFields, der_sequence
<1>3. \A i \in 1 .. 6 : fields[i] = own[i]
  BY DEF SignedBy
<1> HIDE DEF own
<1> QED BY <1>1, <1>2, <1>3

\* A verifier that retags the signed attributes has what was hashed and signed.
LEMMA Retagged ==
  ASSUME NEW d
  PROVE  [der_implicit(0, build_auth_attrs(d)) EXCEPT !.tag = SETOF] = build_auth_attrs(d)
<1> DEFINE s == <<ContentType, StatementType, MessageDigest(d)>>
<1>1. build_auth_attrs(d) = [tag |-> SETOF, len |-> LenOf(s), prim |-> <<>>, kids |-> s]
  BY AttributesSorted DEF der_wrap
<1> HIDE DEF s
<1>2. der_implicit(0, build_auth_attrs(d)) = [build_auth_attrs(d) EXCEPT !.tag = Context(0)]
  BY DEF der_implicit
<1> QED BY <1>1, <1>2

\* Whatever the indirect data and the certificates are, a signature of these fields
\* verifies.
LEMMA MadeVerifies ==
  ASSUME NEW d, NEW fields, SignedBy(fields, d, x509_split_certs(chain.certs)[1])
  PROVE  Verifies(Made(d, x509_split_certs(chain.certs), fields))
<1> DEFINE certs == x509_split_certs(chain.certs)
           id == x509_cert_id(certs[1])
           e == Made(d, certs, fields)
           sd == signed_data(e)
           signer == sd.kids[Len(sd.kids)].kids[1]
           attrs == [signer.kids[4] EXCEPT !.tag = SETOF]
           content == sd.kids[3].kids[2].kids[1]
<1>1. sd = der_wrap(SEQUENCE,
             <<der_integer("1"), der_wrap(SETOF, <<sha256_alg_id>>),
               der_wrap(SEQUENCE, <<der_oid("indirect_data"), der_explicit(0, d)>>),
               der_wrap(Context(0), certs),
               der_wrap(SETOF, <<der_wrap(SEQUENCE, fields)>>)>>)
  BY MadeIs
<1>2. /\ Len(sd.kids) = 5
      /\ sd.kids[3] = der_wrap(SEQUENCE, <<der_oid("indirect_data"), der_explicit(0, d)>>)
      /\ sd.kids[4] = der_wrap(Context(0), certs)
      /\ sd.kids[5] = der_wrap(SETOF, <<der_wrap(SEQUENCE, fields)>>)
  <2> HIDE DEF sd, certs
  <2> QED BY <1>1 DEF der_wrap
<1> HIDE DEF sd
<1>3. signer.kids = fields
  BY <1>2 DEF der_wrap
<1>4. content = d
  BY <1>2 DEF der_wrap, der_explicit
<1>5. sd.kids[4].kids = certs
  BY <1>2 DEF der_wrap
<1> HIDE DEF signer, content, certs
<1>6. /\ fields[2] = der_wrap(SEQUENCE, <<id.issuer, id.serial>>)
      /\ fields[4] = der_implicit(0, build_auth_attrs(d))
      /\ fields[6] = der_octet_string(<<"rsa", cms_auth_attrs_hash(d)>>, 384)
  BY SignerHas DEF certs
<1>7. attrs = build_auth_attrs(d)
  BY <1>3, <1>6, Retagged
<1>8. signer.kids[6].prim = <<"rsa", sha256(attrs)>>
  BY <1>3, <1>6, <1>7 DEF der_octet_string, Prim, cms_auth_attrs_hash
<1>9. signer.kids[2].kids = <<id.issuer, id.serial>>
  BY <1>3, <1>6 DEF der_wrap
<1> HIDE DEF attrs
<1>10. attrs.kids = <<ContentType, StatementType, MessageDigest(d)>>
  BY <1>7, AttributesSorted DEF der_wrap
<1>11. /\ MessageDigest(d).kids[1].prim = <<"message_digest">>
       /\ MessageDigest(d).kids[2].kids[1].prim = sha256_content(content)
  <2> DEFINE v == der_octet_string(sha256_content(d), 32)
  <2>1. MessageDigest(d) = der_wrap(48, <<der_oid("message_digest"), der_wrap(SETOF, <<v>>)>>)
    BY AttributeIs DEF MessageDigest
  <2>2. MessageDigest(d).kids[1] = der_oid("message_digest") /\ MessageDigest(d).kids[2].kids[1] = v
    <3> HIDE DEF v
    <3> QED BY <2>1 DEF der_wrap
  <2> QED BY <1>4, <2>2 DEF der_oid, der_octet_string, Prim
<1>12. \E i \in DOMAIN attrs.kids :
         /\ attrs.kids[i].kids[1].prim = <<"message_digest">>
         /\ attrs.kids[i].kids[2].kids[1].prim = sha256_content(content)
  <2>1. 3 \in DOMAIN attrs.kids /\ attrs.kids[3] = MessageDigest(d)
    BY <1>10
  <2> QED BY <1>11, <2>1
<1>13. \A i \in 1 .. (Len(attrs.kids) - 1) : attrs.kids[i].len <= attrs.kids[i + 1].len
  <2>1. /\ Len(attrs.kids) = 3 /\ attrs.kids[1] = ContentType /\ attrs.kids[2] = StatementType
        /\ attrs.kids[3] = MessageDigest(d)
    BY <1>10
  <2>2. attrs.kids[1].len = 25 /\ attrs.kids[2].len = 28 /\ attrs.kids[3].len = 47
    BY <2>1, AttributeLengths
  <2> QED BY <2>1, <2>2
<1> HIDE DEF e
<1> QED BY <1>5, <1>8, <1>9, <1>12, <1>13, Zenon
        DEF Verifies, e, sd, signer, attrs, content, certs, id
-----------------------------------------------------------------------------
\* What the program writes it can read.

\* The partial sums of the lengths of a sequence's elements.
Sums(s, q) ==
  /\ q[0] = 0 /\ \A i \in 0 .. Len(s) : q[i] \in Nat
  /\ \A i \in 1 .. Len(s) : q[i] = q[i - 1] + TotalLen(s[i])

\* They never decrease.
LEMMA SumsGrow ==
  ASSUME NEW s, Measured(s), NEW q, Sums(s, q), NEW i \in 0 .. Len(s), NEW k \in 0 .. Len(s), i <= k
  PROVE  q[i] <= q[k]
<1> DEFINE n == Len(s)
           Bad == {m \in i .. n : ~(q[i] <= q[m])}
<1>1. /\ n \in Nat /\ \A m \in 1 .. n : TotalLen(s[m]) \in Nat
      /\ \A m \in 0 .. n : q[m] \in Nat
      /\ \A m \in 1 .. n : q[m] = q[m - 1] + TotalLen(s[m])
  BY TotalLenNat DEF Measured, Sums
<1> HIDE DEF n
<1>2. CASE Bad = {}
  <2>1. k \in i .. n
    BY <1>1 DEF n
  <2> QED BY <1>2, <2>1
<1>3. CASE Bad # {}
  <2>0. i \in Nat /\ i \in 0 .. n
    BY <1>1 DEF n
  <2>1. Bad \in SUBSET Nat
    BY <1>1, <2>0
  <2>2. PICK m \in Bad : \A y \in Bad : m <= y
    BY <1>3, <2>1, LeastNatural
  <2>3. m # i
    BY <1>1, <2>0, <2>2
  <2>4. m \in 1 .. n /\ m - 1 \in i .. n /\ m - 1 \in 0 .. n /\ ~(m <= m - 1) /\ m \in 0 .. n
    BY <1>1, <2>0, <2>2, <2>3
  <2>5. q[i] <= q[m - 1]
    BY <2>2, <2>4
  <2>6. PICK a \in Nat, b \in Nat, t \in Nat : a = q[i] /\ b = q[m - 1] /\ t = TotalLen(s[m])
    BY <1>1, <2>0, <2>4
  <2>7. q[m] = b + t
    BY <1>1, <2>4, <2>6
  <2>8. a <= b + t
    BY <2>5, <2>6
  <2> QED BY <2>2, <2>6, <2>7, <2>8
<1> QED BY <1>2, <1>3

\* The length of the first elements is the partial sum.
LEMMA PrefixSum ==
  ASSUME NEW s, Measured(s), NEW q, Sums(s, q), NEW k \in 0 .. Len(s)
  PROVE  LenOf(SubSeq(s, 1, k)) = q[k]
<1> DEFINE n == Len(s)
           t == SubSeq(s, 1, k)
<1>1. PICK S : s \in Seq(S)
  BY DEF Measured
<1>2. n \in Nat /\ DOMAIN s = 1 .. n /\ \A i \in 1 .. n : s[i].len \in Nat
  BY DEF Measured
<1>3. k \in Nat /\ k <= n
  BY <1>2
<1>4. t \in Seq(S) /\ Len(t) = k /\ \A i \in 1 .. k : t[i] = s[i]
  BY <1>1, <1>3
<1> HIDE DEF t
<1>5. DOMAIN t = 1 .. k
  BY <1>4, SeqFacts
<1>6. Measured(t)
  BY <1>2, <1>3, <1>4, <1>5 DEF Measured
<1>7. PICK r : /\ r[0] = 0 /\ \A i \in 1 .. Len(t) : r[i] = r[i - 1] + TotalLen(t[i])
               /\ LenOf(t) = r[Len(t)]
  BY <1>6, LenOfSums
<1> DEFINE w == [i \in 1 .. k |-> TotalLen(s[i])]
<1>8. SameSums(k, r, q, w)
  <2>1. ASSUME NEW i \in 1 .. k PROVE r[i] = r[i - 1] + w[i] /\ q[i] = q[i - 1] + w[i]
    <3>1. i \in 1 .. n /\ i \in 1 .. Len(t) /\ t[i] = s[i]
      BY <1>2, <1>3, <1>4
    <3> QED BY <1>7, <3>1 DEF Sums
  <2>2. r[0] = q[0]
    BY <1>7 DEF Sums
  <2> HIDE DEF w
  <2> QED BY <2>1, <2>2 DEF SameSums
<1>9. r[k] = q[k]
  <2> HIDE DEF w
  <2> QED BY <1>3, <1>8, SumsAgree
<1> QED BY <1>4, <1>7, <1>9 DEF t

\* An element whose declared length is that of the elements in it.
Wrapped(e) == Measured(e.kids) /\ e.len = LenOf(e.kids)

\* Each of them is shorter.
LEMMA KidShorter ==
  ASSUME NEW e, Wrapped(e)
  PROVE  e.len \in Nat /\ \A i \in 1 .. Len(e.kids) : TotalLen(e.kids[i]) <= e.len /\ e.kids[i].len < e.len
<1> DEFINE s == e.kids
           n == Len(s)
<1>1. Measured(s) /\ e.len = LenOf(s)
  BY DEF Wrapped
<1> HIDE DEF s
<1>2. PICK q : Sums(s, q) /\ LenOf(s) = q[n]
  BY <1>1, LenOfSums DEF Sums
<1>3. n \in Nat /\ \A i \in 1 .. n : s[i].len \in Nat
  BY <1>1 DEF Measured
<1>4. q[n] \in Nat
  BY <1>2, <1>3 DEF Sums
<1>5. ASSUME NEW i \in 1 .. n PROVE TotalLen(s[i]) <= q[n] /\ s[i].len < q[n]
  <2>1. i \in 0 .. n /\ i - 1 \in 0 .. n /\ n \in 0 .. n /\ i <= n
    BY <1>3
  <2>2. q[i] <= q[n]
    BY <1>1, <1>2, <2>1, SumsGrow
  <2>3. PICK a \in Nat, b \in Nat : a = q[i - 1] /\ b = q[i]
    BY <1>2, <2>1 DEF Sums
  <2>4. PICK t \in Nat, l \in Nat : t = TotalLen(s[i]) /\ l = s[i].len /\ t >= l + 2
    BY <1>3, TotalLenNat
  <2>5. b = a + t
    BY <1>2, <2>3, <2>4 DEF Sums
  <2>6. PICK m \in Nat : m = q[n]
    BY <1>4
  <2>7. t <= m /\ l < m
    BY <2>2, <2>3, <2>4, <2>5, <2>6
  <2> QED BY <2>4, <2>6, <2>7
<1> QED BY <1>1, <1>2, <1>4, <1>5 DEF s

\* The elements of such an element are found one after the other, and nothing trails.
LEMMA WrapFramed ==
  ASSUME NEW e, Wrapped(e), e.len < Limit32
  PROVE  Framed(e)
<1> DEFINE s == e.kids
           n == Len(s)
<1>1. Measured(s) /\ e.len = LenOf(s) /\ e.len \in Nat
  BY KidShorter DEF Wrapped
<1>2. \A i \in 1 .. n : s[i].len < e.len
  BY KidShorter
<1>3. n \in Nat /\ \A i \in 1 .. n : s[i].len \in Nat
  BY <1>1 DEF Measured
<1> HIDE DEF s
<1>4. PICK q : Sums(s, q) /\ LenOf(s) = q[n]
  BY <1>1, LenOfSums DEF Sums
<1>5. Limit32 \in Nat
  <2>1. Powers[4] \in Nat
    BY PowersAre
  <2> QED BY <2>1 DEF Limit32
<1>6. ASSUME NEW i \in 1 .. n
      PROVE  LET left == e.len - LenOf(SubSeq(s, 1, i - 1))
                 tlv  == der_read_tlv(write_length(s[i].len), left)
             IN  tlv.ok /\ tlv.total_len = TotalLen(s[i])
  <2>1. i \in 0 .. n /\ i - 1 \in 0 .. n /\ n \in 0 .. n /\ i <= n
    BY <1>3
  <2>2. LenOf(SubSeq(s, 1, i - 1)) = q[i - 1]
    BY <1>1, <1>4, <2>1, PrefixSum
  <2>3. q[i] <= q[n]
    BY <1>1, <1>4, <2>1, SumsGrow
  <2>4. PICK a \in Nat, b \in Nat, c \in Nat : a = q[i - 1] /\ b = q[i] /\ c = e.len /\ c = q[n]
    BY <1>1, <1>4, <2>1 DEF Sums
  <2>5. PICK l \in Nat, t \in Nat : l = s[i].len /\ t = TotalLen(s[i])
    BY <1>3, TotalLenNat
  <2>6. b = a + t
    BY <1>4, <2>4, <2>5 DEF Sums
  <2>7. c - a \in Nat /\ t <= c - a
    BY <2>3, <2>4, <2>6
  <2>8. t = 1 + Len(write_length(l)) + l
    BY <2>5 DEF TotalLen
  <2>9. l < Limit32
    BY <1>2, <1>5, <2>4, <2>5
  <2>10. der_read_tlv(write_length(l), c - a)
           = [ok |-> TRUE, total_len |-> 1 + Len(write_length(l)) + l]
    BY <2>7, <2>8, <2>9, ReadBack
  <2> QED BY <2>2, <2>4, <2>5, <2>8, <2>10
<1>7. Takes(e, n)
  <2>1. n <= Len(e.kids)
    BY <1>3 DEF s
  <2> QED BY <1>6, <2>1, Zenon DEF Takes, s
<1> QED BY <1>1, <1>7, Zenon DEF Framed, s
\* A concatenation, given by its elements.
Joins(S, s, t, u, m, k) ==
  /\ s \in Seq(S) /\ t \in Seq(S) /\ u \in Seq(S) /\ m \in Nat /\ k \in Nat
  /\ Len(s) = m /\ Len(t) = k /\ Len(u) = m + k
  /\ \A i \in 1 .. m : u[i] = s[i]
  /\ \A i \in 1 .. k : u[m + i] = t[i]

LEMMA JoinIs ==
  ASSUME NEW S, NEW s, NEW t, NEW u, NEW m, NEW k, Joins(S, s, t, u, m, k)
  PROVE  s \o t = u
<1>0. /\ s \in Seq(S) /\ t \in Seq(S) /\ u \in Seq(S) /\ m \in Nat /\ k \in Nat
      /\ Len(s) = m /\ Len(t) = k /\ Len(u) = m + k
      /\ \A i \in 1 .. m : u[i] = s[i]
      /\ \A i \in 1 .. k : u[m + i] = t[i]
  BY DEF Joins
<1>1. /\ s \o t \in Seq(S) /\ Len(s \o t) = m + k
      /\ \A i \in 1 .. m + k : (s \o t)[i] = IF i <= m THEN s[i] ELSE t[i - m]
  BY <1>0, ConcatProperties
<1>2. ASSUME NEW i \in 1 .. m + k PROVE (s \o t)[i] = u[i]
  <2>1. CASE i <= m
    <3>1. i \in 1 .. m
      BY <1>0, <2>1
    <3> QED BY <1>0, <1>1, <2>1, <3>1
  <2>2. CASE ~(i <= m)
    <3>1. i - m \in 1 .. k /\ m + (i - m) = i
      BY <1>0, <2>2
    <3>2. u[m + (i - m)] = t[i - m]
      BY <1>0, <3>1
    <3> QED BY <1>0, <1>1, <2>2, <3>1, <3>2
  <2> QED BY <2>1, <2>2
<1> QED BY <1>0, <1>1, <1>2, SeqEqual

LEMMA JoinThreeOne ==
  ASSUME NEW a, NEW b, NEW c, NEW x
  PROVE  <<a, b, c>> \o <<x>> = <<a, b, c, x>>
<1> DEFINE S == {a, b, c, x}
           s == <<a, b, c>>
           t == <<x>>
           u == <<a, b, c, x>>
<1>1. s \in Seq(S) /\ t \in Seq(S) /\ u \in Seq(S) /\ Len(s) = 3 /\ Len(t) = 1 /\ Len(u) = 3 + 1
  OBVIOUS
<1>2. \A i \in 1 .. 3 : u[i] = s[i]
  OBVIOUS
<1>3. \A i \in 1 .. 1 : u[3 + i] = t[i]
  OBVIOUS
<1> HIDE DEF S, s, t, u
<1>4. Joins(S, s, t, u, 3, 1)
  BY <1>1, <1>2, <1>3 DEF Joins
<1>5. s \o t = u
  BY <1>4, JoinIs, Zenon
<1> QED BY <1>5 DEF s, t, u

LEMMA JoinFourOne ==
  ASSUME NEW a, NEW b, NEW c, NEW x, NEW y
  PROVE  <<a, b, c, x>> \o <<y>> = <<a, b, c, x, y>>
<1> DEFINE S == {a, b, c, x, y}
           s == <<a, b, c, x>>
           t == <<y>>
           u == <<a, b, c, x, y>>
<1>1. s \in Seq(S) /\ t \in Seq(S) /\ u \in Seq(S) /\ Len(s) = 4 /\ Len(t) = 1 /\ Len(u) = 4 + 1
  OBVIOUS
<1>2. \A i \in 1 .. 4 : u[i] = s[i]
  OBVIOUS
<1>3. \A i \in 1 .. 1 : u[4 + i] = t[i]
  OBVIOUS
<1> HIDE DEF S, s, t, u
<1>4. Joins(S, s, t, u, 4, 1)
  BY <1>1, <1>2, <1>3 DEF Joins
<1>5. s \o t = u
  BY <1>4, JoinIs, Zenon
<1> QED BY <1>5 DEF s, t, u

LEMMA JoinFourTwo ==
  ASSUME NEW a, NEW b, NEW c, NEW x, NEW y, NEW z
  PROVE  <<a, b, c, x>> \o <<y, z>> = <<a, b, c, x, y, z>>
<1> DEFINE S == {a, b, c, x, y, z}
           s == <<a, b, c, x>>
           t == <<y, z>>
           u == <<a, b, c, x, y, z>>
<1>1. s \in Seq(S) /\ t \in Seq(S) /\ u \in Seq(S) /\ Len(s) = 4 /\ Len(t) = 2 /\ Len(u) = 4 + 2
  OBVIOUS
<1>2. \A i \in 1 .. 4 : u[i] = s[i]
  OBVIOUS
<1>3. \A i \in 1 .. 2 : u[4 + i] = t[i]
  OBVIOUS
<1> HIDE DEF S, s, t, u
<1>4. Joins(S, s, t, u, 4, 2)
  BY <1>1, <1>2, <1>3 DEF Joins
<1>5. s \o t = u
  BY <1>4, JoinIs, Zenon
<1> QED BY <1>5 DEF s, t, u

LEMMA JoinSixOne ==
  ASSUME NEW a, NEW b, NEW c, NEW x, NEW y, NEW z, NEW w
  PROVE  <<a, b, c, x, y, z>> \o <<w>> = <<a, b, c, x, y, z, w>>
<1> DEFINE S == {a, b, c, x, y, z, w}
           s == <<a, b, c, x, y, z>>
           t == <<w>>
           u == <<a, b, c, x, y, z, w>>
<1>1. s \in Seq(S) /\ t \in Seq(S) /\ u \in Seq(S) /\ Len(s) = 6 /\ Len(t) = 1 /\ Len(u) = 6 + 1
  OBVIOUS
<1>2. \A i \in 1 .. 6 : u[i] = s[i]
  OBVIOUS
<1>3. \A i \in 1 .. 1 : u[6 + i] = t[i]
  OBVIOUS
<1> HIDE DEF S, s, t, u
<1>4. Joins(S, s, t, u, 6, 1)
  BY <1>1, <1>2, <1>3 DEF Joins
<1>5. s \o t = u
  BY <1>4, JoinIs, Zenon
<1> QED BY <1>5 DEF s, t, u

\* The fields that are written have tags that the readers accept.
LEMMA DataTagsAccepted ==
  \E certs \in Optional(Context(0)), crls \in Optional(Context(1)) :
    <<INTEGER, SETOF, SEQUENCE, Context(0), SETOF>>
      = <<INTEGER, SETOF, SEQUENCE>> \o certs \o crls \o <<SETOF>>
<1>1. <<INTEGER, SETOF, SEQUENCE>> \o <<Context(0)>> = <<INTEGER, SETOF, SEQUENCE, Context(0)>>
  BY JoinThreeOne
<1>2. <<INTEGER, SETOF, SEQUENCE, Context(0)>> \o <<>> = <<INTEGER, SETOF, SEQUENCE, Context(0)>>
  OBVIOUS
<1>3. <<INTEGER, SETOF, SEQUENCE, Context(0)>> \o <<SETOF>>
        = <<INTEGER, SETOF, SEQUENCE, Context(0), SETOF>>
  BY JoinFourOne
<1>4. <<INTEGER, SETOF, SEQUENCE, Context(0), SETOF>>
        = <<INTEGER, SETOF, SEQUENCE>> \o <<Context(0)>> \o <<>> \o <<SETOF>>
  BY <1>1, <1>2, <1>3, Zenon
<1>5. <<Context(0)>> \in Optional(Context(0)) /\ <<>> \in Optional(Context(1))
  BY Zenon DEF Optional
<1> QED BY <1>4, <1>5, Zenon

LEMMA SignerTagsAccepted ==
  ASSUME NEW more \in {<<>>, <<Context(1)>>}
  PROVE  \E attrs \in Optional(Context(0)), unsigned \in Optional(Context(1)) :
           <<INTEGER, SEQUENCE, SEQUENCE, Context(0), SEQUENCE, OCTETS>> \o more
             = <<INTEGER, SEQUENCE, SEQUENCE>> \o attrs \o <<SEQUENCE, OCTETS>> \o unsigned
<1>1. <<INTEGER, SEQUENCE, SEQUENCE>> \o <<Context(0)>> = <<INTEGER, SEQUENCE, SEQUENCE, Context(0)>>
  BY JoinThreeOne
<1>2. <<INTEGER, SEQUENCE, SEQUENCE, Context(0)>> \o <<SEQUENCE, OCTETS>>
        = <<INTEGER, SEQUENCE, SEQUENCE, Context(0), SEQUENCE, OCTETS>>
  BY JoinFourTwo
<1>3. <<Context(0)>> \in Optional(Context(0)) /\ more \in Optional(Context(1))
  BY Zenon DEF Optional
<1>4. <<INTEGER, SEQUENCE, SEQUENCE, Context(0), SEQUENCE, OCTETS>> \o more
        = <<INTEGER, SEQUENCE, SEQUENCE>> \o <<Context(0)>> \o <<SEQUENCE, OCTETS>> \o more
  BY <1>1, <1>2, Zenon
<1> QED BY <1>3, <1>4, Zenon
\* What der_wrap makes.
LEMMA WrapHas ==
  ASSUME NEW t, NEW s
  PROVE  /\ der_wrap(t, s).tag = t /\ der_wrap(t, s).kids = s
         /\ der_wrap(t, s).len = LenOf(s)
  BY DEF der_wrap

LEMMA WrapWrapped ==
  ASSUME NEW t, NEW s, Measured(s)
  PROVE  Wrapped(der_wrap(t, s)) /\ der_wrap(t, s).len \in Nat
<1> DEFINE e == der_wrap(t, s)
<1>1. e.kids = s /\ e.len = LenOf(s)
  BY WrapHas
<1> HIDE DEF e
<1>2. Wrapped(e)
  BY <1>1 DEF Wrapped
<1>3. e.len \in Nat
  BY <1>2, KidShorter
<1> QED BY <1>2, <1>3 DEF e

\* Short sequences of elements that have lengths.
LEMMA OneMeasured ==
  ASSUME NEW a, a.len \in Nat
  PROVE  Measured(<<a>>)
<1> DEFINE s == <<a>>
<1>1. s \in Seq({a}) /\ Len(s) = 1 /\ s[1] = a /\ DOMAIN s = 1 .. 1
  OBVIOUS
<1> HIDE DEF s
<1>2. Measured(s)
  BY <1>1 DEF Measured
<1> QED BY <1>2 DEF s

LEMMA TwoMeasured ==
  ASSUME NEW a, NEW b, a.len \in Nat, b.len \in Nat
  PROVE  Measured(<<a, b>>)
<1> DEFINE s == <<a, b>>
<1>1. s \in Seq({a, b}) /\ Len(s) = 2 /\ s[1] = a /\ s[2] = b /\ DOMAIN s = 1 .. 2
  OBVIOUS
<1> HIDE DEF s
<1>2. Measured(s)
  BY <1>1 DEF Measured
<1> QED BY <1>2 DEF s

LEMMA ThreeMeasured ==
  ASSUME NEW a, NEW b, NEW c, a.len \in Nat, b.len \in Nat, c.len \in Nat
  PROVE  Measured(<<a, b, c>>)
<1> DEFINE s == <<a, b, c>>
<1>1. /\ s \in Seq({a, b, c}) /\ Len(s) = 3 /\ s[1] = a /\ s[2] = b /\ s[3] = c
      /\ DOMAIN s = 1 .. 3
  OBVIOUS
<1> HIDE DEF s
<1>2. Measured(s)
  BY <1>1 DEF Measured
<1> QED BY <1>2 DEF s

LEMMA FiveMeasured ==
  ASSUME NEW a, NEW b, NEW c, NEW x, NEW y,
         a.len \in Nat, b.len \in Nat, c.len \in Nat, x.len \in Nat, y.len \in Nat
  PROVE  Measured(<<a, b, c, x, y>>)
<1> DEFINE s == <<a, b, c, x, y>>
<1>1. /\ s \in Seq({a, b, c, x, y}) /\ Len(s) = 5 /\ s[1] = a /\ s[2] = b /\ s[3] = c
      /\ s[4] = x /\ s[5] = y /\ DOMAIN s = 1 .. 5
  OBVIOUS
<1> HIDE DEF s
<1>2. Measured(s)
  BY <1>1 DEF Measured
<1> QED BY <1>2 DEF s

\* An element that can be read back: the length of its content is declared right and
\* fits in four bytes.
Fits(e) == Wrapped(e) /\ e.len < Limit32

\* So do the wrapped elements in it.
LEMMA KidFits ==
  ASSUME NEW e, Fits(e), NEW i \in 1 .. Len(e.kids), Wrapped(e.kids[i])
  PROVE  Fits(e.kids[i])
<1>1. Limit32 \in Nat
  <2>1. Powers[4] \in Nat
    BY PowersAre
  <2> QED BY <2>1 DEF Limit32
<1>2. PICK n \in Nat, k \in Nat : n = e.len /\ k = e.kids[i].len /\ k < n /\ n < Limit32
  BY KidShorter DEF Fits
<1>3. k < Limit32
  BY <1>1, <1>2
<1> QED BY <1>2, <1>3 DEF Fits

LEMMA FitsFramed ==
  ASSUME NEW e, Fits(e)
  PROVE  Framed(e)
  BY WrapFramed DEF Fits

\* The identifiers, numbers and algorithms that are written.
LEMMA SmallParts ==
  /\ \A name : der_oid(name).tag = OID /\ der_oid(name).prim = <<name>> /\ der_oid(name).len \in Nat \ {0}
  /\ der_null.len \in Nat
  /\ der_integer("1").tag = INTEGER /\ der_integer("1").prim = <<"1">> /\ der_integer("1").len \in Nat
  BY DEF der_oid, der_null, der_integer, Prim

\* An algorithm as the program writes it is one cms_has_signer accepts.
Algorithm(name) == der_wrap(SEQUENCE, <<der_oid(name), der_null>>)

LEMMA AlgorithmWrapped ==
  ASSUME NEW name
  PROVE  /\ Wrapped(Algorithm(name)) /\ Algorithm(name).len \in Nat
         /\ Algorithm(name).tag = SEQUENCE
         /\ Fits(Algorithm(name)) => AlgorithmOk(Algorithm(name))
<1> DEFINE id == der_oid(name)
           nil == der_null
           s == <<id, nil>>
           a == der_wrap(SEQUENCE, s)
<1>1. id.len \in Nat \ {0} /\ nil.len \in Nat /\ id.tag = OID
  BY SmallParts
<1>2. Algorithm(name) = a
  BY DEF Algorithm
<1> HIDE DEF id, nil
<1>3. Measured(s) /\ Len(s) = 2 /\ s[1] = id
  BY <1>1, TwoMeasured
<1> HIDE DEF s
<1>4. Wrapped(a) /\ a.len \in Nat /\ a.tag = SEQUENCE /\ a.kids = s
  BY <1>3, WrapWrapped, WrapHas
<1> HIDE DEF a
<1>5. ASSUME Fits(a) PROVE AlgorithmOk(a)
  <2>1. Framed(a)
    BY <1>5, FitsFramed
  <2>2. id.len > 0
    BY <1>1
  <2> QED BY <1>1, <1>3, <1>4, <2>1, <2>2 DEF AlgorithmOk
<1> QED BY <1>2, <1>4, <1>5
\* The tags of one element and of two.
LEMMA TagsOfOne ==
  ASSUME NEW e, NEW a, e.kids = <<a>>
  PROVE  Tags(e) = <<a.tag>>
  BY DEF Tags

LEMMA TagsOfTwo ==
  ASSUME NEW e, NEW a, NEW b, e.kids = <<a, b>>
  PROVE  Tags(e) = <<a.tag, b.tag>>
  BY DEF Tags

\* An attribute that cms_has_signer accepts.
AttributeOk(attr) ==
  /\ attr.tag = SEQUENCE /\ Fields(attr, <<OID, SETOF>>)
  /\ attr.kids[1].len > 0
  /\ attr.kids[2].kids # <<>> /\ Framed(attr.kids[2])

\* It accepts those that are written.
LEMMA AttributeAccepted ==
  ASSUME NEW name, NEW v, v.len \in Nat
  PROVE  /\ Wrapped(Attribute(name, v)) /\ Attribute(name, v).len \in Nat
         /\ Fits(Attribute(name, v)) => AttributeOk(Attribute(name, v))
<1> DEFINE id == der_oid(name)
           one == <<v>>
           values == der_wrap(SETOF, one)
           s == <<id, values>>
           a == der_wrap(SEQUENCE, s)
<1>1. id.len \in Nat \ {0} /\ id.tag = OID
  BY SmallParts
<1>2. Attribute(name, v) = a
  BY AttributeIs DEF SEQUENCE
<1>3. Measured(one) /\ one # <<>>
  BY OneMeasured
<1> HIDE DEF id, one
<1>4. Wrapped(values) /\ values.len \in Nat /\ values.tag = SETOF /\ values.kids = one
  BY <1>3, WrapWrapped, WrapHas
<1> HIDE DEF values
<1>5. Measured(s) /\ Len(s) = 2 /\ s[1] = id /\ s[2] = values
  BY <1>1, <1>4, TwoMeasured
<1>6. Wrapped(a) /\ a.len \in Nat /\ a.tag = SEQUENCE /\ a.kids = s
  BY <1>5, WrapWrapped, WrapHas
<1>7. Tags(a) = <<OID, SETOF>>
  <2> HIDE DEF a
  <2>1. Tags(a) = <<id.tag, values.tag>>
    BY <1>6, TagsOfTwo
  <2> QED BY <1>1, <1>4, <2>1
<1> HIDE DEF a, s
<1>8. ASSUME Fits(a) PROVE AttributeOk(a)
  <2>1. Framed(a)
    BY <1>8, FitsFramed
  <2>2. 2 \in 1 .. Len(a.kids) /\ a.kids[2] = values /\ a.kids[1] = id
    <3>1. Len(a.kids) = 2 /\ a.kids[2] = values /\ a.kids[1] = id
      BY <1>5, <1>6, Zenon
    <3>2. 2 \in 1 .. 2
      OBVIOUS
    <3> QED BY <3>1, <3>2, Zenon
  <2>3. Framed(values)
    BY <1>4, <1>8, <2>2, KidFits, FitsFramed
  <2>4. id.len > 0
    BY <1>1
  <2>5. Fields(a, <<OID, SETOF>>)
    BY <1>7, <2>1 DEF Fields
  <2> QED BY <1>3, <1>4, <1>6, <2>2, <2>3, <2>4, <2>5 DEF AttributeOk
<1> QED BY <1>2, <1>6, <1>8

LEMMA AttributesAccepted ==
  ASSUME NEW attrs, Fits(attrs), Len(attrs.kids) > 0,
         \A i \in 1 .. Len(attrs.kids) : \E name, v : v.len \in Nat /\ attrs.kids[i] = Attribute(name, v)
  PROVE  AttributesOk(attrs)
<1>1. Framed(attrs)
  BY FitsFramed
<1>2. DOMAIN attrs.kids = 1 .. Len(attrs.kids) /\ attrs.kids # <<>>
  BY DEF Fits, Wrapped, Measured
<1>3. ASSUME NEW i \in 1 .. Len(attrs.kids) PROVE AttributeOk(attrs.kids[i])
  <2>1. PICK name, v : v.len \in Nat /\ attrs.kids[i] = Attribute(name, v)
    OBVIOUS
  <2>2. Wrapped(attrs.kids[i])
    BY <2>1, AttributeAccepted
  <2>3. Fits(attrs.kids[i])
    BY <2>2, KidFits
  <2> QED BY <2>1, <2>3, AttributeAccepted
<1> QED BY <1>1, <1>2, <1>3, Zenon DEF AttributesOk, AttributeOk

\* The signed attributes are accepted.
LEMMA SignedAttributes ==
  ASSUME NEW d, NEW attrs, attrs = der_implicit(0, build_auth_attrs(d))
  PROVE  /\ Wrapped(attrs) /\ attrs.len \in Nat /\ attrs.tag = Context(0)
         /\ Fits(attrs) => AttributesOk(attrs)
<1> DEFINE a == ContentType
           b == StatementType
           c == MessageDigest(d)
           s == <<a, b, c>>
<1>1. a.len \in Nat /\ b.len \in Nat /\ c.len \in Nat
  BY AttributeLengths
<1>2. attrs = [tag |-> Context(0), len |-> LenOf(s), prim |-> <<>>, kids |-> s]
  <2>1. build_auth_attrs(d) = [tag |-> SETOF, len |-> LenOf(s), prim |-> <<>>, kids |-> s]
    BY AttributesSorted DEF der_wrap
  <2> HIDE DEF s
  <2> QED BY <2>1 DEF der_implicit
<1>3. \E name, v : v.len \in Nat /\ a = Attribute(name, v)
  BY SmallParts DEF ContentType
<1>4. \E name, v : v.len \in Nat /\ b = Attribute(name, v)
  <2>1. der_sequence(<<der_oid("individual")>>).len \in Nat
    BY SmallParts, OneMeasured, WrapWrapped DEF der_sequence
  <2> QED BY <2>1 DEF StatementType
<1>5. \E name, v : v.len \in Nat /\ c = Attribute(name, v)
  <2>1. der_octet_string(sha256_content(d), 32).len \in Nat
    BY DEF der_octet_string, Prim
  <2> QED BY <2>1 DEF MessageDigest
<1> HIDE DEF a, b, c
<1>6. Measured(s) /\ Len(s) = 3 /\ s[1] = a /\ s[2] = b /\ s[3] = c
  BY <1>1, ThreeMeasured
<1> HIDE DEF s
<1>7. attrs.kids = s /\ attrs.len = LenOf(s) /\ attrs.tag = Context(0)
  BY <1>2
<1>8. Wrapped(attrs)
  BY <1>6, <1>7 DEF Wrapped
<1>9. attrs.len \in Nat
  BY <1>8, KidShorter
<1>10. ASSUME Fits(attrs) PROVE AttributesOk(attrs)
  <2>1. \A i \in 1 .. Len(attrs.kids) : \E name, v : v.len \in Nat /\ attrs.kids[i] = Attribute(name, v)
    BY <1>3, <1>4, <1>5, <1>6, <1>7
  <2> QED BY <1>6, <1>7, <1>10, <2>1, AttributesAccepted
<1> QED BY <1>7, <1>8, <1>9, <1>10
\* A leaf certificate whose issuer is a name and whose serial number is a number,
\* neither of them empty.
ProperLeaf(leaf) ==
  LET id == x509_cert_id(leaf)
  IN  /\ id.issuer.tag = SEQUENCE /\ id.serial.tag = INTEGER
      /\ id.issuer.len \in Nat \ {0} /\ id.serial.len \in Nat \ {0}

\* The fields of a signer as the program writes them, and those that osslsigncode adds
\* a timestamp to.
SignerLike(fields, d, leaf) ==
  /\ SignedBy(fields, d, leaf) /\ Measured(fields) /\ Len(fields) \in {6, 7}
  /\ Len(fields) = 7 => fields[7].tag = Context(1) /\ AttributesOk(fields[7])

LEMMA SignerParts ==
  ASSUME NEW fields, NEW d, NEW leaf, SignedBy(fields, d, leaf)
  PROVE  /\ fields[1] = der_integer("1")
         /\ fields[3] = Algorithm("sha256")
         /\ fields[5] = Algorithm("rsa")
         /\ fields[6].tag = OCTETS /\ fields[6].len = 384
<1>1. 1 \in 1 .. 6 /\ 3 \in 1 .. 6 /\ 5 \in 1 .. 6 /\ 6 \in 1 .. 6
  OBVIOUS
<1> DEFINE own == SignerFields(d, <<"rsa", cms_auth_attrs_hash(d)>>, x509_cert_id(leaf))
<1>2. /\ own[1] = der_integer("1")
      /\ own[3] = Algorithm("sha256")
      /\ own[5] = Algorithm("rsa")
      /\ own[6] = der_octet_string(<<"rsa", cms_auth_attrs_hash(d)>>, 384)
  BY DEF SignerFields, der_sequence, Algorithm, sha256_alg_id
<1>3. \A i \in 1 .. 6 : fields[i] = own[i]
  BY DEF SignedBy
<1> HIDE DEF own
<1>4. fields[6] = der_octet_string(<<"rsa", cms_auth_attrs_hash(d)>>, 384)
  BY <1>1, <1>2, <1>3
<1>5. fields[6].tag = OCTETS /\ fields[6].len = 384
  BY <1>4 DEF der_octet_string, Prim
<1> QED BY <1>1, <1>2, <1>3, <1>5

\* Who signed is named by the leaf certificate.
LEMMA SignerNamed ==
  ASSUME NEW fields, NEW d, NEW leaf, SignedBy(fields, d, leaf), ProperLeaf(leaf)
  PROVE  LET f == fields[2]
         IN  /\ Wrapped(f) /\ f.tag = SEQUENCE /\ Tags(f) = <<SEQUENCE, INTEGER>>
             /\ f.kids[1].len > 0 /\ f.kids[2].len > 0
<1> DEFINE f == fields[2]
           a == x509_cert_id(leaf).issuer
           b == x509_cert_id(leaf).serial
           s == <<a, b>>
<1>1. f = der_wrap(SEQUENCE, s)
  <2>1. fields[2] = der_wrap(SEQUENCE, <<x509_cert_id(leaf).issuer, x509_cert_id(leaf).serial>>)
    BY SignerHas, ZenonT(60)
  <2> QED BY <2>1, Zenon
<1>2. a.len \in Nat \ {0} /\ b.len \in Nat \ {0} /\ a.tag = SEQUENCE /\ b.tag = INTEGER
  BY DEF ProperLeaf
<1>3. a.len > 0 /\ b.len > 0
  BY <1>2
<1> HIDE DEF a, b
<1>4. Measured(s) /\ s[1] = a /\ s[2] = b
  BY <1>2, TwoMeasured
<1>5. Wrapped(f) /\ f.tag = SEQUENCE /\ f.kids = s
  <2> HIDE DEF s, f
  <2> QED BY <1>1, <1>4, WrapWrapped, WrapHas
<1>6. Tags(f) = <<SEQUENCE, INTEGER>>
  <2> HIDE DEF f
  <2>1. Tags(f) = <<a.tag, b.tag>>
    BY <1>5, TagsOfTwo
  <2> QED BY <1>2, <2>1
<1> HIDE DEF s, f
<1> QED BY <1>3, <1>4, <1>5, <1>6 DEF f

\* The tags of the fields.
LEMMA SignerTags ==
  ASSUME NEW fields, NEW d, NEW leaf, SignerLike(fields, d, leaf), ProperLeaf(leaf)
  PROVE  /\ fields[1].tag = INTEGER /\ fields[2].tag = SEQUENCE /\ fields[3].tag = SEQUENCE
         /\ fields[4].tag = Context(0) /\ fields[5].tag = SEQUENCE /\ fields[6].tag = OCTETS
<1>0. SignedBy(fields, d, leaf)
  BY DEF SignerLike
<1>1. fields[1].tag = INTEGER
  BY <1>0, SignerParts, SmallParts
<1>2. fields[2].tag = SEQUENCE
  BY <1>0, SignerNamed
<1>3. fields[3].tag = SEQUENCE /\ fields[5].tag = SEQUENCE
  BY <1>0, SignerParts, AlgorithmWrapped
<1>4. fields[4].tag = Context(0)
  <2>1. fields[4] = der_implicit(0, build_auth_attrs(d))
    BY <1>0, SignerHas, Zenon
  <2> QED BY <2>1, SignedAttributes
<1>5. fields[6].tag = OCTETS
  BY <1>0, SignerParts
<1> QED BY <1>1, <1>2, <1>3, <1>4, <1>5

LEMMA SignerTagged ==
  ASSUME NEW fields, NEW d, NEW leaf, SignerLike(fields, d, leaf), ProperLeaf(leaf),
         NEW signer, signer.kids = fields
  PROVE  \E more \in {<<>>, <<Context(1)>>} :
           Tags(signer) = <<INTEGER, SEQUENCE, SEQUENCE, Context(0), SEQUENCE, OCTETS>> \o more
<1>1. /\ fields[1].tag = INTEGER /\ fields[2].tag = SEQUENCE /\ fields[3].tag = SEQUENCE
      /\ fields[4].tag = Context(0) /\ fields[5].tag = SEQUENCE /\ fields[6].tag = OCTETS
  BY SignerTags
<1>2. DOMAIN fields = 1 .. Len(fields) /\ Len(fields) \in {6, 7}
  BY DEF SignerLike, Measured
<1>3. CASE Len(fields) = 6
  <2>1. Tags(signer) = [i \in 1 .. 6 |-> fields[i].tag]
    BY <1>2, <1>3 DEF Tags
  <2>2. [i \in 1 .. 6 |-> fields[i].tag]
          = <<fields[1].tag, fields[2].tag, fields[3].tag, fields[4].tag, fields[5].tag, fields[6].tag>>
    OBVIOUS
  <2>3. Tags(signer) = <<INTEGER, SEQUENCE, SEQUENCE, Context(0), SEQUENCE, OCTETS>>
    BY <1>1, <2>1, <2>2, Zenon
  <2>4. <<INTEGER, SEQUENCE, SEQUENCE, Context(0), SEQUENCE, OCTETS>> \o <<>>
          = <<INTEGER, SEQUENCE, SEQUENCE, Context(0), SEQUENCE, OCTETS>>
    OBVIOUS
  <2> QED BY <2>3, <2>4, Zenon
<1>4. CASE Len(fields) = 7
  <2>0. fields[7].tag = Context(1)
    BY <1>4 DEF SignerLike
  <2>1. Tags(signer) = [i \in 1 .. 7 |-> fields[i].tag]
    BY <1>2, <1>4 DEF Tags
  <2>2. [i \in 1 .. 7 |-> fields[i].tag]
          = <<fields[1].tag, fields[2].tag, fields[3].tag, fields[4].tag, fields[5].tag, fields[6].tag,
              fields[7].tag>>
    OBVIOUS
  <2>3. Tags(signer) = <<INTEGER, SEQUENCE, SEQUENCE, Context(0), SEQUENCE, OCTETS, Context(1)>>
    BY <1>1, <2>0, <2>1, <2>2, Zenon
  <2>4. <<INTEGER, SEQUENCE, SEQUENCE, Context(0), SEQUENCE, OCTETS>> \o <<Context(1)>>
          = <<INTEGER, SEQUENCE, SEQUENCE, Context(0), SEQUENCE, OCTETS, Context(1)>>
    BY JoinSixOne
  <2> QED BY <2>3, <2>4, Zenon
<1> QED BY <1>2, <1>3, <1>4

\* cms_has_signer accepts such a signer.
LEMMA SignerAccepted ==
  ASSUME NEW fields, NEW d, NEW leaf, SignerLike(fields, d, leaf), ProperLeaf(leaf),
         NEW signer, signer = der_wrap(SEQUENCE, fields), Fits(signer)
  PROVE  SignerOk(signer)
<1>0. SignedBy(fields, d, leaf) /\ Len(fields) \in {6, 7} /\ DOMAIN fields = 1 .. Len(fields)
  BY DEF SignerLike, Measured
<1>1. signer.tag = SEQUENCE /\ signer.kids = fields
  BY WrapHas
<1>2. Framed(signer)
  BY FitsFramed
<1>3. \E attrs \in Optional(Context(0)), unsigned \in Optional(Context(1)) :
        Tags(signer) = <<INTEGER, SEQUENCE, SEQUENCE>> \o attrs \o <<SEQUENCE, OCTETS>> \o unsigned
  <2>1. PICK more \in {<<>>, <<Context(1)>>} :
          Tags(signer) = <<INTEGER, SEQUENCE, SEQUENCE, Context(0), SEQUENCE, OCTETS>> \o more
    BY <1>1, SignerTagged
  <2> QED BY <2>1, SignerTagsAccepted, Zenon
<1>4. \A i \in 1 .. 6 : i \in 1 .. Len(signer.kids) /\ signer.kids[i] = fields[i]
  BY <1>0, <1>1
<1>5. 1 \in 1 .. 6 /\ 2 \in 1 .. 6 /\ 3 \in 1 .. 6 /\ 4 \in 1 .. 6 /\ 5 \in 1 .. 6 /\ 6 \in 1 .. 6
  OBVIOUS
<1>6. fields[1].prim = <<"1">>
  BY <1>0, SignerParts, SmallParts
<1>7. Fields(fields[2], <<SEQUENCE, INTEGER>>) /\ fields[2].kids[1].len > 0 /\ fields[2].kids[2].len > 0
  <2>1. /\ Wrapped(fields[2]) /\ Tags(fields[2]) = <<SEQUENCE, INTEGER>>
        /\ fields[2].kids[1].len > 0 /\ fields[2].kids[2].len > 0
    BY <1>0, SignerNamed
  <2>2. Framed(fields[2])
    BY <1>4, <1>5, <2>1, KidFits, FitsFramed
  <2> QED BY <2>1, <2>2 DEF Fields
<1>8. AlgorithmOk(fields[3])
  <2>1. fields[3] = Algorithm("sha256")
    BY <1>0, SignerParts
  <2>2. Fits(fields[3])
    BY <1>4, <1>5, <2>1, AlgorithmWrapped, KidFits
  <2> QED BY <2>1, <2>2, AlgorithmWrapped
<1>9. AlgorithmOk(fields[5])
  <2>1. fields[5] = Algorithm("rsa")
    BY <1>0, SignerParts
  <2>2. Fits(fields[5])
    BY <1>4, <1>5, <2>1, AlgorithmWrapped, KidFits
  <2> QED BY <2>1, <2>2, AlgorithmWrapped
<1>10. AttributesOk(fields[4])
  <2>1. fields[4] = der_implicit(0, build_auth_attrs(d))
    BY <1>0, SignerHas, ZenonT(60)
  <2>2. Wrapped(fields[4])
    BY <2>1, SignedAttributes
  <2>3. Fits(fields[4])
    BY <1>4, <1>5, <2>2, KidFits
  <2> QED BY <2>1, <2>3, SignedAttributes
<1>11. fields[6].len > 0
  <2>1. fields[6].len = 384
    BY <1>0, SignerParts
  <2> QED BY <2>1
<1>12. /\ fields[1].tag = INTEGER /\ fields[2].tag = SEQUENCE /\ fields[3].tag = SEQUENCE
       /\ fields[4].tag = Context(0) /\ fields[5].tag = SEQUENCE /\ fields[6].tag = OCTETS
  BY SignerTags
<1>13. Len(fields) = 7 => fields[7].tag = Context(1) /\ AttributesOk(fields[7])
  BY DEF SignerLike
<1> DEFINE only(tag) == CHOOSE i \in DOMAIN fields : fields[i].tag = tag
           first(tag) == fields[only(tag)]
<1>14. /\ \A i \in DOMAIN fields : fields[i].tag = OCTETS <=> i = 6
       /\ \A i \in DOMAIN fields : fields[i].tag = Context(0) <=> i = 4
       /\ \A i \in DOMAIN fields : fields[i].tag = Context(1) <=> i = 7
  <2>1. /\ INTEGER = 2 /\ SEQUENCE = 48 /\ OCTETS = 4 /\ Context(0) = 160 /\ Context(1) = 161
    BY DEF INTEGER, SEQUENCE, OCTETS, Context
  <2>2. ASSUME NEW i \in DOMAIN fields
        PROVE  /\ fields[i].tag = OCTETS <=> i = 6
               /\ fields[i].tag = Context(0) <=> i = 4
               /\ fields[i].tag = Context(1) <=> i = 7
    <3>1. \/ i = 1 \/ i = 2 \/ i = 3 \/ i = 4 \/ i = 5 \/ i = 6 \/ (i = 7 /\ Len(fields) = 7)
      BY <1>0
    <3> QED BY <1>12, <1>13, <2>1, <3>1
  <2> QED BY <2>2
<1>15. 6 \in DOMAIN fields /\ 4 \in DOMAIN fields
  BY <1>0
<1>16. only(OCTETS) = 6 /\ only(Context(0)) = 4
  BY <1>14, <1>15
<1>17. (\E i \in DOMAIN fields : fields[i].tag = Context(1)) => only(Context(1)) = 7 /\ Len(fields) = 7
  <2>1. ASSUME NEW i \in DOMAIN fields, fields[i].tag = Context(1)
        PROVE  only(Context(1)) = 7 /\ Len(fields) = 7
    <3>1. i = 7
      BY <1>14, <2>1
    <3> QED BY <1>0, <1>14, <2>1, <3>1
  <2> QED BY <2>1
<1>18. first(OCTETS).len > 0
  BY <1>11, <1>16
<1>19. ASSUME NEW tag \in {Context(0), Context(1)}, \E i \in DOMAIN fields : fields[i].tag = tag
       PROVE  AttributesOk(first(tag))
  <2>1. CASE tag = Context(0)
    BY <1>10, <1>16, <2>1, Zenon
  <2>2. CASE tag = Context(1)
    BY <1>13, <1>17, <1>19, <2>2, Zenon
  <2> QED BY <2>1, <2>2
<1>20. (IF fields[4].tag = Context(0) THEN 5 ELSE 4) = 5
  BY <1>12, Zenon
<1> QED BY <1>1, <1>2, <1>3, <1>6, <1>7, <1>8, <1>9, <1>18, <1>19, <1>20, Zenon DEF SignerOk
\* Indirect data that the program takes from a payload.
Ready(d) ==
  /\ d.len \in Nat /\ d.tag = SEQUENCE
  /\ Fields(d, <<SEQUENCE, SEQUENCE>>) /\ DigestOk(d.kids[2])

\* The elements inside what is assembled.
DigestAlgorithms == der_wrap(SETOF, <<sha256_alg_id>>)
Embedded(d)      == der_wrap(Context(0), <<d>>)
Content(d)       == der_wrap(SEQUENCE, <<der_oid("indirect_data"), Embedded(d)>>)
Signers(fields)  == der_wrap(SETOF, <<der_wrap(SEQUENCE, fields)>>)
DataParts(d, certs, fields) ==
  <<der_integer("1"), DigestAlgorithms, Content(d), der_wrap(Context(0), certs), Signers(fields)>>
Data(d, certs, fields) == der_wrap(SEQUENCE, DataParts(d, certs, fields))
Inner(d, certs, fields) == der_wrap(Context(0), <<Data(d, certs, fields)>>)

LEMMA MadeParts ==
  ASSUME NEW d, NEW certs, NEW fields
  PROVE  /\ Made(d, certs, fields)
              = der_wrap(SEQUENCE, <<der_oid("signed_data"), Inner(d, certs, fields)>>)
         /\ signed_data(Made(d, certs, fields)) = Data(d, certs, fields)
<1> DEFINE e == Made(d, certs, fields)
           sd == signed_data(e)
<1>1. sd = Data(d, certs, fields)
  <2>1. sd = der_wrap(SEQUENCE,
               <<der_integer("1"), der_wrap(SETOF, <<sha256_alg_id>>),
                 der_wrap(SEQUENCE, <<der_oid("indirect_data"), der_explicit(0, d)>>),
                 der_wrap(Context(0), certs),
                 der_wrap(SETOF, <<der_wrap(SEQUENCE, fields)>>)>>)
    BY MadeIs
  <2>2. der_explicit(0, d) = Embedded(d)
    BY DEF der_explicit, Embedded
  <2> QED BY <2>1, <2>2, Zenon DEF Data, DataParts, DigestAlgorithms, Content, Signers
<1>2. e = der_sequence(<<der_oid("signed_data"),
             der_explicit(0, der_sequence(SignedDataFields(d, certs, <<der_sequence(fields)>>)))>>)
  BY DEF Made, Assembled
<1>3. e.kids = <<der_oid("signed_data"), der_explicit(0, sd)>>
  BY MadeIs, Zenon
<1>4. e = der_wrap(SEQUENCE, e.kids)
  BY <1>2, WrapHas DEF der_sequence
<1> HIDE DEF e
<1>5. der_explicit(0, sd) = Inner(d, certs, fields)
  BY <1>1, Zenon DEF der_explicit, Inner
<1> QED BY <1>1, <1>3, <1>4, <1>5, Zenon DEF e

\* All of them declare their lengths right.
LEMMA PartsWrapped ==
  ASSUME NEW d, NEW certs, NEW fields, d.len \in Nat, Measured(certs), Measured(fields)
  PROVE  /\ Wrapped(Embedded(d)) /\ Wrapped(Content(d)) /\ Wrapped(Signers(fields))
         /\ Wrapped(der_wrap(SEQUENCE, fields))
         /\ Wrapped(Data(d, certs, fields)) /\ Wrapped(Inner(d, certs, fields))
         /\ Wrapped(Made(d, certs, fields))
<1>1. Wrapped(Embedded(d)) /\ Embedded(d).len \in Nat
  BY OneMeasured, WrapWrapped DEF Embedded
<1>2. Wrapped(Content(d)) /\ Content(d).len \in Nat
  BY <1>1, SmallParts, TwoMeasured, WrapWrapped DEF Content
<1>3. Wrapped(der_wrap(SEQUENCE, fields)) /\ der_wrap(SEQUENCE, fields).len \in Nat
  BY WrapWrapped
<1>4. Wrapped(Signers(fields)) /\ Signers(fields).len \in Nat
  BY <1>3, OneMeasured, WrapWrapped DEF Signers
<1>5. DigestAlgorithms.len \in Nat
  <2>1. sha256_alg_id = Algorithm("sha256")
    BY DEF sha256_alg_id, der_sequence, Algorithm
  <2>2. sha256_alg_id.len \in Nat
    BY <2>1, AlgorithmWrapped
  <2> QED BY <2>2, OneMeasured, WrapWrapped DEF DigestAlgorithms
<1>6. der_wrap(Context(0), certs).len \in Nat
  BY WrapWrapped
<1>7. Measured(DataParts(d, certs, fields))
  <2>1. der_integer("1").len \in Nat
    BY SmallParts
  <2> QED BY <1>2, <1>4, <1>5, <1>6, <2>1, FiveMeasured DEF DataParts
<1>8. Wrapped(Data(d, certs, fields)) /\ Data(d, certs, fields).len \in Nat
  BY <1>7, WrapWrapped DEF Data
<1>9. Wrapped(Inner(d, certs, fields)) /\ Inner(d, certs, fields).len \in Nat
  BY <1>8, OneMeasured, WrapWrapped DEF Inner
<1>10. Wrapped(Made(d, certs, fields))
  <2>1. Measured(<<der_oid("signed_data"), Inner(d, certs, fields)>>)
    BY <1>9, SmallParts, TwoMeasured
  <2> QED BY <2>1, MadeParts, WrapWrapped
<1> QED BY <1>1, <1>2, <1>3, <1>4, <1>8, <1>9, <1>10

\* An element in another that can be read back, found by its place.
LEMMA PlacedFits ==
  ASSUME NEW e, Fits(e), NEW i, NEW k, i \in 1 .. Len(e.kids), e.kids[i] = k, Wrapped(k)
  PROVE  Fits(k) /\ Framed(k)
  BY KidFits, FitsFramed

LEMMA DataHas ==
  ASSUME NEW d, NEW certs, NEW fields, NEW s, s = DataParts(d, certs, fields)
  PROVE  /\ Len(s) = 5 /\ s[1] = der_integer("1") /\ s[2] = DigestAlgorithms /\ s[3] = Content(d)
         /\ s[4] = der_wrap(Context(0), certs) /\ s[5] = Signers(fields)
<1> DEFINE a == der_integer("1")
           b == DigestAlgorithms
           c == Content(d)
           x == der_wrap(Context(0), certs)
           y == Signers(fields)
<1>1. s = <<a, b, c, x, y>>
  BY DEF DataParts
<1> HIDE DEF a, b, c, x, y
<1>2. Len(s) = 5 /\ s[1] = a /\ s[2] = b /\ s[3] = c /\ s[4] = x /\ s[5] = y
  BY <1>1
<1> QED BY <1>2 DEF a, b, c, x, y

\* The program accepts what it has assembled itself, whatever the indirect data, the
\* certificates and their sizes are, as long as the length fits in four bytes; and
\* it finds the same indirect data in it.
THEOREM MadeAccepted ==
  ASSUME NEW d, Ready(d), NEW certs, Measured(certs), NEW fields,
         SignerLike(fields, d, certs[1]), ProperLeaf(certs[1]),
         NEW e, e = Made(d, certs, fields), e.len < Limit32
  PROVE  cms_has_signer(e) = "yes" /\ CanExtract(e) /\ cms_extract_indirect_data(e) = d
<1> DEFINE inner == Inner(d, certs, fields)
           data == Data(d, certs, fields)
           parts == DataParts(d, certs, fields)
           signer == der_wrap(SEQUENCE, fields)
           signers == Signers(fields)
           content == Content(d)
           embedded == Embedded(d)
           name == der_oid("signed_data")
           type == der_oid("indirect_data")
<1>1. /\ Wrapped(embedded) /\ Wrapped(content) /\ Wrapped(signers) /\ Wrapped(signer)
      /\ Wrapped(data) /\ Wrapped(inner) /\ Wrapped(e)
  <2>1. d.len \in Nat /\ Measured(fields)
    BY DEF Ready, SignerLike
  <2> QED BY <2>1, PartsWrapped
<1>2. /\ e.tag = SEQUENCE /\ e.kids = <<name, inner>> /\ signed_data(e) = data
      /\ inner.tag = Context(0) /\ inner.kids = <<data>>
      /\ data.tag = SEQUENCE /\ data.kids = parts
      /\ content.tag = SEQUENCE /\ content.kids = <<type, embedded>>
      /\ embedded.tag = Context(0) /\ embedded.kids = <<d>>
      /\ signers.tag = SETOF /\ signers.kids = <<signer>>
  <2>1. e = der_wrap(SEQUENCE, <<name, inner>>) /\ signed_data(e) = data
    BY MadeParts, Zenon
  <2>2. e.tag = SEQUENCE /\ e.kids = <<name, inner>>
    BY <2>1, WrapHas
  <2>3. inner.tag = Context(0) /\ inner.kids = <<data>>
    BY WrapHas DEF Inner
  <2>4. data.tag = SEQUENCE /\ data.kids = parts
    BY WrapHas DEF Data
  <2>5. content.tag = SEQUENCE /\ content.kids = <<type, embedded>>
    BY WrapHas DEF Content
  <2>6. embedded.tag = Context(0) /\ embedded.kids = <<d>>
    BY WrapHas DEF Embedded
  <2>7. signers.tag = SETOF /\ signers.kids = <<signer>>
    BY WrapHas DEF Signers
  <2> QED BY <2>1, <2>2, <2>3, <2>4, <2>5, <2>6, <2>7, Zenon
<1>3. /\ Len(parts) = 5 /\ parts[1] = der_integer("1") /\ parts[2].tag = SETOF /\ parts[3] = content
      /\ parts[4].tag = Context(0) /\ parts[5] = signers
  BY DataHas, WrapHas DEF DigestAlgorithms
<1>4. /\ name.tag = OID /\ name.prim = <<"signed_data">> /\ type.tag = OID
      /\ type.prim = <<"indirect_data">>
  BY SmallParts
<1> HIDE DEF inner, data, parts, signers, content, embedded, name, type
<1>5. Fits(e) /\ Framed(e)
  BY <1>1, FitsFramed DEF Fits
<1>6. Fits(inner) /\ Framed(inner)
  <2>1. 2 \in 1 .. Len(e.kids) /\ e.kids[2] = inner
    BY <1>2
  <2> QED BY <1>1, <1>5, <2>1, PlacedFits
<1>7. Fits(data) /\ Framed(data)
  <2>1. 1 \in 1 .. Len(inner.kids) /\ inner.kids[1] = data
    BY <1>2
  <2> QED BY <1>1, <1>6, <2>1, PlacedFits
<1>8. Fits(content) /\ Framed(content)
  <2>1. 3 \in 1 .. Len(data.kids) /\ data.kids[3] = content
    BY <1>2, <1>3
  <2> QED BY <1>1, <1>7, <2>1, PlacedFits
<1>9. Fits(embedded) /\ Framed(embedded)
  <2>1. 2 \in 1 .. Len(content.kids) /\ content.kids[2] = embedded
    BY <1>2
  <2> QED BY <1>1, <1>8, <2>1, PlacedFits
<1>10. Fits(signers) /\ Framed(signers)
  <2>1. 5 \in 1 .. Len(data.kids) /\ data.kids[5] = signers
    BY <1>2, <1>3
  <2> QED BY <1>1, <1>7, <2>1, PlacedFits
<1>11. SignerOk(signer)
  <2>1. 1 \in 1 .. Len(signers.kids) /\ signers.kids[1] = signer
    BY <1>2
  <2>2. Fits(signer)
    BY <1>1, <1>10, <2>1, PlacedFits
  <2> QED BY <2>2, SignerAccepted
<1>12. Tags(e) = <<OID, Context(0)>> /\ Tags(inner) = <<SEQUENCE>>
  <2>1. Tags(e) = <<name.tag, inner.tag>>
    BY <1>2, TagsOfTwo
  <2>2. Tags(inner) = <<data.tag>>
    BY <1>2, TagsOfOne
  <2> QED BY <1>2, <1>4, <2>1, <2>2, Zenon
<1>13. Tags(content) = <<OID, Context(0)>> /\ Tags(embedded) = <<SEQUENCE>>
  <2>1. Tags(content) = <<type.tag, embedded.tag>>
    BY <1>2, TagsOfTwo
  <2>2. Tags(embedded) = <<d.tag>>
    BY <1>2, TagsOfOne
  <2>3. d.tag = SEQUENCE
    BY DEF Ready
  <2> QED BY <1>2, <1>4, <2>1, <2>2, <2>3, Zenon
<1>14. Tags(data) = <<INTEGER, SETOF, SEQUENCE, Context(0), SETOF>>
  <2>1. DOMAIN parts = 1 .. 5
    BY <1>1, <1>2, <1>3 DEF Wrapped, Measured
  <2>2. Tags(data) = [i \in 1 .. 5 |-> parts[i].tag]
    BY <1>2, <2>1 DEF Tags
  <2>3. [i \in 1 .. 5 |-> parts[i].tag]
          = <<parts[1].tag, parts[2].tag, parts[3].tag, parts[4].tag, parts[5].tag>>
    OBVIOUS
  <2>4. parts[1].tag = INTEGER
    BY <1>3, SmallParts
  <2> QED BY <1>2, <1>3, <2>2, <2>3, <2>4, Zenon
<1>15. SignedDataOk(e)
  <2>1. e.kids[1] = name /\ e.kids[2] = inner
    BY <1>2
  <2> QED BY <1>2, <1>4, <1>5, <1>6, <1>12, <2>1, Zenon DEF SignedDataOk, Fields
<1>16. SignedDataShape(data)
  <2>1. data.kids[1].prim = <<"1">>
    BY <1>2, <1>3, SmallParts
  <2> QED BY <1>7, <1>14, <2>1, DataTagsAccepted, Zenon DEF SignedDataShape
<1>17. ContentOk(content)
  <2>1. content.kids[1] = type /\ content.kids[2] = embedded /\ embedded.kids[1] = d
    BY <1>2
  <2>2. Fields(d, <<SEQUENCE, SEQUENCE>>) /\ DigestOk(d.kids[2])
    BY DEF Ready
  <2> QED BY <1>4, <1>8, <1>9, <1>13, <2>1, <2>2, Zenon DEF ContentOk, Fields
<1>18. CanExtract(e)
  <2>1. signed_data(e).kids[3] = content
    BY <1>2, <1>3
  <2> QED BY <1>2, <1>15, <1>16, <1>17, <2>1, Zenon DEF CanExtract
<1>19. cms_extract_indirect_data(e) = d
  <2>1. signed_data(e).kids[3] = content
    BY <1>2, <1>3
  <2>2. content.kids[2] = embedded /\ embedded.kids[1] = d
    BY <1>2
  <2> QED BY <2>1, <2>2, Zenon DEF cms_extract_indirect_data
<1>20. cms_has_signer(e) = "yes"
  <2>1. signed_data(e).kids[Len(signed_data(e).kids)] = signers
    BY <1>2, <1>3
  <2>2. \A i \in DOMAIN signers.kids : signers.kids[i] = signer
    BY <1>2
  <2>3. signers.kids # <<>>
    BY <1>2
  <2>4. ~(~Framed(signers) \/ \E i \in DOMAIN signers.kids : ~SignerOk(signers.kids[i]))
    BY <1>10, <1>11, <2>2, Zenon
  <2>5. SignedDataOk(e) /\ SignedDataShape(signed_data(e))
    BY <1>2, <1>15, <1>16, Zenon
  <2> QED BY <2>1, <2>3, <2>4, <2>5, Zenon DEF cms_has_signer
<1> QED BY <1>18, <1>19, <1>20
-----------------------------------------------------------------------------
\* What osslsigncode attaches.

\* The fields of the signer that the program writes, which the service has signed.
OwnFields(d, leaf) == SignerFields(d, <<"rsa", cms_auth_attrs_hash(d)>>, x509_cert_id(leaf))

LEMMA OwnIs ==
  ASSUME NEW d, NEW leaf, ProperLeaf(leaf), NEW s, s = OwnFields(d, leaf)
  PROVE  SignerLike(s, d, leaf) /\ Len(s) = 6
<1>1. SignedBy(s, d, leaf)
  BY DEF SignedBy, OwnFields
<1>2. Len(s) = 6 /\ DOMAIN s = 1 .. 6 /\ \E S : s \in Seq(S)
  <2> DEFINE a == der_integer("1")
             b == der_sequence(<<x509_cert_id(leaf).issuer, x509_cert_id(leaf).serial>>)
             c == sha256_alg_id
             x == der_implicit(0, build_auth_attrs(d))
             y == der_sequence(<<der_oid("rsa"), der_null>>)
             z == der_octet_string(<<"rsa", cms_auth_attrs_hash(d)>>, 384)
  <2>1. s = <<a, b, c, x, y, z>>
    BY DEF OwnFields, SignerFields
  <2> HIDE DEF a, b, c, x, y, z
  <2>2. Len(s) = 6 /\ DOMAIN s = 1 .. 6 /\ s \in Seq({a, b, c, x, y, z})
    BY <2>1
  <2> QED BY <2>2
<1>3. \A i \in 1 .. 6 : s[i].len \in Nat
  <2>1. s[1].len \in Nat
    BY <1>1, SignerParts, SmallParts
  <2>2. s[2].len \in Nat
    <3>1. Wrapped(s[2])
      BY <1>1, SignerNamed
    <3> QED BY <3>1, KidShorter
  <2>3. s[3].len \in Nat /\ s[5].len \in Nat
    BY <1>1, SignerParts, AlgorithmWrapped
  <2>4. s[4].len \in Nat
    <3>1. s[4] = der_implicit(0, build_auth_attrs(d))
      BY <1>1, SignerHas, ZenonT(60)
    <3> QED BY <3>1, SignedAttributes
  <2>5. s[6].len \in Nat
    BY <1>1, SignerParts
  <2> QED BY <2>1, <2>2, <2>3, <2>4, <2>5
<1>4. Measured(s)
  BY <1>2, <1>3 DEF Measured
<1> QED BY <1>1, <1>2, <1>4 DEF SignerLike

\* With a timestamp behind them.
LEMMA StampedLike ==
  ASSUME NEW d, NEW leaf, ProperLeaf(leaf), NEW t, t.len \in Nat, t.tag = Context(1), AttributesOk(t)
  PROVE  SignerLike(Append(OwnFields(d, leaf), t), d, leaf)
<1> DEFINE s == OwnFields(d, leaf)
           u == Append(s, t)
<1>1. SignerLike(s, d, leaf) /\ Len(s) = 6
  BY OwnIs
<1> HIDE DEF s
<1>2. PICK S : s \in Seq(S)
  BY <1>1 DEF SignerLike, Measured
<1>3. PICK T : T = S \cup {t}
  OBVIOUS
<1>4. u \in Seq(T) /\ Len(u) = 7 /\ u[7] = t /\ \A i \in 1 .. 6 : u[i] = s[i]
  <2>1. s \in Seq(T) /\ t \in T
    BY <1>2, <1>3
  <2>2. /\ u \in Seq(T) /\ Len(u) = Len(s) + 1 /\ u[Len(s) + 1] = t
        /\ \A i \in 1 .. Len(s) : u[i] = s[i]
    BY <2>1, AppendProperties
  <2> HIDE DEF u
  <2>3. 6 + 1 = 7
    OBVIOUS
  <2> QED BY <1>1, <2>2, <2>3, Zenon
<1> HIDE DEF u
<1>5. DOMAIN u = 1 .. 7
  BY <1>4, SeqFacts
<1>6. \A i \in 1 .. 7 : u[i].len \in Nat
  <2>1. \A i \in 1 .. 6 : s[i].len \in Nat
    BY <1>1 DEF SignerLike, Measured
  <2>2. \A i \in 1 .. 7 : i \in 1 .. 6 \/ i = 7
    OBVIOUS
  <2> QED BY <1>4, <2>1, <2>2
<1>7. Measured(u)
  BY <1>4, <1>5, <1>6 DEF Measured
<1>8. SignedBy(u, d, leaf)
  BY <1>1, <1>4 DEF SignerLike, SignedBy
<1> QED BY <1>4, <1>7, <1>8 DEF SignerLike, u, s

\* A timestamp changes the fields of the signer only.
LEMMA StampMade ==
  ASSUME NEW d, NEW certs, NEW fields, NEW t
  PROVE  Stamp(Made(d, certs, fields), t) = Made(d, certs, Append(fields, t))
<1> DEFINE e == Made(d, certs, fields)
           more == Append(fields, t)
           s == DataParts(d, certs, fields)
           last == der_set(<<der_sequence(Append(s[5].kids[1].kids, t))>>)
<1>1. signed_data(e).kids = s
  <2>1. signed_data(e) = Data(d, certs, fields)
    BY MadeParts
  <2> QED BY <2>1, WrapHas DEF Data
<1>2. s[5].kids[1].kids = fields
  <2>1. s[5] = Signers(fields)
    BY DataHas
  <2>2. s[5].kids = <<der_wrap(SEQUENCE, fields)>>
    BY <2>1, WrapHas DEF Signers
  <2> QED BY <2>2, WrapHas
<1>3. last = der_set(<<der_sequence(more)>>)
  BY <1>2, Zenon
<1>4. [s EXCEPT ![5] = last] = SignedDataFields(d, certs, <<der_sequence(more)>>)
  <2> DEFINE a == der_integer("1")
             b == der_set(<<sha256_alg_id>>)
             c == der_sequence(<<der_oid("indirect_data"), der_explicit(0, d)>>)
             x == der_wrap(Context(0), certs)
             y == Signers(fields)
  <2>1. b = DigestAlgorithms
    BY SetOfOne DEF DigestAlgorithms
  <2>2. c = Content(d)
    BY Zenon DEF Content, Embedded, der_explicit, der_sequence
  <2>3. s = <<a, b, c, x, y>>
    BY <2>1, <2>2, Zenon DEF DataParts
  <2>4. SignedDataFields(d, certs, <<der_sequence(more)>>) = <<a, b, c, x, last>>
    BY <1>3, Zenon DEF SignedDataFields
  <2> HIDE DEF a, b, c, x, y, last, s
  <2>5. [<<a, b, c, x, y>> EXCEPT ![5] = last] = <<a, b, c, x, last>>
    OBVIOUS
  <2> QED BY <2>3, <2>4, <2>5
<1>5. Stamp(e, t) = Assembled([s EXCEPT ![5] = last])
  BY <1>1 DEF Stamp
<1> QED BY <1>4, <1>5, Zenon DEF Made

\* So what is in the file is of the same form.
LEMMA AttachedMade ==
  ASSUME NEW d, NEW certs, ProperLeaf(certs[1]), NEW e, e = Made(d, certs, OwnFields(d, certs[1])),
         NEW f, Attached(e, f)
  PROVE  \E fields : SignerLike(fields, d, certs[1]) /\ f.certs[1].cms = Made(d, certs, fields)
<1>1. CASE f.certs[1].cms = e
  <2>1. SignerLike(OwnFields(d, certs[1]), d, certs[1])
    BY OwnIs
  <2> QED BY <1>1, <2>1
<1>2. CASE StampedBy(e, f.certs[1].cms)
  <2>1. PICK t : t.len \in Nat /\ t.tag = Context(1) /\ AttributesOk(t) /\ f.certs[1].cms = Stamp(e, t)
    BY <1>2 DEF StampedBy
  <2>2. SignerLike(Append(OwnFields(d, certs[1]), t), d, certs[1])
    BY <2>1, StampedLike
  <2>3. f.certs[1].cms = Made(d, certs, Append(OwnFields(d, certs[1]), t))
    BY <2>1, StampMade
  <2> QED BY <2>2, <2>3
<1> QED BY <1>1, <1>2 DEF Attached

-----------------------------------------------------------------------------
\* What the program signs is signed.

\* Elements whose lengths are numbers can be measured.
LEMMA NumberedMeasured ==
  ASSUME NEW s, Numbered(s)
  PROVE  Measured(s)
<1>1. s \in Seq({s[i] : i \in DOMAIN s}) /\ \A i \in DOMAIN s : s[i].len \in Nat
  BY Zenon DEF Numbered
<1>2. \E S : s \in Seq(S)
  BY <1>1
<1>3. PICK S : s \in Seq(S)
  BY <1>2
<1>4. Len(s) \in Nat /\ DOMAIN s = 1 .. Len(s)
  BY <1>3
<1> QED BY <1>1, <1>2, <1>4 DEF Measured

\* What can be read in an element is shorter than it.
LEMMA FramedShorter ==
  ASSUME NEW e, Framed(e), Numbered(e.kids), NEW i \in DOMAIN e.kids
  PROVE  e.len \in Nat /\ e.kids[i].len \in Nat /\ e.kids[i].len < e.len
<1>1. Measured(e.kids)
  BY NumberedMeasured
<1>2. Wrapped(e)
  BY <1>1 DEF Wrapped, Framed
<1>3. i \in 1 .. Len(e.kids) /\ e.kids[i].len \in Nat
  BY <1>1 DEF Measured
<1> QED BY <1>2, <1>3, KidShorter

LEMMA FieldsHave ==
  ASSUME NEW e, NEW a, NEW b
  PROVE  /\ Fields(e, <<a>>) => 1 \in DOMAIN e.kids /\ e.kids[1].tag = a
         /\ Fields(e, <<a, b>>) => 2 \in DOMAIN e.kids
<1>1. DOMAIN Tags(e) = DOMAIN e.kids /\ \A i \in DOMAIN e.kids : Tags(e)[i] = e.kids[i].tag
  BY DEF Tags
<1>2. 1 \in DOMAIN <<a>> /\ <<a>>[1] = a /\ 2 \in DOMAIN <<a, b>>
  OBVIOUS
<1> QED BY <1>1, <1>2 DEF Fields

\* A SignedData has at least three fields, whatever optional ones it has.
LEMMA ShapeHas ==
  ASSUME NEW sd, SignedDataShape(sd)
  PROVE  Framed(sd) /\ 3 \in DOMAIN sd.kids
<1> DEFINE head == <<INTEGER, SETOF, SEQUENCE>>
<1>1. PICK certs \in Optional(Context(0)), crls \in Optional(Context(1)) :
        Tags(sd) = head \o certs \o crls \o <<SETOF>>
  BY Zenon DEF SignedDataShape
<1>2. PICK S : S = {INTEGER, SETOF, SEQUENCE, Context(0), Context(1)}
  OBVIOUS
<1>3. head \in Seq(S) /\ Len(head) = 3
  BY <1>2
<1>4. certs \in Seq(S) /\ crls \in Seq(S) /\ <<SETOF>> \in Seq(S)
  <2>1. <<>> \in Seq(S) /\ \A x \in S : <<x>> \in Seq(S)
    OBVIOUS
  <2>2. certs \in {<<>>, <<Context(0)>>} /\ crls \in {<<>>, <<Context(1)>>}
    BY Zenon DEF Optional
  <2>3. Context(0) \in S /\ Context(1) \in S /\ SETOF \in S
    BY <1>2, Zenon
  <2> QED BY <2>1, <2>2, <2>3, Zenon
<1> HIDE DEF head
<1>a. ASSUME NEW s \in Seq(S), NEW t \in Seq(S), Len(s) >= 3
      PROVE  s \o t \in Seq(S) /\ Len(s \o t) >= 3
  <2>1. s \o t \in Seq(S) /\ Len(s \o t) = Len(s) + Len(t)
    BY ConcatFacts
  <2>2. Len(s) \in Nat /\ Len(t) \in Nat
    BY SeqFacts
  <2> QED BY <1>a, <2>1, <2>2
<1>5. head \o certs \in Seq(S) /\ Len(head \o certs) >= 3
  <2>1. Len(head) >= 3
    BY <1>3
  <2> QED BY <1>3, <1>4, <1>a, <2>1
<1>6. head \o certs \o crls \in Seq(S) /\ Len(head \o certs \o crls) >= 3
  BY <1>4, <1>5, <1>a
<1>7. Tags(sd) \in Seq(S) /\ Len(Tags(sd)) >= 3
  BY <1>1, <1>4, <1>6, <1>a
<1>8. 3 \in DOMAIN Tags(sd)
  BY <1>7, SeqFacts
<1> QED BY <1>8 DEF Tags, SignedDataShape

\* The data of a payload that was accepted is as the program checks it again, and
\* below the limit of read_blob: it is inside of what was read.
LEMMA DataReady ==
  ASSUME Reliable, NEW d \in Extracted
  PROVE  Ready(d) /\ d.len \in 0 .. MAX_CMS
<1>1. PICK p \in Payloads : CanTake(p.cms) /\ d = cms_extract_indirect_data(p.cms)
  BY DEF Extracted
<1> DEFINE e == p.cms
           sd == signed_data(e)
           content == sd.kids[3]
           inside == content.kids[2]
<1>2. CanExtract(e) /\ ~TooLarge(e)
  BY <1>1, Zenon DEF CanTake
<1>3. SignedDataOk(e) /\ SignedDataShape(sd) /\ ContentOk(content)
  BY <1>2, Zenon DEF CanExtract
<1>4. /\ Fields(content, <<OID, Context(0)>>) /\ Fields(inside, <<SEQUENCE>>) /\ d = inside.kids[1]
      /\ Fields(d, <<SEQUENCE, SEQUENCE>>) /\ DigestOk(d.kids[2])
  BY <1>1, <1>3 DEF ContentOk, cms_extract_indirect_data
<1>5. /\ Fields(e, <<OID, Context(0)>>) /\ Fields(e.kids[2], <<SEQUENCE>>) /\ sd = e.kids[2].kids[1]
  BY <1>3 DEF SignedDataOk, signed_data
<1>6. /\ Numbered(e.kids) /\ Numbered(e.kids[2].kids) /\ Numbered(sd.kids)
      /\ Numbered(content.kids) /\ Numbered(inside.kids)
  <2>1. \A x \in Containers(e) : Numbered(x.kids)
    BY <1>2, Zenon DEF Reliable
  <2>2. Containers(e) = {e, e.kids[2], sd, content, inside}
    BY DEF Containers
  <2> QED BY <2>1, <2>2, Zenon
<1> HIDE DEF e, sd, content, inside
<1>7. /\ Framed(e) /\ Framed(e.kids[2]) /\ Framed(sd) /\ Framed(content) /\ Framed(inside)
      /\ 2 \in DOMAIN e.kids /\ 1 \in DOMAIN e.kids[2].kids /\ 3 \in DOMAIN sd.kids
      /\ 2 \in DOMAIN content.kids /\ 1 \in DOMAIN inside.kids
  <2>1. Framed(e) /\ Framed(e.kids[2]) /\ Framed(content) /\ Framed(inside)
    BY <1>4, <1>5, Zenon DEF Fields
  <2>2. Framed(sd) /\ 3 \in DOMAIN sd.kids
    BY <1>3, ShapeHas
  <2>3. /\ 2 \in DOMAIN e.kids /\ 1 \in DOMAIN e.kids[2].kids
        /\ 2 \in DOMAIN content.kids /\ 1 \in DOMAIN inside.kids
    BY <1>4, <1>5, FieldsHave, Zenon
  <2> QED BY <2>1, <2>2, <2>3
<1>8. PICK a \in Nat, b \in Nat, c \in Nat, f \in Nat, g \in Nat, h \in Nat :
        /\ a = e.len /\ b = e.kids[2].len /\ c = sd.len /\ f = content.len /\ g = inside.len
        /\ h = d.len /\ b < a /\ c < b /\ f < c /\ g < f /\ h < g
  <2>1. e.len \in Nat /\ e.kids[2].len \in Nat /\ e.kids[2].len < e.len
    BY <1>6, <1>7, FramedShorter
  <2>2. sd.len \in Nat /\ sd.len < e.kids[2].len
    BY <1>5, <1>6, <1>7, FramedShorter
  <2>3. content.len \in Nat /\ content.len < sd.len
    <3>1. sd.kids[3].len \in Nat /\ sd.kids[3].len < sd.len
      BY <1>6, <1>7, FramedShorter
    <3> QED BY <3>1 DEF content
  <2>4. inside.len \in Nat /\ inside.len < content.len
    <3>1. content.kids[2].len \in Nat /\ content.kids[2].len < content.len
      BY <1>6, <1>7, FramedShorter
    <3> QED BY <3>1 DEF inside
  <2>5. d.len \in Nat /\ d.len < inside.len
    BY <1>4, <1>6, <1>7, FramedShorter
  <2> QED BY <2>1, <2>2, <2>3, <2>4, <2>5
<1>9. PICK total \in Nat : total = TotalLen(e) /\ total >= a + 2
  BY <1>8, TotalLenNat
<1>10. total <= MAX_CMS
  BY <1>2, <1>9, FilesAssumption DEF TooLarge
<1>11. h \in 0 .. MAX_CMS
  BY <1>8, <1>9, <1>10, FilesAssumption
<1>12. d.tag = SEQUENCE
  BY <1>4, FieldsHave
<1> QED BY <1>4, <1>8, <1>11, <1>12 DEF Ready

\* The certificates of a chain that was accepted can be named and measured.
LEMMA ChainProper ==
  ASSUME Reliable, NEW c \in Chains, NEW d, CanAssemble(d, c.certs),
         NEW certs, certs = x509_split_certs(c.certs)
  PROVE  Measured(certs) /\ ProperLeaf(certs[1])
<1>1. certs # <<>> /\ IsCertificate(certs[1])
  BY DEF CanAssemble
<1>2. Issued(certs)
  BY <1>1, Zenon DEF Reliable
<1>3. Measured(certs)
  BY <1>2, NumberedMeasured DEF Issued
<1>4. FromSerial(certs[1])[1].tag = INTEGER
  BY <1>1 DEF IsCertificate
<1> QED BY <1>2, <1>3, <1>4 DEF Issued, ProperLeaf, x509_cert_id

\* A signature of the program, by what it was made from.
LEMMA SignatureMade ==
  ASSUME Reliable, NEW e \in Signatures
  PROVE  \E d, certs : /\ Ready(d) /\ Measured(certs) /\ ProperLeaf(certs[1])
                       /\ e = Made(d, certs, OwnFields(d, certs[1]))
<1> DEFINE accepted(d) == {c.certs : c \in {x \in Chains : CanAssemble(d, x.certs)}}
           made(d) == {assemble_cms(d, <<"rsa", cms_auth_attrs_hash(d)>>, c) : c \in accepted(d)}
<1>1. Signatures = UNION {made(d) : d \in Extracted}
  BY DEF Signatures, Extracted
<1>2. PICK d \in Extracted : e \in made(d)
  <2> HIDE DEF made
  <2> QED BY <1>1
<1>3. PICK c \in Chains : /\ CanAssemble(d, c.certs)
                          /\ e = assemble_cms(d, <<"rsa", cms_auth_attrs_hash(d)>>, c.certs)
  BY <1>2
<1>4. PICK certs : certs = x509_split_certs(c.certs)
  OBVIOUS
<1>5. e = Made(d, certs, OwnFields(d, certs[1]))
  BY <1>3, <1>4, AssembledMade DEF OwnFields
<1>6. Ready(d)
  BY DataReady
<1>7. Measured(certs) /\ ProperLeaf(certs[1])
  BY <1>3, <1>4, ChainProper
<1> QED BY <1>5, <1>6, <1>7

\* The one certificate of a file that carries a signature of the program holds
\* what the program checks for, and can be read, unless it is above the limit.
LEMMA AttachedHolds ==
  ASSUME MAX_CMS <= Powers[4], NEW d, Ready(d), NEW certs, Measured(certs), ProperLeaf(certs[1]),
         NEW e, e = Made(d, certs, OwnFields(d, certs[1])), NEW f, Attached(e, f)
  PROVE  LET c == f.certs[1]
         IN  /\ ~TooLarge(c.cms) => /\ cms_has_signer(c.cms) = "yes" /\ CanExtract(c.cms)
                                    /\ cms_extract_indirect_data(c.cms) = d
             /\ c.n \in Nat /\ c.n >= 8 /\ (c.n <= MAX_CMS => ContentsOk(c))
<1> DEFINE c == f.certs[1]
<1>1. PICK fields : SignerLike(fields, d, certs[1]) /\ c.cms = Made(d, certs, fields)
  BY AttachedMade
<1>2. Wrapped(c.cms)
  BY <1>1, PartsWrapped DEF SignerLike, Ready
<1>3. c.cms.len \in Nat
  BY <1>2, KidShorter
<1>4. /\ DOMAIN f.certs = {1} /\ c.zeros /\ c.lens = write_length(c.cms.len)
      /\ c.n - 8 >= TotalLen(c.cms)
  BY DEF Attached
<1>5. c.n \in Nat
  <2>1. IsFile(f)
    BY DEF Attached
  <2> QED BY <1>4, <2>1 DEF IsFile
<1>6. PICK total \in Nat : total = TotalLen(c.cms) /\ total >= c.cms.len + 2
  BY <1>3, TotalLenNat
<1>7. PICK len \in Nat, n \in Nat : len = c.cms.len /\ n = c.n
  BY <1>3, <1>5
<1> HIDE DEF c
<1>8. n >= 8 /\ n - 8 \in Nat /\ total <= n - 8
  BY <1>4, <1>6, <1>7
<1>9. total <= MAX_CMS => len < Limit32
  <2>1. PICK power \in Nat \ {0} : power = Powers[4]
    BY PowersAre
  <2>2. total <= MAX_CMS => len < power
    BY <1>6, <1>7, <2>1, FilesAssumption
  <2>3. Limit32 = 256 * power
    BY <2>1 DEF Limit32
  <2> QED BY <2>1, <2>2, <2>3
<1>10. total <= MAX_CMS => /\ cms_has_signer(c.cms) = "yes" /\ CanExtract(c.cms)
                          /\ cms_extract_indirect_data(c.cms) = d
  BY <1>1, <1>7, <1>9, MadeAccepted
<1>11. total = 1 + Len(write_length(len)) + len
  BY <1>6, <1>7 DEF TotalLen
<1>12. total <= MAX_CMS => der_read_tlv(write_length(len), n - 8) = [ok |-> TRUE, total_len |-> total]
  BY <1>8, <1>9, <1>11, ReadBack
<1>13. total <= MAX_CMS => ContentsOk(c)
  BY <1>4, <1>7, <1>10, <1>12 DEF ContentsOk
<1>14. ~TooLarge(c.cms) => total <= MAX_CMS
  BY <1>6, FilesAssumption DEF TooLarge
<1>15. n <= MAX_CMS => total <= MAX_CMS
  BY <1>8, FilesAssumption
<1> QED BY <1>7, <1>8, <1>10, <1>13, <1>14, <1>15 DEF c

\* So its mark is right, and it tiles the certificate table unless it is too long.
LEMMA AttachedSigned ==
  ASSUME MAX_CMS <= Powers[4], NEW d, Ready(d), NEW certs, Measured(certs), ProperLeaf(certs[1]),
         NEW e, e = Made(d, certs, OwnFields(d, certs[1])), NEW f, Attached(e, f)
  PROVE  /\ Marked(f) /\ Right(f) # "unsigned"
         /\ f.certs[1].n <= MAX_CMS => Right(f) = "signed"
<1>1. PICK c : c = f.certs[1]
  OBVIOUS
<1>2. c.n \in Nat /\ c.n >= 8 /\ (c.n <= MAX_CMS => ContentsOk(c))
  BY <1>1, AttachedHolds
<1>3. /\ IsFile(f) /\ DOMAIN f.certs = {1} /\ f.count > 4 /\ HasDirectories(f, 5)
      /\ f.offset % 8 = 0 /\ f.offset >= HeadersEnd(f) /\ f.offset + f.length <= f.size
      /\ f.length \in {c.n, NextMultiple(c.n)} /\ c.at = f.offset /\ c.form /\ c.sound
  BY <1>1 DEF Attached
<1>4. /\ f.offset \in Nat /\ f.length \in Nat /\ f.pe \in Nat /\ f.opt_len \in Nat
      /\ c.n \in Nat /\ c.n >= 8
  BY <1>2, <1>3, FilesAssumption DEF IsFile
<1>5. Marked(f)
  <2>1. c.n \in 8 .. MAX_CMS => ContentsOk(c)
    BY <1>2, FilesAssumption
  <2> QED BY <1>1, <1>3, <2>1 DEF Marked
<1>6. CertificateAt(f, f.offset) = c /\ CertificatePlaces(f) = {f.offset}
  <2>1. CertificatePlaces(f) = {f.offset}
    BY <1>1, <1>3 DEF CertificatePlaces
  <2>2. PICK i \in DOMAIN f.certs : CertificateAt(f, f.offset) = f.certs[i]
    BY <1>3, <2>1, CertificateIs
  <2> QED BY <1>1, <1>3, <2>1, <2>2
<1>7. PICK n \in Nat, padded \in Nat :
        /\ n = c.n /\ padded = Padded(n) /\ padded >= n
        /\ NextMultiple(f.offset + n) = f.offset + padded /\ NextMultiple(n) = padded
  <2>1. NextMultiple(f.offset + c.n) = f.offset + Padded(c.n) /\ Padded(c.n) \in c.n .. (c.n + 7)
    BY <1>3, <1>4, PaddedIsNext
  <2>2. NextMultiple(0 + c.n) = 0 + Padded(c.n)
    <3>1. 0 \in Nat /\ 0 % 8 = 0
      OBVIOUS
    <3>2. \E zero \in Nat : zero = 0 /\ zero % 8 = 0
      BY <3>1
    <3>3. PICK zero \in Nat : zero = 0 /\ zero % 8 = 0
      BY <3>2
    <3>4. NextMultiple(zero + c.n) = zero + Padded(c.n)
      BY <1>4, <3>3, PaddedIsNext
    <3> QED BY <3>3, <3>4
  <2>3. Padded(c.n) \in Nat /\ Padded(c.n) >= c.n
    BY <1>4, <2>1
  <2>4. 0 + c.n = c.n /\ 0 + Padded(c.n) = Padded(c.n)
    BY <1>4, <2>3
  <2> QED BY <1>4, <2>1, <2>2, <2>3, <2>4
<1>8. f.length \in {n, padded} /\ f.length >= n /\ f.length # 0
  BY <1>3, <1>4, <1>7
<1>9. c.n <= MAX_CMS => Genuine(c)
  BY <1>2, <1>3, FilesAssumption DEF Genuine
<1>10. c.n <= MAX_CMS => Tiles(f, {f.offset})
  <2>1. f.offset + n <= f.offset + f.length
    BY <1>4, <1>8
  <2>2. f.offset + f.length \in {f.offset + n, NextMultiple(f.offset + n)}
    BY <1>7, <1>8
  <2> QED BY <1>6, <1>7, <1>9, <2>1, <2>2 DEF Tiles
<1>11. c.n <= MAX_CMS => Tiled(f)
  BY <1>3, <1>6, <1>10 DEF Tiled
<1>12. Right(f) # "unsigned" /\ (Tiled(f) => Right(f) = "signed")
  <2>1. ~(f.count <= 4)
    BY <1>3 DEF IsFile
  <2> QED BY <1>3, <1>8, <2>1, Zenon DEF Right
<1> QED BY <1>1, <1>5, <1>11, <1>12

\* The verdict is right wherever osslsigncode and the service do what they are
\* relied on for.
LEMMA ReliableMarked == ASSUME Reliable PROVE AllMarked
<1>1. ASSUME NEW e \in Signatures, NEW f \in Attachments(e) PROVE Marked(f)
  <2>1. Attached(e, f)
    BY Zenon DEF Reliable
  <2>2. MAX_CMS <= Powers[4]
    BY Zenon DEF Reliable
  <2>3. PICK d, certs : /\ Ready(d) /\ Measured(certs) /\ ProperLeaf(certs[1])
                        /\ e = Made(d, certs, OwnFields(d, certs[1]))
    BY SignatureMade
  <2> QED BY <2>1, <2>2, <2>3, AttachedSigned
<1>2. \A f \in Files : Marked(f)
  BY Zenon DEF Reliable
<1> QED BY <1>1, <1>2 DEF AllMarked

\* The signature that has been assembled, by what it was made from.
LEMMA OwnSignature ==
  ASSUME Reliable, SigningInv, cms # Absent
  PROVE  LET certs == x509_split_certs(chain.certs)
         IN  /\ Ready(idc) /\ Measured(certs) /\ ProperLeaf(certs[1])
             /\ cms = Made(idc, certs, OwnFields(idc, certs[1]))
<1>1. /\ idc \in Extracted /\ chain \in Chains /\ CanAssemble(idc, chain.certs)
      /\ cms = assemble_cms(idc, <<"rsa", cms_auth_attrs_hash(idc)>>, chain.certs)
  BY DEF SigningInv
<1>2. PICK certs : certs = x509_split_certs(chain.certs)
  OBVIOUS
<1>3. Ready(idc)
  BY <1>1, DataReady
<1>4. Measured(certs) /\ ProperLeaf(certs[1])
  BY <1>1, <1>2, ChainProper
<1>5. cms = Made(idc, certs, OwnFields(idc, certs[1]))
  BY <1>1, <1>2, AssembledMade DEF OwnFields
<1> QED BY <1>2, <1>3, <1>4, <1>5

\* The inductive invariant: a signature that has been assembled is attached, and
\* refused just if it is too large then.
AttachedInv ==
  cms # Absent =>
    /\ pc \in {"attach", "headers", "refused", "walk", "signed", "unsigned", "throws"}
    /\ pc # "attach" => Attached(cms, file) /\ (pc = "refused" <=> TooLarge(file.certs[1].cms))

LEMMA AttachedInvStep ==
  ASSUME Reliable, SigningInv, AttachedInv, [Next]_vars
  PROVE  AttachedInv'
<1>1. CASE Extract
  BY <1>1 DEF Extract, SigningInv, AttachedInv
<1>2. CASE HashAttributes
  BY <1>2 DEF HashAttributes, SigningInv, AttachedInv
<1>3. CASE Assemble
  BY <1>3 DEF Assemble, SigningInv, AttachedInv
<1>4. CASE Attach
  <2>1. pc = "attach" /\ cms # Absent /\ cms \in Signatures
    BY <1>4, CmsIsSignature DEF Attach, SigningInv
  <2>2. PICK f \in Attachments(cms) :
          /\ file' = f
          /\ pc' = IF /\ ~TooLarge(f.certs[1].cms)
                      /\ cms_has_signer(f.certs[1].cms) = "yes" /\ CanExtract(f.certs[1].cms)
                      /\ cms_extract_indirect_data(f.certs[1].cms) = idc
                   THEN "headers" ELSE "refused"
    BY <1>4, Zenon DEF Attach
  <2>3. Attached(cms, f) /\ MAX_CMS <= Powers[4]
    BY <2>1, Zenon DEF Reliable
  <2>4. PICK certs : certs = x509_split_certs(chain.certs)
    OBVIOUS
  <2>5. /\ Ready(idc) /\ Measured(certs) /\ ProperLeaf(certs[1])
        /\ cms = Made(idc, certs, OwnFields(idc, certs[1]))
    BY <2>1, <2>4, OwnSignature
  <2>6. ~TooLarge(f.certs[1].cms) =>
          /\ cms_has_signer(f.certs[1].cms) = "yes" /\ CanExtract(f.certs[1].cms)
          /\ cms_extract_indirect_data(f.certs[1].cms) = idc
    BY <2>3, <2>5, AttachedHolds
  <2>7. /\ pc' \in {"headers", "refused"} /\ cms' = cms
        /\ pc' = "refused" <=> TooLarge(file'.certs[1].cms)
    BY <1>4, <2>2, <2>6 DEF Attach, signing
  <2>8. (TooLarge(file.certs[1].cms))' <=> TooLarge(file'.certs[1].cms)
    BY DEF TooLarge
  <2> QED BY <2>2, <2>3, <2>7, <2>8 DEF AttachedInv
<1>5. CASE ReadHeaders
  <2>1. pc = "headers" /\ pc' \in {"throws", "unsigned", "walk"} /\ file' = file /\ cms' = cms
    BY <1>5 DEF ReadHeaders, signing
  <2> QED BY <2>1 DEF AttachedInv
<1>6. CASE WalkCertificate
  <2>1. pc = "walk" /\ pc' \in {"throws", "walk"} /\ file' = file /\ cms' = cms
    BY <1>6 DEF WalkCertificate, WalkThrows, signing
  <2> QED BY <2>1 DEF AttachedInv
<1>7. CASE WalkEnds
  <2>1. pc = "walk" /\ pc' \in {"signed", "unsigned"} /\ file' = file /\ cms' = cms
    BY <1>7 DEF WalkEnds, signing
  <2> QED BY <2>1 DEF AttachedInv
<1>8. CASE UNCHANGED vars
  BY <1>8 DEF vars, AttachedInv
<1> QED
  BY <1>1, <1>2, <1>3, <1>4, <1>5, <1>6, <1>7, <1>8 DEF Next

\* For every payload, chain and file it is given, the signature the program
\* assembles verifies, and so does the one in the file, timestamped or not: the
\* digest that was signed before the CMS existed is that of the attributes in it.
\* sign_staged refuses it only above the 16 MiB of read_blob, and pe_has_signature
\* calls the file signed unless its certificate, header included, is above them.
THEOREM SignaturesVerify == ASSUME Reliable PROVE Spec => []SignedVerifies
<1>1. Init => SigningInv /\ VerdictInv /\ AttachedInv
  BY SigningInvInit, VerdictInit, ReliableMarked DEF Init, AttachedInv
<1>2. SigningInv /\ VerdictInv /\ AttachedInv /\ [Next]_vars => (SigningInv /\ VerdictInv /\ AttachedInv)'
  BY SigningInvStep, VerdictStep, ReliableMarked, AttachedInvStep
<1>3. SigningInv /\ VerdictInv /\ AttachedInv => SignedVerifies
  <2> SUFFICES ASSUME SigningInv, VerdictInv, AttachedInv, cms # Absent
               PROVE  /\ Verifies(cms)
                      /\ pc = "refused" => TooLarge(file.certs[1].cms)
                      /\ pc = "throws" => file.certs[1].n > MAX_CMS
                      /\ pc # "unsigned"
                      /\ pc = "signed" => Verifies(file.certs[1].cms)
    BY DEF SignedVerifies
  <2>1. PICK certs : certs = x509_split_certs(chain.certs)
    OBVIOUS
  <2>2. /\ Ready(idc) /\ Measured(certs) /\ ProperLeaf(certs[1])
        /\ cms = Made(idc, certs, OwnFields(idc, certs[1]))
    BY <2>1, OwnSignature
  <2>3. MAX_CMS <= Powers[4]
    BY Zenon DEF Reliable
  <2>4. pc # "attach" => Attached(cms, file)
    BY DEF AttachedInv
  <2>5. pc # "attach" => /\ Right(file) # "unsigned" /\ file.certs[1].n \in Nat
                         /\ file.certs[1].n <= MAX_CMS => Right(file) = "signed"
    BY <2>2, <2>3, <2>4, AttachedSigned, AttachedHolds
  <2>6. pc \in {"signed", "unsigned", "throws"} => pc = Right(file)
    BY DEF VerdictInv
  <2>9. pc # "unsigned" /\ (pc = "throws" => file.certs[1].n > MAX_CMS)
    BY <2>5, <2>6, FilesAssumption
  <2>10. pc = "refused" => TooLarge(file.certs[1].cms)
    BY DEF AttachedInv
  <2>7. Verifies(cms)
    <3>1. SignedBy(OwnFields(idc, certs[1]), idc, certs[1])
      BY DEF SignedBy, OwnFields
    <3> QED BY <2>1, <2>2, <3>1, MadeVerifies
  <2>8. ASSUME pc = "signed" PROVE Verifies(file.certs[1].cms)
    <3>1. PICK fields : SignerLike(fields, idc, certs[1])
                        /\ file.certs[1].cms = Made(idc, certs, fields)
      BY <2>2, <2>4, <2>8, AttachedMade
    <3>2. SignedBy(fields, idc, certs[1])
      BY <3>1 DEF SignerLike
    <3> QED BY <2>1, <3>1, <3>2, MadeVerifies
  <2> QED BY <2>7, <2>8, <2>9, <2>10
<1> QED BY <1>1, <1>2, <1>3, PTL DEF Spec

\* What was taken out of a payload is never refused afterwards: its length, whatever
\* it is, is written as it is read.
LEMMA ExtractedIsData ==
  ASSUME Reliable, NEW d \in Extracted
  PROVE  IsIndirectData(d)
<1>1. Ready(d) /\ d.len \in 0 .. MAX_CMS
  BY DataReady
<1>2. MAX_CMS <= Powers[4]
  BY Zenon DEF Reliable
<1>3. PICK len \in Nat : len = d.len /\ len <= MAX_CMS
  BY <1>1, FilesAssumption
<1>4. len < Limit32
  <2>1. PICK power \in Nat \ {0} : power = Powers[4]
    BY PowersAre
  <2>2. len <= power /\ Limit32 = 256 * power
    BY <1>2, <1>3, <2>1, FilesAssumption DEF Limit32
  <2> QED BY <2>1, <2>2
<1>5. PICK total \in Nat : total = TotalLen(d)
  BY <1>3, TotalLenNat
<1>6. total = 1 + Len(write_length(len)) + len
  BY <1>3, <1>5 DEF TotalLen
<1>7. der_read_tlv(write_length(len), total) = [ok |-> TRUE, total_len |-> total]
  <2>1. total <= total
    BY <1>5
  <2>2. 1 + Len(write_length(len)) + len <= total
    BY <1>6, <2>1, Zenon
  <2> QED BY <1>4, <1>6, <2>2, ReadBack
<1> QED BY <1>1, <1>3, <1>5, <1>7 DEF IsIndirectData, Ready

\* The inductive invariant: what has been taken in is sound, and what has been
\* refused is not.
SoundInv ==
  /\ pc \in {"extract", "hash", "sign", "attach"} => payload \in Payloads
  /\ pc \in {"hash", "sign"} => CanTake(payload.cms)
  /\ SoundInputsSigned

LEMMA SoundInvStep ==
  ASSUME Reliable, InputsMarked, SigningInv, AttachedInv, SoundInv, [Next]_vars
  PROVE  SoundInv'
<1> USE DEF SoundInputsSigned
<1>1. CASE Extract
  <2>1. /\ payload \in Payloads /\ cms = Absent
        /\ UNCHANGED <<payload, chain, cms>>
        /\ IF CanTake(payload.cms) THEN pc' = "hash" ELSE pc' = "refused"
    BY <1>1 DEF Extract, SoundInv, SigningInv
  <2>2. CanTake(payload.cms) <=> payload.sound /\ ~TooLarge(payload.cms)
    BY <2>1 DEF InputsMarked, CanTake
  <2> QED BY <2>1, <2>2 DEF SoundInv
<1>2. CASE HashAttributes
  <2>1. /\ payload \in Payloads /\ CanTake(payload.cms) /\ cms = Absent /\ idc \in Extracted
        /\ UNCHANGED <<payload, chain, cms>>
    BY <1>2 DEF HashAttributes, SoundInv, SigningInv
  <2>2. pc' = "sign"
    BY <1>2, <2>1, ExtractedIsData DEF HashAttributes
  <2> QED BY <2>1, <2>2 DEF SoundInv
<1>3. CASE Assemble
  <2>1. /\ payload \in Payloads /\ CanTake(payload.cms) /\ cms = Absent /\ idc \in Extracted
        /\ chain \in Chains /\ UNCHANGED <<payload, chain>>
    BY <1>3 DEF Assemble, SoundInv, SigningInv
  <2>2. payload.sound /\ ~TooLarge(payload.cms)
    BY <2>1 DEF InputsMarked, CanTake
  <2>3. CanAssemble(idc, chain.certs) <=> chain.sound
    BY <2>1, ExtractedIsData DEF InputsMarked, CanAssemble
  <2>4. CASE CanAssemble(idc, chain.certs)
    <3>1. pc' = "attach"
      BY <1>3, <2>4 DEF Assemble
    <3> QED BY <2>1, <2>2, <2>3, <2>4, <3>1 DEF SoundInv
  <2>5. CASE ~CanAssemble(idc, chain.certs)
    <3>1. pc' = "refused" /\ cms' = cms
      BY <1>3, <2>5 DEF Assemble
    <3> QED BY <2>1, <2>3, <2>5, <3>1 DEF SoundInv
  <2> QED BY <2>4, <2>5
<1>4. CASE Attach
  <2>1. UNCHANGED <<payload, chain, cms>> /\ pc' \in {"headers", "refused"} /\ cms # Absent
    BY <1>4 DEF Attach, signing, SigningInv
  <2>2. pc' = "refused" <=> (TooLarge(file.certs[1].cms))'
    BY <2>1, AttachedInvStep DEF AttachedInv
  <2> QED BY <2>1, <2>2 DEF SoundInv
<1>5. CASE ReadHeaders
  <2>1. pc = "headers" /\ pc' \in {"throws", "unsigned", "walk"} /\ UNCHANGED <<payload, chain, cms, file>>
    BY <1>5 DEF ReadHeaders, signing
  <2> QED BY <2>1 DEF SoundInv
<1>6. CASE WalkCertificate
  <2>1. pc = "walk" /\ pc' \in {"throws", "walk"} /\ UNCHANGED <<payload, chain, cms, file>>
    BY <1>6 DEF WalkCertificate, WalkThrows, signing
  <2> QED BY <2>1 DEF SoundInv
<1>7. CASE WalkEnds
  <2>1. pc = "walk" /\ pc' \in {"signed", "unsigned"} /\ UNCHANGED <<payload, chain, cms, file>>
    BY <1>7 DEF WalkEnds, signing
  <2> QED BY <2>1 DEF SoundInv
<1>8. CASE UNCHANGED vars
  BY <1>8 DEF vars, SoundInv
<1> QED
  BY <1>1, <1>2, <1>3, <1>4, <1>5, <1>6, <1>7, <1>8 DEF Next

\* Whether a file is signed is decided where the payload is read and taken apart,
\* where the chain is split and where the CMS in the file is read again, there by
\* the 16 MiB of read_blob alone: hashing and assembling never refuse what was taken
\* in, whatever its size and however many certificates there are.
THEOREM InputsDecide == ASSUME Reliable, InputsMarked PROVE Spec => []SoundInputsSigned
<1>1. Init => SigningInv /\ AttachedInv /\ SoundInv
  BY SigningInvInit DEF Init, AttachedInv, SoundInv, SoundInputsSigned
<1>2. SigningInv /\ AttachedInv /\ SoundInv /\ [Next]_vars => (SigningInv /\ AttachedInv /\ SoundInv)'
  BY SigningInvStep, AttachedInvStep, SoundInvStep
<1>3. SoundInv => SoundInputsSigned
  BY DEF SoundInv
<1> QED BY <1>1, <1>2, <1>3, PTL DEF Spec
=============================================================================
