----------------------------- MODULE PeSignature -----------------------------
(***************************************************************************)
(* The life of one Authenticode signature: the indirect data is taken out  *)
(* of what osslsigncode extracted, its attributes are hashed and signed,   *)
(* the CMS is assembled and attached (sign_staged, signing.cpp), and       *)
(* pe_has_signature walks the certificate table of the resulting PE file,  *)
(* or of any other file it is given.                                       *)
(*                                                                         *)
(* A file is the fields of it that pe_has_signature reads, and the         *)
(* certificates in it by offset; every byte not named is zero.  Fields     *)
(* of 32 bits are below Word; sums and differences are of 64 bits and do   *)
(* not wrap.                                                               *)
(***************************************************************************)
EXTENDS Cms

CONSTANTS
  Word,        \* one more than the largest 32-bit field
  MAX_CMS,     \* the largest file read_blob reads, and the largest WIN_CERTIFICATE
  Files,       \* PE files the program may be given
  Payloads,    \* [cms, sound]: what osslsigncode extract-data may leave
  Chains,      \* [certs, sound]: what the service may send as certificates
  Attachments(_)  \* files that carry a CMS, as osslsigncode writes them

\* Fields of a file are numbers; nothing else is taken for granted of one.
IsFile(f) ==
  /\ f.size \in Nat /\ f.pe \in Nat /\ f.opt_len \in Nat
  /\ f.count \in Nat /\ f.offset \in Nat /\ f.length \in Nat
  /\ \A i \in DOMAIN f.certs : f.certs[i].at \in Nat /\ f.certs[i].n \in Nat

ASSUME FilesAssumption == MAX_CMS \in Nat /\ \A f \in Files : IsFile(f)

VARIABLES pc, payload, chain, idc, digest, cms, file, offset, length, found, read

vars == <<pc, payload, chain, idc, digest, cms, file, offset, length, found, read>>
signing == <<payload, chain, idc, digest, cms>>

Absent == der_null
NoFile == [size |-> 0]

Init ==
  /\ \/ /\ pc = "headers" /\ file \in Files
        /\ payload = [cms |-> Absent, sound |-> FALSE]
        /\ chain = [certs |-> <<>>, sound |-> FALSE]
     \/ /\ pc = "extract" /\ file = NoFile
        /\ payload \in Payloads /\ chain \in Chains
  /\ idc = Absent /\ digest = <<>> /\ cms = Absent
  /\ offset = 0 /\ length = 0 /\ found = FALSE /\ read = <<0, 0>>

----------------------------------------------------------------------------
(* Signing: sign_staged, from the extracted payload to the attached CMS.   *)

\* read_blob refuses a longer file; a CMS is all of the file it is in.
TooLarge(e) == TotalLen(e) > MAX_CMS

\* A mutant: read_blob refuses a file of exactly MAX_CMS bytes.
Extract_Strict ==
  /\ pc = "extract"
  /\ IF TotalLen(payload.cms) < MAX_CMS /\ CanExtract(payload.cms)
     THEN pc' = "hash" /\ idc' = cms_extract_indirect_data(payload.cms)
     ELSE pc' = "refused" /\ UNCHANGED idc
  /\ UNCHANGED <<payload, chain, digest, cms, file, offset, length, found, read>>

CanTake(e) == ~TooLarge(e) /\ CanExtract(e)

Extract ==
  /\ pc = "extract"
  /\ IF CanTake(payload.cms)
     THEN pc' = "hash" /\ idc' = cms_extract_indirect_data(payload.cms)
     ELSE pc' = "refused" /\ UNCHANGED idc
  /\ UNCHANGED <<payload, chain, digest, cms, file, offset, length, found, read>>

HashAttributes ==
  /\ pc = "hash"
  /\ IF IsIndirectData(idc)
     THEN pc' = "sign" /\ digest' = cms_auth_attrs_hash(idc)
     ELSE pc' = "refused" /\ UNCHANGED digest
  /\ UNCHANGED <<payload, chain, idc, cms, file, offset, length, found, read>>

\* The service signs the digest it is sent and answers with its certificates.
Assemble ==
  /\ pc = "sign"
  /\ IF CanAssemble(idc, chain.certs)
     THEN pc' = "attach" /\ cms' = assemble_cms(idc, <<"rsa", digest>>, chain.certs)
     ELSE pc' = "refused" /\ UNCHANGED cms
  /\ UNCHANGED <<payload, chain, idc, digest, file, offset, length, found, read>>

\* osslsigncode attaches the CMS and may add a timestamp; sign_staged takes the
\* result only if its CMS is not too large and has a signer and still the same
\* indirect data.
Attach ==
  /\ pc = "attach"
  /\ \E f \in Attachments(cms) :
       LET final == f.certs[1].cms
       IN  /\ IsFile(f) /\ file' = f
           /\ pc' = IF /\ ~TooLarge(final)
                       /\ cms_has_signer(final) = "yes" /\ CanExtract(final)
                       /\ cms_extract_indirect_data(final) = idc
                    THEN "headers" ELSE "refused"
  /\ UNCHANGED <<signing, offset, length, found, read>>

----------------------------------------------------------------------------
(* pe_has_signature.                                                       *)

\* Where the data directories start, by the format of the optional header.
directories(f) == CASE f.format = 267 -> 96 [] f.format = 523 -> 112 [] OTHER -> 0
HeadersEnd(f)  == f.pe + 24 + f.opt_len

\* read_at throws when the file ends before the last byte asked for.
CanRead(f, at, n) == at + n <= f.size

HeaderOk(f) ==
  /\ CanRead(f, 0, 64) /\ f.mz
  /\ CanRead(f, f.pe, 26) /\ f.signature
  /\ directories(f) # 0 /\ f.opt_len >= directories(f)
  /\ CanRead(f, f.pe + 24 + directories(f) - 4, 4)

DirectoryOk(f) ==
  f.opt_len >= directories(f) + 40 /\ CanRead(f, f.pe + 24 + directories(f) + 32, 8)

\* A mutant: the end of the table is computed in 32 bits.
TableOk_Wraps(f) ==
  /\ f.offset # 0 /\ f.length # 0 /\ f.offset % 8 = 0
  /\ f.offset >= HeadersEnd(f)
  /\ f.offset <= f.size /\ (f.offset + f.length) % Word <= f.size

TableOk(f) ==
  /\ f.offset # 0 /\ f.length # 0 /\ f.offset % 8 = 0
  /\ f.offset >= HeadersEnd(f)
  /\ f.offset <= f.size /\ f.length <= f.size - f.offset

ReadHeaders ==
  /\ pc = "headers"
  /\ pc' = IF ~HeaderOk(file) THEN "throws"
           ELSE IF file.count <= 4 THEN "unsigned"
           ELSE IF ~DirectoryOk(file) THEN "throws"
           ELSE IF file.offset = 0 /\ file.length = 0 THEN "unsigned"
           ELSE IF ~TableOk(file) THEN "throws" ELSE "walk"
  /\ IF pc' = "walk" THEN offset' = file.offset /\ length' = file.length
                     ELSE UNCHANGED <<offset, length>>
  /\ UNCHANGED <<signing, file, found, read>>

\* The WIN_CERTIFICATE at an offset; between certificates the bytes are zero.
NoCertificate == [at |-> 0, n |-> 0, form |-> FALSE, lens |-> <<0>>,
                  zeros |-> TRUE, cms |-> Absent, sound |-> FALSE]
CertificateAt(f, at) ==
  LET here == {i \in DOMAIN f.certs : f.certs[i].at = at}
  IN  IF here = {} THEN NoCertificate ELSE f.certs[CHOOSE i \in here : TRUE]

\* form: revision 2.0 and type PKCS_SIGNED_DATA.
CertificateOk(c) == c.n >= 8 /\ c.n <= length /\ c.n <= MAX_CMS /\ c.form

\* One DER element, zeros after it, and a signer in it.
ContentsOk(c) ==
  LET tlv == der_read_tlv(c.lens, c.n - 8)
  IN  /\ tlv.ok
      /\ tlv.total_len < c.n - 8 => c.zeros
      /\ cms_has_signer(c.cms) = "yes"

\* A mutant: the next certificate is looked for where this one ends.
Padded_Not(n) == n

Padded(n) == ((n + 7) \div 8) * 8

WalkThrows(last) == pc' = "throws" /\ read' = last /\ UNCHANGED <<offset, length, found>>

WalkCertificate ==
  LET c == CertificateAt(file, offset)
      aligned == IF Padded(c.n) > length /\ c.n = length THEN c.n ELSE Padded(c.n)
      header  == <<offset, offset + 8>>
      all     == <<offset, offset + c.n>>
  IN  /\ pc = "walk" /\ length > 0
      /\ \/ length < 8 /\ WalkThrows(read)
         \/ length >= 8 /\ ~CertificateOk(c) /\ WalkThrows(header)
         \/ /\ length >= 8 /\ CertificateOk(c)
            /\ ~ContentsOk(c) \/ aligned > length
            /\ WalkThrows(all)
         \/ /\ length >= 8 /\ CertificateOk(c) /\ ContentsOk(c) /\ aligned <= length
            /\ read' = all /\ found' = TRUE
            /\ offset' = offset + aligned /\ length' = length - aligned
            /\ UNCHANGED pc
      /\ UNCHANGED <<signing, file>>

WalkEnds ==
  /\ pc = "walk" /\ length = 0
  /\ pc' = IF found THEN "signed" ELSE "unsigned"
  /\ UNCHANGED <<signing, file, offset, length, found, read>>

Next == \/ Extract \/ HashAttributes \/ Assemble \/ Attach
        \/ ReadHeaders \/ WalkCertificate \/ WalkEnds

Spec == Init /\ [][Next]_vars

----------------------------------------------------------------------------
(* Properties.                                                             *)

\* While pe_has_signature walks the table, what is left of it always ends where
\* the table ends, inside the file; and the bytes it read last belong to the
\* table and not to the headers before it, whatever the fields of the file are.
ReadsInside ==
  /\ pc = "walk" => /\ offset + length = file.offset + file.length
                    /\ offset >= file.offset
                    /\ file.offset >= HeadersEnd(file)
                    /\ file.offset + file.length <= file.size
  /\ read # <<0, 0>> => /\ read[1] >= file.offset /\ read[1] <= read[2]
                        /\ read[2] <= file.offset + file.length
                        /\ read[2] <= file.size

\* A certificate as the format defines it, by how it was made.
Genuine(c) == c.form /\ c.n \in 8..MAX_CMS /\ c.sound

\* The mark of each certificate is right: it is sound just if its contents are.
Marked(f) ==
  \A i \in DOMAIN f.certs :
    LET c == f.certs[i]
    IN  c.form /\ c.n \in 8..MAX_CMS => (c.sound <=> ContentsOk(c))

NextMultiple(n) == CHOOSE m \in n..(n + 7) : m % 8 = 0

\* The table is in the file, past the headers, and tiled by certificates: there is
\* a set of places, the first where the table starts, and from each the
\* certificate there reaches the end of the table, or another of the places is the
\* next multiple of eight.
Tiles(f, places) ==
  /\ f.offset \in places
  /\ \A p \in places :
       LET c    == CertificateAt(f, p)
           last == p + c.n
           end  == f.offset + f.length
       IN  /\ Genuine(c) /\ last <= end
           /\ end \in {last, NextMultiple(last)} \/ NextMultiple(last) \in places

CertificatePlaces(f) == {f.certs[i].at : i \in DOMAIN f.certs}

Tiled(f) ==
  /\ f.offset % 8 = 0 /\ f.offset >= HeadersEnd(f) /\ f.offset + f.length <= f.size
  /\ \E places \in SUBSET CertificatePlaces(f) : Tiles(f, places)

\* The magics are right, and the optional header reaches to the end of its first
\* n data directories, of eight bytes each, and lies in the file so far.
HasDirectories(f, n) ==
  LET end == directories(f) + 8 * n
  IN  /\ f.mz /\ f.signature /\ f.format \in {267, 523}
      /\ f.size >= 64 /\ f.opt_len >= end /\ f.size >= f.pe + 24 + end

\* pe_has_signature says signed of exactly the files whose certificate table is
\* in the file, past the headers, and tiled by genuine certificates; unsigned of
\* exactly those without a table; it throws on every other file.
WalkRight ==
  LET table == file.count > 4 /\ HasDirectories(file, 5)
      empty == file.offset = 0 /\ file.length = 0
      right == IF table /\ ~empty /\ Tiled(file) THEN "signed"
               ELSE IF HasDirectories(file, 0) /\ (file.count <= 4 \/ (table /\ empty))
                    THEN "unsigned" ELSE "throws"
  IN  pc \in {"signed", "unsigned", "throws"} => pc = right

\* What a CMS verifier computes from a signature the program made: the signed
\* attributes, tagged as a set, hash to what was signed; their message digest is
\* that of the embedded content; the signer is the leaf certificate of the chain;
\* the attributes are in DER order.
Verifies(e) ==
  LET sd     == signed_data(e)
      signer == sd.kids[Len(sd.kids)].kids[1]
      attrs  == [signer.kids[4] EXCEPT !.tag = SETOF]
      eContent == sd.kids[3].kids[2].kids[1]
      MessageDigest(a) == a.kids[1].prim = <<"message_digest">>
      leaf   == x509_split_certs(chain.certs)[1]
  IN  /\ signer.kids[6].prim = <<"rsa", sha256(attrs)>>
      /\ \E i \in DOMAIN attrs.kids :
           /\ MessageDigest(attrs.kids[i])
           /\ attrs.kids[i].kids[2].kids[1].prim = sha256_content(eContent)
      /\ \A i \in 1..(Len(attrs.kids) - 1) : attrs.kids[i].len <= attrs.kids[i + 1].len
      /\ signer.kids[2].kids = <<x509_cert_id(leaf).issuer, x509_cert_id(leaf).serial>>
      /\ sd.kids[4].kids = x509_split_certs(chain.certs)

\* The signatures the program makes, from all payloads and chains it accepts.
Signatures ==
  LET data == {cms_extract_indirect_data(p.cms) : p \in {x \in Payloads : CanTake(x.cms)}}
      accepted(d) == {c.certs : c \in {x \in Chains : CanAssemble(d, x.certs)}}
  IN  UNION {{assemble_cms(d, <<"rsa", cms_auth_attrs_hash(d)>>, c) : c \in accepted(d)} : d \in data}

\* The signature assembled verifies, and so does the one in the file: the digest
\* sent to the service before the CMS existed is that of the attributes embedded
\* afterwards.  sign_staged refuses it only if it is above 16 MiB in the file; if
\* not, pe_has_signature calls that file signed, or throws because the
\* WIN_CERTIFICATE, whose header counts, is above 16 MiB; never unsigned.
SignedVerifies ==
  cms # Absent =>
    /\ Verifies(cms)
    /\ pc = "refused" => TooLarge(file.certs[1].cms)
    /\ pc = "throws" => file.certs[1].n > MAX_CMS
    /\ pc # "unsigned"
    /\ pc = "signed" => Verifies(file.certs[1].cms)

\* Form and the 16 MiB of read_blob decide, and nothing else, neither smaller
\* sizes nor optional fields: a CMS is made just of a payload and a chain of the
\* right form, the payload not above the limit, and gets into the file just if it
\* is not above it then.
SoundInputsSigned ==
  /\ pc = "refused" => \/ ~(payload.sound /\ chain.sound) \/ TooLarge(payload.cms)
                       \/ cms # Absent /\ TooLarge(file.certs[1].cms)
  /\ cms # Absent => payload.sound /\ chain.sound /\ ~TooLarge(payload.cms)
  /\ cms # Absent /\ pc \notin {"attach", "refused"} => ~TooLarge(file.certs[1].cms)

----------------------------------------------------------------------------
(* What osslsigncode and the service are relied on for, where signing must *)
(* not fail; no action depends on it.                                      *)

\* The signature e with unsigned attributes, as a timestamp is added to it.
Stamp(e, t) ==
  Assembled([signed_data(e).kids EXCEPT ![5] =
               der_set(<<der_sequence(Append(@.kids[1].kids, t))>>)])

StampedBy(e, x) ==
  LET t == Last(signed_data(x).kids[5].kids[1].kids)
  IN  t.len \in Nat /\ t.tag = Context(1) /\ AttributesOk(t) /\ x = Stamp(e, t)

\* f is a PE file with one certificate, which holds e, timestamped or not.
Attached(e, f) ==
  LET c == f.certs[1]
  IN  /\ IsFile(f) /\ DOMAIN f.certs = {1}
      /\ f.count > 4 /\ HasDirectories(f, 5)
      /\ f.offset % 8 = 0 /\ f.offset >= HeadersEnd(f) /\ f.offset + f.length <= f.size
      /\ f.length \in {c.n, NextMultiple(c.n)}
      /\ c.at = f.offset /\ c.form /\ c.sound /\ c.zeros
      /\ c.lens = write_length(c.cms.len) /\ c.n - 8 >= TotalLen(c.cms)
      /\ c.cms = e \/ StampedBy(e, c.cms)

\* A sequence of elements whose lengths are numbers.
Numbered(elems) ==
  /\ elems \in Seq({elems[i] : i \in DOMAIN elems})
  /\ \A i \in DOMAIN elems : elems[i].len \in Nat

\* Certificates of a chain, the first with a name for its issuer and a serial
\* number.
Issued(certs) ==
  LET id == x509_cert_id(certs[1])
  IN  /\ Numbered(certs)
      /\ id.issuer.tag = SEQUENCE /\ id.issuer.len \in Nat \ {0} /\ id.serial.len \in Nat \ {0}

\* The containers in e, from the outermost to the one around the indirect data.
Containers(e) ==
  LET content == signed_data(e).kids[3]
  IN  {e, e.kids[2], signed_data(e), content, content.kids[2]}

\* Files are marked right, lengths are numbers, chains and attachments are as
\* described above.
Reliable ==
  /\ MAX_CMS <= Powers[4] /\ \A f \in Files : Marked(f)
  /\ \A p \in Payloads : CanExtract(p.cms) => \A x \in Containers(p.cms) : Numbered(x.kids)
  /\ \A c \in Chains :
       LET certs == x509_split_certs(c.certs)
       IN  certs # <<>> /\ IsCertificate(certs[1]) => Issued(certs)
  /\ \A e \in Signatures : \A f \in Attachments(e) : Attached(e, f)

\* The marks of payloads and chains are right: a payload is sound just if the data
\* can be taken out of it, a chain just if it can be split and starts with a
\* certificate.
InputsMarked ==
  /\ \A p \in Payloads : p.sound <=> CanExtract(p.cms)
  /\ \A c \in Chains :
       c.sound <=> /\ CanSplit(c.certs) /\ x509_split_certs(c.certs) # <<>>
                   /\ IsCertificate(x509_split_certs(c.certs)[1])
============================================================================
