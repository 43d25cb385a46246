---------------------------- MODULE MCPeSignature ----------------------------
(***************************************************************************)
(* The inputs of PeSignature for TLC: payloads, certificate chains and PE  *)
(* files, sound ones and ones with a single defect in the CMS, at most one *)
(* in a certificate, and boundary values of the header fields.             *)
(***************************************************************************)
EXTENDS PeSignature

----------------------------------------------------------------------------
(* Certificates.                                                           *)

Certificate(version, serial, size) ==
  der_sequence(<<der_sequence(version \o <<Prim(INTEGER, <<serial>>, 9), sha256_alg_id,
                                           der_sequence(<<der_oid("issuer")>>)>>),
                 sha256_alg_id, Prim(3, <<"key">>, size)>>)

V3 == <<der_explicit(0, der_integer("2"))>>
Leaf == Certificate(V3, "leaf", 256)
Root == Certificate(<<>>, "root", 65535)

----------------------------------------------------------------------------
(* Payloads: a SignedData without signers around the indirect data.        *)

Digest(oid, params, len) ==
  der_sequence(<<der_sequence(<<der_oid(oid)>> \o params),
                 der_octet_string(<<"file digest">>, len)>>)

\* The size of the format's own part decides the length of the whole.
IndirectData(size, hash) ==
  der_sequence(<<Prim(SEQUENCE, <<"sip">>, size), hash>>)

\* Fields to be varied: each a sequence, empty where an optional one is absent.
Slots(fields) == [i \in DOMAIN fields |-> <<fields[i]>>]
DataSlots(data, certs, signers) ==
  InsertAt(Slots(SignedDataFields(data, certs, signers)), 5, <<>>)
AssembledOf(slots) == Assembled(FlattenSeq(slots))

Envelope(data) ==
  AssembledOf([DataSlots(data, <<>>, <<>>) EXCEPT ![4] = <<>>])

PlainDigest == Digest("sha256", <<der_null>>, 32)

\* The size to give the format's part so that the whole, of which it is a part
\* and which has total bytes when the part has 70000, has as many as wanted; the
\* headers around it do not change between 65536 and 16 MiB.
SizeFor(wanted, total) == 70000 + wanted - total

\* Payloads at read_blob's limit and above it, and those whose signature with a
\* leaf certificate is at it, above it, and so that the WIN_CERTIFICATE is.
LimitSizes ==
  LET d == IndirectData(70000, PlainDigest)
      signature == assemble_cms(d, <<"rsa", cms_auth_attrs_hash(d)>>, <<Leaf>>)
  IN  {SizeFor(n, TotalLen(Envelope(d))) : n \in {MAX_CMS, MAX_CMS + 1}}
        \cup {SizeFor(n, TotalLen(signature)) : n \in {MAX_CMS - 8, MAX_CMS - 7, MAX_CMS, MAX_CMS + 1}}

SoundPayloads ==
  {IndirectData(n, PlainDigest) :
     n \in {23, 74, 75, 76, 198, 199, 203, 65480, 65484} \cup LimitSizes}
    \cup {IndirectData(23, Digest("sha256", <<>>, 32))}

BadPayloads ==
  {IndirectData(23, Digest("sha512", <<der_null>>, 32)),
   IndirectData(23, Digest("sha256", <<Prim(NULL, <<"x">>, 1)>>, 32)),
   IndirectData(23, Digest("sha256", <<>>, 0)),
   der_sequence(<<PlainDigest>>),
   der_sequence(<<PlainDigest, PlainDigest, PlainDigest>>),
   der_set(<<PlainDigest, PlainDigest>>)}

MCPayloads ==
  {[cms |-> Envelope(d), sound |-> TRUE] : d \in SoundPayloads}
    \cup {[cms |-> Envelope(d), sound |-> FALSE] : d \in BadPayloads}
    \cup {[cms |-> der_sequence(<<der_oid("other"), der_explicit(0, Absent)>>), sound |-> FALSE]}

----------------------------------------------------------------------------
(* Chains: concatenated certificates, or a SignedData that holds them.     *)

Pkcs7(certs) ==
  AssembledOf(<< <<der_integer("1")>>, <<der_set(<<>>)>>, <<der_sequence(<<der_oid("data")>>)>>,
                 certs, <<>>, <<der_set(<<>>)>> >>)

\* The last field loses its last byte.
Cut(e) == [e EXCEPT !.len = @ - 1]

MCChains ==
  {[certs |-> c, sound |-> TRUE] :
     c \in {<<Leaf>>, <<Leaf, Root>>, <<Root>>, <<Pkcs7(<<der_wrap(Context(0), <<Leaf, Root>>)>>)>>}}
    \cup
  {[certs |-> c, sound |-> FALSE] :
     c \in {<<>>, <<Pkcs7(<<>>)>>, <<Pkcs7(<<der_wrap(Context(0), <<>>)>>)>>,
            <<Cut(Pkcs7(<<der_wrap(Context(0), <<Leaf, Root>>)>>))>>,
            <<Pkcs7(<<Cut(der_wrap(Context(0), <<Leaf, Root>>))>>)>>,
            <<der_sequence(<<der_sequence(<<sha256_alg_id>>), sha256_alg_id>>)>>}}

----------------------------------------------------------------------------
(* CMS in files: one the program built, and what others may have made of   *)
(* its fields.                                                             *)

Idc == IndirectData(23, PlainDigest)
Signer == Append(Slots(SignerFields(Idc, <<"rsa", cms_auth_attrs_hash(Idc)>>, x509_cert_id(Leaf))), <<>>)
Signed(signers) == DataSlots(Idc, <<Leaf>>, signers)
SignerInfo(fields) == der_sequence(FlattenSeq(fields))

Timestamp == der_wrap(Context(1), <<Attribute("timestamp", der_octet_string(<<"token">>, 5000))>>)
Stamped(fields) == [fields EXCEPT ![7] = <<Timestamp>>]

Emptied(e) == [e EXCEPT !.len = 0, !.prim = <<>>, !.kids = <<>>]
\* The i-th field inside e is empty.
Hollow(e, i) == der_wrap(e.tag, [e.kids EXCEPT ![i] = Emptied(@)])

\* A field missing, repeated, empty or cut short.
Defects(fields, i) ==
  {[fields EXCEPT ![i] = <<>>], [fields EXCEPT ![i] = @ \o @]}
    \cup {[fields EXCEPT ![i] = <<Emptied(@[1])>>]}
    \cup (IF fields[i][1].kids = <<>> THEN {} ELSE {[fields EXCEPT ![i] = <<Cut(@[1])>>]})

\* The operators below vary s, the fields of the signer, and one, those of a
\* SignedData with it.
SoundCms(s) ==
  {AssembledOf(Signed(<<SignerInfo(x)>>)) : x \in {s, Stamped(s), [s EXCEPT ![4] = <<>>]}}
    \cup {AssembledOf(Signed(<<SignerInfo(s), SignerInfo(Stamped(s))>>))}
    \cup {AssembledOf([Signed(<<SignerInfo(s)>>) EXCEPT ![f[1]] = f[2]]) :
            f \in {<<4, <<>>>>, <<5, <<der_wrap(Context(1), <<>>)>>>>}}

Version3 == <<der_integer("3")>>

DefectiveSigners(s) ==
  {f \in UNION {Defects(Stamped(s), i) : i \in 1..7} : f[4] # <<>> /\ f[7] # <<>>}
    \cup {[s EXCEPT ![1] = Version3]}
    \cup {[s EXCEPT ![i] = <<Hollow(@[1], 1)>>] : i \in 2..5}
    \cup {[s EXCEPT ![2] = <<Hollow(@[1], 2)>>]}
    \cup {[s EXCEPT ![4] = <<der_wrap(@[1].tag, <<Hollow(@[1].kids[1], i)>>)>>] : i \in 1..2}

DefectiveData(one) ==
  UNION {Defects(one, i) : i \in {1, 6}}
    \cup {[one EXCEPT ![i] = <<>>] : i \in {2, 3}}
    \cup {[one EXCEPT ![i] = @ \o @] : i \in 2..4}
    \cup {[one EXCEPT ![1] = Version3]}

DefectiveInfo(e) ==
  {Cut(e), Absent, Envelope(Idc), [e EXCEPT !.tag = SETOF],
   [e EXCEPT !.kids[1] = der_oid("data")], [e EXCEPT !.kids[2] = Cut(@), !.len = @ - 1]}

DefectiveCms(s, one) ==
  {AssembledOf(Signed(signers)) :
     signers \in UNION {{<<SignerInfo(f)>>, <<SignerInfo(s), SignerInfo(f)>>} :
                          f \in DefectiveSigners(s)}}
    \cup {AssembledOf(f) : f \in DefectiveData(one)}
    \cup DefectiveInfo(AssembledOf(one))

----------------------------------------------------------------------------
(* Certificates and files.                                                 *)

\* pad: the zeros after the CMS, the certificate's own length included.
WinCertificate(e, at, pad) ==
  [at |-> at, n |-> 8 + TotalLen(e) + pad, form |-> TRUE, lens |-> write_length(e.len),
   zeros |-> TRUE, cms |-> e, sound |-> TRUE]

File(table, certs) ==
  [size |-> table + 8192, mz |-> TRUE, pe |-> 128, signature |-> TRUE, opt_len |-> 240,
   format |-> 523, count |-> 16, offset |-> table, length |-> 8192, certs |-> certs]

Exactly(f, end) == [f EXCEPT !.length = end - f.offset, !.size = end]

\* One certificate, padded or not, and a table that ends with it.
Holding(e, pad) ==
  LET c == WinCertificate(e, 1024, pad)
  IN  {Exactly(File(1024, <<c>>), end) : end \in {1024 + c.n, NextMultiple(1024 + c.n)}}

MCAttachments(e) == UNION {Holding(x, 0) : x \in {e, Stamp(e, Timestamp)}}

\* The certificate c with another length, or other length bytes of its CMS.
Framing(c) ==
  LET long == <<131, 0>> \o Tail(c.lens)
      bad(x) == [x EXCEPT !.sound = FALSE]
  IN  {[c EXCEPT !.lens = long, !.n = @ + 1], bad([c EXCEPT !.n = @ - 1]),
       bad([c EXCEPT !.lens = <<128>>]), bad([c EXCEPT !.lens = <<133, 0, 0, 0, 0, 9>>]),
       bad([c EXCEPT !.lens = long]),
       bad([c EXCEPT !.n = 7]), bad([c EXCEPT !.n = 8]), bad([c EXCEPT !.n = 9]),
       bad([c EXCEPT !.n = @ + 8, !.zeros = FALSE]), [c EXCEPT !.zeros = FALSE],
       bad([c EXCEPT !.form = FALSE]),
       [c EXCEPT !.n = MAX_CMS], [c EXCEPT !.n = MAX_CMS + 1]}

\* Two certificates, the second where a reader should or should not find it.
Pairs(e, a) ==
  LET end == a.at + a.n
  IN  {Exactly(File(1024, <<a, WinCertificate(e, at, pad)>>), NextMultiple(at + a.n + pad)) :
         at \in {NextMultiple(end), end, NextMultiple(end) + 8}, pad \in {0, 3}}

\* Boundary values of the header fields of f: of those that lead to the directory,
\* and of those that place the table, in all combinations of each.
Headers(f) ==
  LET sizes == {63, f.size - 1, f.size, f.size + 8}
      opt_lens == {95, 96, 135, 136, 152, 936, 937}
  IN  {[f EXCEPT !.size = size, !.pe = pe, !.opt_len = opt_len, !.format = format, !.count = count] :
         size \in sizes, pe \in {64, Word - 1}, opt_len \in opt_lens,
         format \in {0, 267, 523}, count \in {4, 5}}
        \cup
      {[f EXCEPT !.size = size, !.pe = 64, !.opt_len = opt_len, !.offset = at, !.length = n] :
         size \in sizes, opt_len \in opt_lens,
         at \in {0, f.offset - 8, f.offset + 4, f.offset, f.size, Word - 8},
         n \in {0, 7, f.length - 1, f.length, f.length + 1, Word - f.offset, Word - 1}}

Sound     == SoundCms(Signer)
Defective == DefectiveCms(Signer, Signed(<<SignerInfo(Signer)>>))

\* One whose certificate needs padding, that certificate and a file with it.
Odd          == CHOOSE x \in Sound : TotalLen(x) % 8 # 0
Certificate1 == WinCertificate(Odd, 1024, 0)
File1        == Exactly(File(1024, <<Certificate1>>), NextMultiple(1024 + Certificate1.n))

MCFiles ==
  Headers(File1)
    \cup {Exactly(File(1024, <<c>>), end) :
            c \in Framing(Certificate1), end \in {1024 + MAX_CMS, NextMultiple(1024 + MAX_CMS + 1)}}
    \cup {Exactly(File(1024, <<c>>), NextMultiple(1024 + c.n)) : c \in Framing(Certificate1)}
    \cup Pairs(Odd, Certificate1)
    \cup {Exactly(File(1028, <<[Certificate1 EXCEPT !.at = 1028]>>), 1028 + Certificate1.n)}
    \cup {[File(1024, <<>>) EXCEPT !.mz = FALSE], [File(1024, <<>>) EXCEPT !.signature = FALSE]}
    \cup UNION {Holding(e, pad) : e \in Sound, pad \in 0..7}
    \cup {Exactly(File(1024, <<[WinCertificate(e, 1024, 0) EXCEPT !.sound = FALSE]>>),
                  1024 + 8 + TotalLen(e)) : e \in Defective}

\* The marks of the inputs above are right, and so is what is attached.
ASSUME ReliableAssumption == Reliable /\ InputsMarked
============================================================================
