-------------------------------- MODULE Cms --------------------------------
(***************************************************************************)
(* The DER writer (der.cpp), the DER and certificate readers (x509.cpp)    *)
(* and the CMS builder and checks (cms.cpp).                               *)
(*                                                                         *)
(* An encoded element is a tree: its tag, the length its header declares,  *)
(* and its content, which is either a primitive value (a tuple that names  *)
(* it) or the elements inside.  Lengths are real: every header is written  *)
(* by write_length and read back by der_read_tlv, so an element is found   *)
(* in its container only if the two agree.  What the bytes of a name, a    *)
(* key or a digest are is left out; SHA-256 is a free constructor.         *)
(***************************************************************************)
EXTENDS Integers, FiniteSets, SequencesExt

INTEGER  == 2
OCTETS   == 4
NULL     == 5
OID      == 6
SEQUENCE == 48
SETOF    == 49
Context(n) == 160 + n

----------------------------------------------------------------------------
(* Lengths.                                                                *)

\* How many bytes a length needs, and the bytes behind their count.
Powers == <<1, 256, 65536, 16777216>>
LengthBytes(len) == Cardinality({i \in 2..4 : len >= Powers[i]}) + 1
LongForm(len) ==
  LET n == LengthBytes(len)
  IN  [i \in 1..(n + 1) |-> IF i = 1 THEN 128 + n ELSE (len \div Powers[n + 2 - i]) % 256]

\* The bytes of a length: itself below 128, otherwise a count of bytes and
\* the bytes, most significant first.
write_length(len) == IF len < 128 THEN <<len>> ELSE LongForm(len)

\* The number that bytes make, most significant first.
Number(bytes) == FoldLeft(LAMBDA v, b : v * 256 + b, 0, bytes)

\* What der_read_tlv makes of a tag followed by these length bytes at the
\* start of a buffer of len bytes; it throws when ~ok.
der_read_tlv(bytes, len) ==
  LET first == IF len < 2 THEN 128 ELSE bytes[1]
      n     == IF first < 128 THEN 0 ELSE first - 128
      framed == first < 128 \/ (n \in 1..4 /\ 2 + n <= len)
      value == IF first < 128 THEN first
               ELSE IF ~framed THEN 0
               ELSE Number(SubSeq(bytes, 2, 1 + n))
  IN  [ok |-> framed /\ 2 + n + value <= len, total_len |-> 2 + n + value]

----------------------------------------------------------------------------
(* Writing.                                                                *)

TotalLen(e)  == 1 + Len(write_length(e.len)) + e.len
LenOf(elems) == FoldLeft(LAMBDA n, e : n + TotalLen(e), 0, elems)

Prim(tag, value, len) == [tag |-> tag, len |-> len, prim |-> value, kids |-> <<>>]
der_wrap(tag, elems)  == [tag |-> tag, len |-> LenOf(elems), prim |-> <<>>, kids |-> elems]

der_sequence(elems)     == der_wrap(SEQUENCE, elems)
der_explicit(n, e)      == der_wrap(Context(n), <<e>>)
der_implicit(n, e)      == [e EXCEPT !.tag = Context(n)]
der_octet_string(v, len) == Prim(OCTETS, v, len)
der_integer(v)          == Prim(INTEGER, <<v>>, 1)
der_null                == Prim(NULL, <<>>, 0)

\* Every identifier the program writes has nine or ten content bytes.
der_oid(name) ==
  Prim(OID, <<name>>, IF name \in {"indirect_data", "statement_type", "individual"}
                      THEN 10 ELSE 9)

\* The elements of a set are sorted by their encodings; the tags and lengths
\* of the attributes written here already differ.
der_set(elems) ==
  LET Head2(e) == <<e.tag>> \o write_length(e.len)
      Before(a, b) == \E i \in 1..Min({Len(Head2(a)), Len(Head2(b))}) :
                        /\ Head2(a)[i] < Head2(b)[i]
                        /\ \A j \in 1..(i - 1) : Head2(a)[j] = Head2(b)[j]
      sorted == CHOOSE p \in [DOMAIN elems -> DOMAIN elems] :
                  \A i, j \in DOMAIN elems :
                    i < j => p[i] # p[j] /\ ~Before(elems[p[j]], elems[p[i]])
  IN  der_wrap(SETOF, [i \in DOMAIN elems |-> elems[sorted[i]]])

----------------------------------------------------------------------------
(* Reading.                                                                *)

\* The first k fields of e can be read, one after the other ...
Takes(e, k) ==
  /\ k <= Len(e.kids)
  /\ \A i \in 1..k :
       LET left == e.len - LenOf(SubSeq(e.kids, 1, i - 1))
           tlv  == der_read_tlv(write_length(e.kids[i].len), left)
       IN  tlv.ok /\ tlv.total_len = TotalLen(e.kids[i])

\* ... all of them, and nothing trails.
Framed(e) == Takes(e, Len(e.kids)) /\ LenOf(e.kids) = e.len

Tags(e) == [i \in DOMAIN e.kids |-> e.kids[i].tag]

\* DerFields: take each of these tags in turn, then end().
Fields(e, tags) == Framed(e) /\ Tags(e) = tags

Optional(tag) == {<<>>, <<tag>>}

----------------------------------------------------------------------------
(* Certificates.                                                           *)

SequenceLike(e) == e.tag % 32 = 16

\* The fields of a TBSCertificate from its serial number on.
FromSerial(cert) ==
  LET fields == cert.kids[1].kids
  IN  IF fields # <<>> /\ Head(fields).tag = Context(0) THEN Tail(fields) ELSE fields

\* Nothing after the issuer is looked at.
IsCertificate(cert) ==
  /\ SequenceLike(cert) /\ Takes(cert, 1) /\ SequenceLike(cert.kids[1])
  /\ LET f == FromSerial(cert)
         version == Len(cert.kids[1].kids) - Len(f)
     IN  /\ Takes(cert.kids[1], version + 3)
         /\ f[1].tag = INTEGER /\ SequenceLike(f[3])

x509_cert_id(cert) == [serial |-> FromSerial(cert)[1], issuer |-> FromSerial(cert)[3]]

\* The fields of the SignedData in a ContentInfo, <<>> if it is not one.
SignedDataIn(e) ==
  IF /\ e.tag = SEQUENCE /\ Len(e.kids) >= 2
     /\ e.kids[1].tag = OID /\ e.kids[1].prim = <<"signed_data">>
     /\ e.kids[2].tag = Context(0) /\ e.kids[2].kids # <<>>
     /\ e.kids[2].kids[1].tag = SEQUENCE
  THEN e.kids[2].kids[1].kids ELSE <<>>

\* An element of a ContentInfo is read, and may be unreadable, only if what comes
\* before it is what a SignedData has there; reading stops at the certificates.
CanSplit(chain) ==
  LET e  == Head(chain)
      sd == SignedDataIn(e)
      certs == {i \in DOMAIN sd : sd[i].tag = Context(0)}
  IN  chain # <<>> /\ LenOf(chain) >= 20 /\ e.tag = SEQUENCE =>
        /\ Takes(e, 1)
        /\ e.kids[1] = der_oid("signed_data") => Takes(e, 2)
        /\ sd # <<>> =>
             /\ Takes(e.kids[2], 1)
             /\ IF certs = {} THEN Framed(e.kids[2].kids[1])
                ELSE Takes(e.kids[2].kids[1], Min(certs)) /\ Framed(sd[Min(certs)])

\* The certificates in what the service sent: those of a SignedData that has
\* the field, otherwise every element of the concatenation.
x509_split_certs(chain) ==
  LET fields == IF chain = <<>> \/ LenOf(chain) < 20 THEN <<>>
                ELSE SelectSeq(SignedDataIn(Head(chain)), LAMBDA f : f.tag = Context(0))
  IN  IF fields = <<>> THEN chain ELSE Head(fields).kids

----------------------------------------------------------------------------
(* Building.                                                               *)

sha256(e)         == <<"sha256", e>>
sha256_content(e) == <<"sha256", e.prim, e.kids>>

sha256_alg_id == der_sequence(<<der_oid("sha256"), der_null>>)

\* build_auth_attrs refuses what is not exactly one SEQUENCE.
IsIndirectData(idc) ==
  LET tlv == der_read_tlv(write_length(idc.len), TotalLen(idc))
  IN  tlv.ok /\ idc.tag = SEQUENCE /\ tlv.total_len = TotalLen(idc)

Attribute(oid, value) == der_sequence(<<der_oid(oid), der_set(<<value>>)>>)

\* A mutant: the whole element is hashed, its tag and length included.
build_auth_attrs_Whole(idc) ==
  der_set(<<Attribute("content_type", der_oid("indirect_data")),
            Attribute("message_digest", der_octet_string(sha256(idc), 32)),
            Attribute("statement_type", der_sequence(<<der_oid("individual")>>))>>)

\* The message digest is over the content, without the tag and the length.
build_auth_attrs(idc) ==
  der_set(<<Attribute("content_type", der_oid("indirect_data")),
            Attribute("message_digest", der_octet_string(sha256_content(idc), 32)),
            Attribute("statement_type", der_sequence(<<der_oid("individual")>>))>>)

cms_auth_attrs_hash(idc) == sha256(build_auth_attrs(idc))

\* The fields of a SignerInfo and of a SignedData, without the optional unsigned
\* attributes and CRLs.
SignerFields(idc, signature, id) ==
  <<der_integer("1"), der_sequence(<<id.issuer, id.serial>>), sha256_alg_id,
    der_implicit(0, build_auth_attrs(idc)), der_sequence(<<der_oid("rsa"), der_null>>),
    der_octet_string(signature, 384)>>

SignedDataFields(idc, certs, signers) ==
  <<der_integer("1"), der_set(<<sha256_alg_id>>),
    der_sequence(<<der_oid("indirect_data"), der_explicit(0, idc)>>),
    der_wrap(Context(0), certs), der_set(signers)>>

Assembled(fields) ==
  der_sequence(<<der_oid("signed_data"), der_explicit(0, der_sequence(fields))>>)

CanAssemble(idc, chain) ==
  LET certs == x509_split_certs(chain)
  IN  CanSplit(chain) /\ certs # <<>> /\ IsCertificate(certs[1]) /\ IsIndirectData(idc)

assemble_cms(idc, signature, chain) ==
  LET certs == x509_split_certs(chain)
      signer == der_sequence(SignerFields(idc, signature, x509_cert_id(certs[1])))
  IN  Assembled(SignedDataFields(idc, certs, <<signer>>))

----------------------------------------------------------------------------
(* Checking.                                                               *)

SignedDataOk(e) ==
  /\ e.tag = SEQUENCE /\ Fields(e, <<OID, Context(0)>>)
  /\ e.kids[1].prim = <<"signed_data">>
  /\ Fields(e.kids[2], <<SEQUENCE>>)

signed_data(e) == e.kids[2].kids[1]

\* Version, digest algorithms, content, certificates?, CRLs?, signers.
SignedDataShape(sd) ==
  /\ Framed(sd)
  /\ \E certs \in Optional(Context(0)), crls \in Optional(Context(1)) :
       Tags(sd) = <<INTEGER, SETOF, SEQUENCE>> \o certs \o crls \o <<SETOF>>
  /\ sd.kids[1].prim = <<"1">>

DigestOk(digest) ==
  /\ Fields(digest, <<SEQUENCE, OCTETS>>)
  /\ LET alg == digest.kids[1]
     IN  /\ Framed(alg) /\ Tags(alg) \in {<<OID>>, <<OID, NULL>>}
         /\ alg.kids[1].prim = <<"sha256">>
         /\ Len(alg.kids) = 2 => alg.kids[2].len = 0
  /\ digest.kids[2].len > 0

ContentOk(eci) ==
  /\ Fields(eci, <<OID, Context(0)>>)
  /\ eci.kids[1].prim = <<"indirect_data">>
  /\ Fields(eci.kids[2], <<SEQUENCE>>)
  /\ LET idc == eci.kids[2].kids[1]
     IN  Fields(idc, <<SEQUENCE, SEQUENCE>>) /\ DigestOk(idc.kids[2])

CanExtract(e) ==
  SignedDataOk(e) /\ SignedDataShape(signed_data(e)) /\ ContentOk(signed_data(e).kids[3])

cms_extract_indirect_data(e) == signed_data(e).kids[3].kids[2].kids[1]

AlgorithmOk(alg) ==
  Framed(alg) /\ Len(alg.kids) \in 1..2 /\ alg.kids[1].tag = OID /\ alg.kids[1].len > 0

AttributesOk(attrs) ==
  /\ Framed(attrs) /\ attrs.kids # <<>>
  /\ \A i \in DOMAIN attrs.kids :
       LET attr == attrs.kids[i]
       IN  /\ attr.tag = SEQUENCE /\ Fields(attr, <<OID, SETOF>>)
           /\ attr.kids[1].len > 0
           /\ attr.kids[2].kids # <<>> /\ Framed(attr.kids[2])

SignerOk(signer) ==
  LET f == signer.kids
      first(tag) == f[CHOOSE i \in DOMAIN f : f[i].tag = tag]
  IN  /\ signer.tag = SEQUENCE /\ Framed(signer)
      /\ \E attrs \in Optional(Context(0)), unsigned \in Optional(Context(1)) :
           Tags(signer)
             = <<INTEGER, SEQUENCE, SEQUENCE>> \o attrs \o <<SEQUENCE, OCTETS>> \o unsigned
      /\ f[1].prim = <<"1">>
      /\ Fields(f[2], <<SEQUENCE, INTEGER>>)
      /\ f[2].kids[1].len > 0 /\ f[2].kids[2].len > 0
      /\ AlgorithmOk(f[3]) /\ AlgorithmOk(f[IF f[4].tag = Context(0) THEN 5 ELSE 4])
      /\ first(OCTETS).len > 0
      /\ \A tag \in {Context(0), Context(1)} :
           (\E i \in DOMAIN f : f[i].tag = tag) => AttributesOk(first(tag))

\* "throws" for whatever is not a well-formed SignedData of version 1.
cms_has_signer(e) ==
  IF ~(SignedDataOk(e) /\ SignedDataShape(signed_data(e))) THEN "throws"
  ELSE LET signers == signed_data(e).kids[Len(signed_data(e).kids)]
       IN  IF ~Framed(signers) \/ \E i \in DOMAIN signers.kids : ~SignerOk(signers.kids[i])
           THEN "throws"
           ELSE IF signers.kids = <<>> THEN "no" ELSE "yes"
============================================================================
