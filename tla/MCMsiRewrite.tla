---------------------------- MODULE MCMsiRewrite ----------------------------
(***************************************************************************)
(* Installers with two cabinets of up to two files and a Binary row: sound    *)
(* ones with every mix of payloads, and ones with a defect.                  *)
(***************************************************************************)
EXTENDS MsiRewrite, SequencesExt

Payload(i, pe, signature, length) ==
  [id |-> i, pe |-> pe, signature |-> signature, length |-> length]

\* Not a PE file, an unsigned one, a signed one.
Kinds(i) == {Payload(i, FALSE, "none", 1), Payload(i, TRUE, "none", 1), Payload(i, TRUE, "given", 2)}

InCab(name, p) == [name |-> name, size |-> Size(p), meta |-> "given", payload |-> p]

Stream(members, slack) ==
  [regular |-> TRUE, made |-> "given", expands |-> TotalDeclared(members) + slack, members |-> members]

Row(id, p, sequence, version) ==
  [id |-> id, size |-> Size(p), sequence |-> sequence, attributes |-> {}, version |-> version]

\* f1 and f2 in the first cabinet (in either order), f3 in the second, with
\* sequence numbers 1, 2 and 4; hashes for f1 and f3.
Base(p1, p2, p3, pb, version, swap, slack) ==
  [storages |-> FALSE, compressed |-> TRUE, code |-> "given",
   media |-> <<[cabinet |-> "c1", last |-> 2, embedded |-> TRUE],
               [cabinet |-> "c2", last |-> 4, embedded |-> TRUE]>>,
   file |-> <<Row("f1", p1, 1, version), Row("f2", p2, 2, FALSE), Row("f3", p3, 4, FALSE)>>,
   streams |-> [c \in {"c1", "c2"} |->
                  IF c = "c1"
                  THEN Stream(IF swap THEN <<InCab("f2", p2), InCab("f1", p1)>>
                                      ELSE <<InCab("f1", p1), InCab("f2", p2)>>, slack)
                  ELSE Stream(<<InCab("f3", p3)>>, 0)],
   binary |-> <<[name |-> "b", payload |-> pb]>>,
   hash |-> <<[id |-> "f1", options |-> 0, of |-> p1], [id |-> "f3", options |-> 0, of |-> p3]>>]

SoundPackages ==
  {Base(p1, p2, p3, pb, version, swap, slack) :
     p1 \in Kinds(1), p2 \in Kinds(2), p3 \in Kinds(3), pb \in Kinds(4),
     version \in BOOLEAN, swap \in BOOLEAN, slack \in {0, 3}}

Plain == Base(Payload(1, TRUE, "none", 1), Payload(2, TRUE, "given", 2),
              Payload(3, TRUE, "none", 1), Payload(4, FALSE, "none", 1), FALSE, FALSE, 0)

\* One or two of the things that a package may have wrong, and edge cases that
\* look wrong and are not (an empty cabinet, compression by attribute).
Defects(p) ==
  {[p EXCEPT !.storages = TRUE], [p EXCEPT !.compressed = FALSE],
   [p EXCEPT !.media = <<>>], [p EXCEPT !.file = <<>>], [p EXCEPT !.media[2].cabinet = "c1"],
   [p EXCEPT !.media[1].cabinet = "absent"], [p EXCEPT !.media = Reverse(@)],
   [p EXCEPT !.file = Tail(@)], [p EXCEPT !.file = Append(@, [@[1] EXCEPT !.sequence = 3])],
   [p EXCEPT !.streams["c1"].regular = FALSE], [p EXCEPT !.streams["c1"].expands = 1],
   [p EXCEPT !.streams["c2"].members = @ \o p.streams["c1"].members, !.streams["c2"].expands = 9],
   [p EXCEPT !.streams["c2"].members = <<>>],
   [p EXCEPT !.streams["c2"].members = <<>>, !.file = SubSeq(@, 1, 2)],
   [p EXCEPT !.streams["c2"].members = p.streams["c1"].members,
             !.streams["c1"].members = p.streams["c2"].members, !.streams["c2"].expands = 9],
   [p EXCEPT !.streams["c1"].members[1].size = 2, !.file[1].size = 2, !.streams["c1"].expands = 9],
   [p EXCEPT !.binary = @ \o @ \o @],
   [p EXCEPT !.binary[1].payload.length = 20]}
  \cup {[p EXCEPT !.compressed = FALSE, !.file = [r \in DOMAIN @ |-> [@[r] EXCEPT !.attributes = {"compressed"}]]]}
  \cup {[p EXCEPT !.media[i].last = n] : i \in {1, 2}, n \in -1 .. 5}
  \cup {[p EXCEPT !.media[i].embedded = FALSE] : i \in {1, 2}}
  \cup {[p EXCEPT !.file[r].sequence = n] : r \in 1 .. 3, n \in -1 .. 5}
  \cup {[p EXCEPT !.file[r].size = n] : r \in 1 .. 3, n \in -1 .. 3}
  \cup {[p EXCEPT !.file[r].id = id] : r \in 1 .. 3, id \in {"f1", "f2", "f3", "f4"}}
  \cup {[p EXCEPT !.file[r].attributes = {"noncompressed"}] : r \in 1 .. 3}
  \cup {[p EXCEPT !.hash[r].options = 1] : r \in 1 .. 2}

SomePackages == SoundPackages \cup Defects(Plain) \cup UNION {Defects(q) : q \in Defects(Plain) \cap
  {[Plain EXCEPT !.media[i].last = n] : i \in {1, 2}, n \in {0, 3}}}
=============================================================================
