--------------------------- MODULE MCOrderedEffects ---------------------------
(* Admissions, publications and creations that share names. *)
EXTENDS OrderedEffects

CONSTANTS s1, s2, s3, k1, k2, k3, p1, p2, p3, c1, c2,
          asset, otherAsset, source, otherSource, paper, knowledge, sequel, nextKnowledge,
          current, archive0, archive1, note,
          blob, otherBlob, text, otherText, v0, v1, v2

\* Results s1, s2 and s3 are of one source; s3 has other bytes.  Descriptors name
\* the run that wrote them, so that a run stands for its descriptor's content.
\* k1 and k2 admit the same knowledge, that of k3 replaces k1's.
MCName == {asset, otherAsset, source, otherSource, paper, knowledge, sequel, nextKnowledge,
           current, archive0, archive1, note}
MCContent == {blob, otherBlob, text, otherText, v0, v1, v2, s1, s2, s3, k1, k2, k3}

Copy(n, c) == [kind |-> "copy_blob", target |-> n, content |-> c,
               archive |-> n, expected |-> c, scoped |-> FALSE]
New(kind, n, c, locked) == [kind |-> kind, target |-> n, content |-> c,
                            archive |-> n, expected |-> c, scoped |-> locked]
Publication(old, a, new) == [kind |-> "publish_new_version", target |-> current, content |-> new,
                             archive |-> a, expected |-> old, scoped |-> TRUE]

MCEffects == [r \in Run |->
    CASE r \in {s1, s2} -> <<Copy(asset, blob), New("exclusive_create", source, r, TRUE)>>
      [] r = s3 -> <<Copy(otherAsset, otherBlob), New("exclusive_create", otherSource, r, TRUE)>>
      [] r \in {k1, k2} -> <<Copy(paper, text), New("exclusive_create", knowledge, r, TRUE)>>
      [] r = k3 -> <<Copy(sequel, otherText), New("exclusive_create", nextKnowledge, r, TRUE)>>
      [] r = p1 -> <<Publication(v0, archive0, v1)>>
      [] r = p2 -> <<Publication(v0, archive0, v2)>>
      [] r = p3 -> <<Publication(v1, archive1, v2)>>
      [] r = c1 -> <<New("exclusive_create", note, text, FALSE)>>
      [] r = c2 -> <<New("stream_create", note, text, FALSE)>>]

MCHook == [r \in Run |->
    CASE r \in {s1, s2, s3} -> "source"
      [] r \in {k1, k2, k3} -> "knowledge"
      [] r \in {p1, p2, p3} -> "publish"
      [] OTHER -> "none"]

MCFolder == [n \in Name |-> IF n \in {source, otherSource} THEN "source" ELSE n]
MCInitialFile == [n \in Name |-> IF n = current THEN v0 ELSE Absent]
MCSources == [r \in Run |-> IF r \in {k1, k2, k3} THEN {s1} ELSE {}]
MCSupersedes == [r \in Run |-> IF r = k3 THEN {k1} ELSE {}]
\* Only two creations of one name.
MCCreations == {{c1, c2}}
MCRequests == {{s1, s2}, {s1, s3}, {s1, k1, k2}, {s1, k1, k3}, {p1, p2, p3}, {c1, c2}}
=============================================================================
