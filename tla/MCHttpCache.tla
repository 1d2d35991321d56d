---------------------------- MODULE MCHttpCache ----------------------------
(* A document that fits in memory and varies with the request, and one     *)
(* that does not fit in memory, which its origin lets be stored or not.    *)
EXTENDS HttpCache

D(id, size, cc, vary) ==
  [id |-> id, size |-> size, etag |-> TRUE, cc |-> cc, max_age |-> 1, vary |-> vary]

MCDoc == {D("a", 1, "none", "extra"),
          D("b", 2, "none", "none"),
          D("b", 2, "no-store", "none")}
MCSymmetry == Permutations(Key) \cup Permutations(Variant)
MCEntry == {[size |-> n] : n \in 0..2}
============================================================================
