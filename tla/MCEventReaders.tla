--------------------------- MODULE MCEventReaders ---------------------------
(***************************************************************************)
(* Two requests against a feed of three items: a1 and b1 are copies of one *)
(* story, which becomes two versions of one event; d1 is another story.    *)
(***************************************************************************)
EXTENDS EventReaders, TLC

Envelope(id, hash, tokens, received) ==
  [id |-> id, provider |-> "news", source |-> id, native |-> NoNative,
   hash |-> hash, tokens |-> tokens, category |-> "earnings",
   received |-> received, group |-> NoGroup]

MCEnvelopes ==
  {Envelope("a1", "h1", {1, 2}, 1),
   Envelope("b1", "h1", {1, 2}, 2),
   Envelope("d1", "h2", {3}, 2)}

Symmetry == Permutations(Requests)
=============================================================================
